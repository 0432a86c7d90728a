# Formal model of the school management system

This directory holds TLA+ specifications of the parts of the program where
several requests, a background job and a crash can meet, the TLC configurations
that check them on small instances, and TLAPS proofs of the properties that
matter most. Paths below are relative to `src/apps/api/src` unless they start
with another directory.

## 1. The system

A multi-tenant school management system: a NestJS API over PostgreSQL (Drizzle),
a BullMQ worker with repeatable jobs, a Next.js front end and a shared package.
All state is in PostgreSQL, apart from a one-minute in-process cache of
permissions. One fact decides what is hard here: a service handler is a chain of
awaited statements, most of them outside any transaction, all of them READ
COMMITTED, and hardly any table has a unique index that would stop two requests
that passed the same check.

| Component | State | Operations | Interacts with | Hard behaviour | Correct when |
|---|---|---|---|---|---|
| Receivables (`finance/finance.service.ts`) | invoices, payment and refund rows | createInvoice, recordPayment, collectPayment, verifyPayment, refundPayment, recalculateInvoiceStatus | confirm, addService, cancelEnrollment and the monthly run write the same rows | no transactions: sums read in one statement are used in a later one; refunds that await verification; a handler that stops after its insert | statuses are earned by rows, refunds are backed by payments, nothing is collected twice, closed stays closed |
| Recurring billing (`finance/recurring-billing.logic.ts`, worker) | recurring invoices of a month | generateMonthlyInvoices, ensureRecurringInvoiceForStudent | monthly job and collectPayment both issue | at-least-once job, check-then-insert, no unique index | one recurring invoice per enrollment and month |
| Enrollment ceremony (`enrollments/enrollment-billing.service.ts`, `enrollments.service.ts`) | enrollment row, placement, services, student status | create, update, confirm, assign/unassign classroom, addService, cancel, delete | writes invoices, rosters, student status | confirm checks the invoice link outside its transaction; cancellation is tested by cancel alone | confirmed once, one open placement, nothing billed after cancellation |
| Students, families (`students/students.service.ts`) | students, guardians, status | register, enroll, transfer, withdraw, archive, restore, delete | rosters, services, purge | status moves and rosters are separate statements | status and roster agree |
| Admissions (`admissions/admissions.service.ts`) | enquiries | create, convert, startEnrollment | students, enrollments | chain of transactions that may stop half way | a converted enquiry has a student and an enrollment |
| Discounts (`discounts/*`, `packages/shared/src/discounts.ts`) | rules, discounts of students, lines of invoices | create, update, delete a rule; request, approve, reject; evaluate, grant | previews and invoices | counts read before the transaction that uses them up; stacking, caps, rounding | caps hold up to rounding, limits up to overlap, a rule in use is kept |
| Payroll (`payroll/payroll.service.ts`) | runs, records, line items, totals | create, sync, generate, patch, approve, mark paid | payslip queue | totals recomputed from stale reads, approval without a status test | run totals match records, paid is final |
| Salary (`salary/salary.service.ts`) | monthly salary records | generate, approve, mark paid | staff | check-then-insert | one record per staff and month |
| Leaves (`leaves/leaves.service.ts`) | balances, leave records | set balances, create, delete | payroll | check-then-insert | days taken within the allocation |
| Identity and access (`identity/*`) | users, sessions, tokens, roles, cache | login, logout, activate, reset, revoke, resolve context | every request | tokens are read and consumed in separate statements; stale cache | token used once, revoked session stays revoked |
| Academic years, grades, subjects (`academics/*`) | years, terms, grades | create, activate, archive | everything | one active year by index | at most one active year |
| Classrooms, timetable, teacher assignments | rosters, slots | place, create slot, publish | students, staff | check-then-insert conflicts | no teacher or room booked twice |
| Archive purge (`archive/*`, worker) | archived rows | archive, restore, purge | students, staff, families | blockers read outside the deleting transaction | nothing restored is purged |
| Tenancy, audit, notifications, dashboard, reports, storage, departments, facilities, school profile, web | records | single-statement reads and writes | – | – | not modelled: no protocol |

`PROJECT.json` lists every component with its status and, under `hazards`, each
place in the code where one of these behaviours bites.

## 2. The plan

A module is done when every operation of its component that changes state is an
action. Done, in this order:

1. `Receivables` – the ledger of one account, with `FiniteSums` for its proofs.
2. `EnrollmentBilling` – enrollment rows, services and the invoices issued for
   them: confirm, cancel, added services and the monthly run. It meets
   `Receivables` where an invoice is issued: what one calls `ConfirmCommit`,
   `AddCommit` and `RunInsert`, the other calls `Confirm`, `AddService` and
   `IssueRecurring`.
3. `Payroll` – catalog, compensation, the records and totals of a run, payslips;
   and `PayRecord`, the abstract specification of a record that it implements.
4. `Placement` – enquiries, students, rosters and status. It meets
   `EnrollmentBilling` in the enrollment rows: what they bill is there, where they
   place a student is here.
5. `Leaves`, and `Archive` on top of it – leave types, allocations and leaves; the
   archive of people and its retention purge. `Archive` extends `Leaves` because a
   leave row is what the purge does not count.
6. `Access` – accounts, sessions, single-use tokens, roles, cached permissions.
7. `Discounts` – rules, the discounts of students, their evaluation and what is
   granted on an invoice.
8. `Ledger` – the abstract specification of an account, which `Receivables`
   implements.

Next: `Timetable` and `AcademicYear`, two check-then-act protocols with nothing and
with a unique index behind them.

## 3. Receivables: model and code

`Receivables` models one student account: its invoices, and the rows of `payments`
against them, in insertion order. One tenant, one student and one academic year
are enough because every statement of these handlers is scoped by them.

| Variable | Code |
|---|---|
| `status[i]` | `invoices.status`; `"absent"` before the insert. `overdue` and `waived` are in the enum, but no statement writes them |
| `payments` | rows of `payments`: kind, invoice, amount, method, verified, and `of`, the payment a refund names |
| `cancelled` | `enrollments.cancelled_at` is set |
| `req[r]` | a handler in flight: its next statement and the values it has read |

Every statement that reads or writes invoices or payments is one action, so all
the interleavings two connections can produce are explored. `recordPayment` is
`RecordStart` (read the invoice, refuse a closed one), `RecordGross`,
`RecordAccept`/`RecordReject` (read the pending sum and test the amount),
`RecordInsert`, then the four steps of `recalculateInvoiceStatus`. `collectPayment` first issues the
month's invoice, reads the open invoices, reads two sums for each, then inserts and
recalculates for each invoice in turn, oldest first. `verifyPayment` and
`refundPayment` follow the same pattern. `cancelEnrollment` is one READ COMMITTED
transaction: its reads are separate steps, its writes appear together at the
commit. `confirm`, `confirmAddStudentService` and the monthly run only insert, so
as far as the ledger can tell each is one step. `Fail` ends a handler after any of
its statements: a restart of the process or an error nobody catches.

Left out because no handler reads it back: receipts, audit rows, reference
numbers, dates (other than the order of issue dates). Abstracted: money is whole
units; `collectPayment`'s period filter is taken as the whole account; which month
a recurring invoice is for is left open. `Total` is fixed when an invoice is
inserted, as in the code.

### Ledger, what an account promises

`Ledger` forgets handlers and rows. Of each invoice it keeps the status and three
amounts, and it says what one step may do to them:

| Variable of `Ledger` | In `Receivables` |
|---|---|
| `status` | `status` |
| `collected[i]` | `GrossOf`: the verified payments of `i` |
| `awaiting[i]` | `PendingOf`: its unverified payments |
| `returned[i]` | `ReturnedOf`: its verified refunds |

An invoice is issued once, alone or with a first payment within its total; money is
taken for issued invoices only; what awaits verification is collected to the unit;
what was collected is never undone; a refund gives back at most what was collected
and a cancellation gives back to the invoices it cancels only; a status is written
only if the money justifies it (`Justified`). That is as much as overlapping
requests leave of the ledger one would like to have. It does not say that a status
is the one the money asks for, because a recalculation writes what its reads
justified and something else may have happened since; nor that an invoice is not
over-collected; nor that refunds together stay within the payments. The first two are
stated for one request at a time, the third is a finding. `Account` is the instance
of `Ledger`, with those operators as the refinement mapping, and `ImplementsLedger`
its specification.

## 4. EnrollmentBilling: model and code

`EnrollmentBilling` models one student in one academic year. Each of its runs,
deletions and confirmations is scoped by them.

| Variable | Code |
|---|---|
| `enrollments[e]` | a row of `enrollments`: `status` (`"absent"` before the insert, `"deleted"` after the delete, `"other"` for every status beside draft and approved), `invoice` for `invoiceId`, `cancelled` for `cancelledAt` |
| `services` | rows of `student_services`: item, `effectiveFrom`, `effectiveTo` |
| `invoices` | rows of `invoices` with the fee items they bill; `by`, which handler inserted the row, stands for its audit row and is read only by properties |
| `today` | the month of the server's date |
| `req[r]` | a handler or job in flight and what it has read |

Dates count months, because every test of these handlers compares a date with the
first or the last day of a month; two dates of one month are equal here.

| Action | Code |
|---|---|
| `CreateEnrollment` | `createEnrollment` |
| `UpdateRead`, `UpdateWrite` | `updateEnrollment`: checks, then an update by id |
| `DeleteRead`, `DeleteWrite` | `deleteEnrollment`: checks, then a delete that the foreign key of `invoices.enrollmentId` may refuse |
| `ConfirmRead`, `ConfirmCommit` | `confirm`: the test of `invoiceId` and the preview, then the transaction |
| `AddRead`, `AddResolve`, `AddCommit` | `confirmAddStudentService`: preview, second look-up of the enrollment, transaction |
| `RemoveService` | `removeStudentService` |
| `CancelRead`, `CancelCommit` | `cancelEnrollment` |
| `RunStart`, `RunCheck`, `RunServices`, `RunInsert` | `generateMonthlyInvoices` and `ensureRecurringInvoiceForStudent`: the enrollments selected; then for each the duplicate guard, the active services, the insert |
| `Refuse`, `Fail`, `NextMonth` | a refused request, a handler that stops, the clock |

A run may be asked for any month, by any number of requests, collections or
deliveries of the queue: `RunStart` has no guard but the model's bound. Which
enrollment of a student a single-student run takes is left open, as `LIMIT 1`
without an order leaves it.

Left out: classrooms, rosters and the student's status, and with classrooms
`assertNoDuplicateEnrollment` (all in `Placement`); amounts and discounts; fee plans that change during a run; the payments a confirmation may
carry, which are in `Receivables`.

## 5. Payroll and PayRecord: model and code

`Payroll` models one run of one tenant (`payroll/payroll.service.ts`), with
everything that feeds it and the payslips that come out of it.

| Variable | Code |
|---|---|
| `catalog[x]` | a row of `pay_components`, `benefit_packages` or `incentive_programs`: status and amount |
| `comp[s]` | `staff_compensation_profiles` with the benefits and eligibilities of `s` |
| `run` | `payroll_runs`: does the row exist, and its stored totals |
| `records[s]`, `lines[s]` | `payroll_records` and `payroll_line_items` of `s` |
| `jobs`, `payslip[s]` | `render-payslip-pdf` jobs, and what the stored object says |
| `req[h]` | a handler, or a job of the worker, in flight |

| Action | Code |
|---|---|
| `CreateSource` … `RestoreSource`, `DeleteSourceRead`/`Write` | the catalog; a deletion is refused while archived is not set or something refers to the source |
| `EnrollStaff`, `UnenrollStaff`, `CompensateClear`/`Fill` | benefits and eligibility; `upsertStaffCompensation`, which deletes and inserts again |
| `CreateRun`, `Generate`, `GenRecord`, `GenRows`, `GenInsert` | `createPayrollRun`; `generatePayrollRun`, one member of the staff after another |
| `SyncRows` | `syncDraftRecordFromCompensation`: what a draft record gets when it is generated again |
| `PatchRead`, `PatchSelect`, `PatchLine` | `patchPayrollRecord`, with selections or with one adjustment |
| `LinesDelete`, `RecordUpdate`, `LinesInsert` | the three statements that rewrite a record, shared by both |
| `RecalcRecord`, `RecalcLines`, `RecalcWrite`, `TotalsRead`, `TotalsWrite` | `recalculateRecordTotals`, `recalculateRunTotals` |
| `Approve`, `MarkPaid`, `Enqueue`, `EnqueuePayslip` | `approvePayrollRecord`, `markPayrollPaid`, `enqueuePayslip` |
| `JobStart`, `Download`, `RenderLines`, `RenderPut` | the worker's job and `downloadPayslip`, which both render |

An amount is signed and only the net of a record is kept, since the other totals
are parts of the same sum. `SumRows` adds the line items themselves; `Price` makes
an amount a percentage of the base where the code does. `settled` in a payslip
notes that its record was settled when the rendering began; only properties read it.

`PayRecord` is what payroll promises of a record: it is drafted, adjusted while it
is open, settled once, and its payslip repeats it. `Payroll` implements it with
`phases`, `contents` and `slips` as the refinement mapping: a record is *settled*
when it has left the draft state and no adjustment that began before is under
way. That is the strongest promise the code keeps: a status is looked at before
the first statement of an adjustment only, so an approval alone settles nothing.

## 6. Placement: model and code

`Placement` follows students of one academic year from an enquiry to a classroom
(`admissions.service.ts`, `students.service.ts`, `enrollments/`,
`classrooms.service.ts`).

| Variable | Code |
|---|---|
| `students[s]` | `students.status` |
| `enrollments[e]` | status, student, classroom, enquiry; invoiced and cancelled or not; `started`, whether `startEnrollment` made it, is read by a property only |
| `places[s][c]` | open rows (no `effectiveTo`) of `classroom_students` |
| `rooms` | the active classrooms |
| `enquiries[q]` | `enquiries.status`, or absent before the insert |
| `req[h]` | a handler in flight and what it has read |
| `touched` | auxiliary: students that an endpoint outside the ceremony has changed |

`CreateEnquiry` is `createEnquiry`, one insert. `startEnrollment` is five steps (`StartRead`, `StartStudent`, `EnrollCheck`,
`EnrollInsert`, `StartOffer`), since each of its parts commits by itself and it may
stop between any two. `EnrollRead` and `EnrollInsert` are `createEnrollment` by a
request of its own, which may name an enquiry, whoever else has named it
(`enrollments.service.ts:215`). `confirm`, `assignClassroom`, `unassignClassroom` and
`updateEnrollment` check in one step and write by the row they read in another, a
transaction of which the writes appear together; `cancelEnrollment` is one
transaction and one step. `Place` is `syncClassroomPlacementTx` whole: the rows of
other classrooms are closed, one is opened unless it is open, the status is set.
`OlderEnroll`, `OlderClose`, `TransferInsert` and `OlderStatus` are the older
endpoints `students/:id/enroll`, `transfer` and `withdraw`, which know nothing of
enrollments. The promises are about students they have not touched: of the others
the code keeps none of them (see the findings).

## 7. Leaves and Archive: model and code

`Leaves` models `leaves/leaves.service.ts` for one tenant and year, `Archive` the
archive handlers of `students/` and `hr/` and the purge of `archive/`.

| Variable | Code |
|---|---|
| `types[t]` | `leave_types`: status, quota |
| `balances[m][t]` | `staff_leave_balances`: an override of the allocation, or none |
| `leaves[m][t][d]` | how many rows of `d` days `leave_records` has |
| `people` | the rows of `students` and `staff` |
| `archived[p]` | `archivedAt`: null, recent, or past the retention window |
| `file[p]` | the kinds of rows that refer to `p`: those a deletion counts, those it takes along |
| `req`, `desk`, `job` | handlers of leaves, archive handlers, purge runs |

`createLeaveRecord` is four steps (quota, override, days used, insert),
`deleteLeaveType` four (read, count, delete the allocations, delete the type). A
purge run visits the tenants in turn, in each the students and then the staff
selected by then; it counts (`RunCount`) and deletes (`RunDelete`) by separate
statements. `Erase` is the deleting transaction: what refers to the person either
goes along or, through its foreign key, aborts the transaction, and with it the
run. Time is abstracted to `Age`, which takes a person past the retention window.

## 8. Access: model and code

`Access` models the services of `identity/` for one tenant and one API process.

| Variable | Code |
|---|---|
| `users`, `assigned`, `roles` | `users.status`, `user_roles`, `roles`: status and whether the permission asked for is among them |
| `sessions[s]` | `sessions`: user, `revokedAt` set or not, and the ticks left of the deadline (`idle`) and of the absolute lifetime (`life`) |
| `tokens[k]` | activation and reset tokens; `uses` counts the passwords set with it |
| `cache[u]` | `TenantContextCache`: the permission as last resolved and the ticks left |
| `req[h]` | a handler in flight and what it has read |
| `old`, `late`, `spared`, `missed`, `lost` | auxiliary, read by properties only (below) |

`activateAccount`, `confirmPasswordReset`, `login`, `assignRole`,
`updateTenantRole` and `deleteTenantRole` are a step per statement, and so is
`resolve` (look into the cache, read the roles, store). `actorFromSessionToken`,
which starts every request, is two: `Authenticate` reads a valid session and decides
whether moving its deadline gains `SlideThreshold`, and `Slide` moves it, by the id
of the row alone, so the session may have been revoked, or have expired, in between.
`Tick` counts all lifetimes down, the deadline a handler is about to write included.
A password is told apart only from the one that replaced it.

`Fail` ends a handler after any of its statements, as an audit row that is refused
does (`recordEvent` is awaited and nothing catches what it throws), or the end of the
process. Nobody does what the handler had still to do: a token whose password is set
stays unmarked, sessions of the old password live on, a changed role is not
invalidated in the cache. `Restart` is the process started again, with an empty
cache. Of what the auxiliary variables record:

| Variable | Set by |
|---|---|
| `old` | the password the session was opened with has been replaced |
| `late` | a change overtook the handler: the password of a login it has verified, the roles of a context it has read |
| `spared` | an `old` session that no reset under way will reach: its login was overtaken, or its reset failed. The next reset of the user takes it back |
| `missed` | a cached context that a change of the roles overtook, or that a failed change left wrong |
| `lost` | how many handlers set a password with the token and failed before they marked it |

## 9. Discounts: model and code

`Discounts` models `discounts/discounts.service.ts`,
`discounts/discount-evaluation.logic.ts` and the stacking of
`packages/shared/src/discounts.ts`.

| Variable | Code |
|---|---|
| `rules[r]` | `discount_rules`: status and terms (type, automatic, stackable, contexts, items, percentage or amount, `maxRecipients`, `approvalThreshold`) |
| `discounts[d]` | `student_discounts`: status, student, rule |
| `granted[i]` | `invoice_discounts` of invoice `i`; `cap`, the cap they were under, and `limit`, the number of recipients a rule was tested against, are read by properties only; `stored` says whether the lines were inserted, which an untriggered run omits |
| `eval[h]` | an evaluation, or a deletion of a rule, in flight |

| Action | Code |
|---|---|
| `CreateRule`, `UpdateRule`, `SetRuleStatus` | `createDiscountRule`, `updateDiscountRule`, `setDiscountRuleStatus` |
| `DeleteRuleRead`, `DeleteRuleCount`, `DeleteRuleRow` | `deleteDiscountRule`: checks, counts of what refers to the rule, the delete, which a foreign key may refuse |
| `RequestDiscount`, `DecideDiscount` | `requestDiscount`; `approveDiscount` and `rejectDiscount` |
| `ReadApproved`, `ReadAuto`, `ReadCounts`, `ReadForced` | `evaluateDiscountsFromDb`, read by read |
| `Stack`, `Grant` | `applyDiscountStacking`, the test for approvals of `confirm`, and the transaction that inserts the lines |

`Amount`, `Stackings`, `Cap`, `Scaled` and `Lines` are the arithmetic, with
`Rounded` for `Math.round`; the winner among equal exclusive discounts, which the
order of the rows decides, is left open. Left open as well is which rules a student
matches (siblings, ranks, dates, grades): any rule may match. Money is whole units
and the quotient that scales to the cap is exact, where the code has a floating-point
one. Left out: validity dates, and the deletion of a student with their discounts.

## 10. What is checked

| Run | Bounds | Shows |
|---|---|---|
| `serial` | 3 invoices (the ceremony's, one issued by the month's run or by an added service, one ad hoc), 1 request at a time, amounts 1–2, no handler starts once there are 3 rows; of the behaviours, those in which handlers stop anywhere and those in which each is resumed (`SerialSpec`) | `TypeOK`; `NoOvercollection`: collected and pending money never exceed an invoice, however many handlers stopped half way; `PaidNeverReopens`: a refund or a late verification leaves a paid invoice closed; `CancelledIsFinal`; `SettlesWhenResumed`: when handlers are resumed, an invoice that verified payments cover is eventually closed |
| `concurrent` | 2 invoices (the ceremony's and the month's), 2 requests, 2 rows before the last handlers start, requested amounts 1 (a confirmation may still pay its total of 2) | `StatusEarned`: a status that reports money is backed by rows although it is written two statements after the sums were read; `RefundsMatchPayments`: a refund names a verified payment of the same invoice at least as large; `ImplementsLedger` |
| `enroll_serial` | 2 enrollments, 3 items (mandatory monthly, optional monthly, optional one-time), 2 months, 1 request at a time that may stop anywhere, no handler that inserts starts once there are 3 invoices | `ConfirmedOnce`; `OneRunPerMonth`: runs may be repeated; `ConfirmedIsFrozen`: status and invoice of a confirmed enrollment stay |
| `enroll_concurrent` | 1 enrollment, 2 items, 2 months, 2 requests, 3 invoices | `InvoiceLinks`: enrollments and ceremony invoices name each other and no invoice is orphaned by a racing deletion; `BilledAfterStart`: a run bills no service before its start, however stale its reads; `DoubleBillingIsBounded`: an enrollment's ceremony, and a month, are billed at most as often as handlers overlap |
| `payroll_serial` | 2 members of staff, a package and a program that is deducted, 1 adjustment, 1 request to its end, 2 changes of catalog or compensation | `NetIsSumOfLines`, `TotalIsSumOfRecords`: every path through generation, regeneration, adjustment, approval and payment leaves sums that agree |
| `payroll_concurrent` | 1 member of staff, 1 component, 2 requests or jobs that may stop anywhere, 1 adjustment line | `TypeOK`; `SettledIsFinal`; `PayslipIsFaithful`: though record and lines are read by two statements and a payslip may be rendered twice; `ImplementsPayRecord` |
| `payroll_generation` | 2 members of staff, no catalog, 2 requests or jobs, `FairSpec` | `GenerationCovers`: a generation that answers has left a record for everybody; `PaidGetsPayslip` |
| `placement` | 2 students, 2 enrollments, 2 classrooms, 1 enquiry, 1 request at a time that may stop anywhere, 1 change by other means | `TypeOK`; `OnePlace`; `PlaceIsEnrolled`: the place is one that an approved enrollment names; `StatusFollowsEnrollment`: cancelling one enrollment does not touch what another one gives; `EnquiryStartsOnce` |
| `archive_purge` | a student and a member of staff of two tenants, 1 leave type, a nightly run, one archive handler and one request, allocations of 1, 1 record added by others or run that fails, `FairSpec` | `NobodyGoneIsOnFile`: no history, owned row or leave refers to somebody who is gone, whatever is recorded between count and deletion, or looked up before the deletion and recorded after it; `DueIsPurged`: whoever is due and may go is purged or restored, unless runs keep ending at somebody with uncounted records |
| `archive_leaves` | 1 member of staff, 1 leave type, leaves of 1 or 2 days, allocations 0 or 2, 2 requests, one archive handler, one run on demand | `OverdraftIsBounded`: each further request in flight overdraws an allocation by its own days at most; `UsedTypeIsKept` |
| `discounts` | 2 rules, 2 discounts, 1 student, 2 items, cap 60 %, 2 handlers that may stop anywhere, 2 changes of rules or decisions, no evaluation starts once there are 2 invoices | `TypeOK`; `QuotaIsBounded`: each further handler exceeds `maxRecipients` by one invoice at most; `StackingIsSound`: the cap is exceeded by rounding only and one discount at most does not stack; `UsedRuleIsKept` |
| `access` | 1 user, 1 role, 1 session, 1 token, session deadlines of 2 ticks within a life of 3, the other lifetimes 1 or 2, a slide worth 1 tick, 2 requests that may fail anywhere, one handler lost before it marks a token; two tenants (below) | `TypeOK` and that no session gets a deadline past its lifetime; `TokenIsSpent`: the uses of a token are bounded by the handlers in flight and those lost; `ResetLocksOut`: no slide and no second reset brings a session of the old password back; `CacheIsCoherent`: a wrong entry was overtaken, or left by a change that failed, or is about to be dropped; `PermissionsConverge`: the cache is not wrong for ever |

Why the bounds are enough. In `Receivables`, a total of 2 with amounts 1 and 2
gives unpaid, partial, paid in one or two payments, and a part or full refund of
each. Three rows (a handler that starts at two may add two more, and cancellation
may add one for each payment) allow pay, refund, pay again and a pending row of
each kind, which is what the status depends on. Three invoices make
`collectPayment` skip, fill and part-fill. Two requests are what a
check-then-insert race needs; where request identifiers are symmetric the
configuration says so.

For `EnrollmentBilling`, three invoices are a ceremony's, an added service's and a
run's, or two runs and their ceremony; two months are what a guard that looks at
one month can confuse; two enrollments let a run bill the second after the first,
and two requests are a run and whatever overtakes it.

In `Payroll` two records are what a total can mix up, and one record, rewritten by
one handler and read by another, is all that `SettledIsFinal` and the payslip
depend on. Edits of the catalog are left out where two handlers interleave, since
amounts come from it by a single read; they are in `payroll_serial`. In
`Placement`, two enrollments of one student, or of two, in two classrooms are what
cancellation, moving and duplicates can confuse; `MaxOpen` counts a second open row
of one classroom. In `Archive`, two tenants and the two kinds of people make a run
go on after one it skips. In `Access` one user suffices, as no statement of these
handlers is about two of them but `invalidateTenant`, and one session, token and
role that are used again and again. A session's deadline is shorter than its life, so
that it slides in its first tick or later, and is capped in its last ones. Accounts
and sessions on the one hand and roles on the other meet in `resolve` only, so
`MCAccess` does not explore every state of the one with every state of the other: the
run starts from a tenant that has deleted its roles and has no account yet, and from
one whose account is active and has used its token, states both of which `Init` leads
to. The theorems are about `Init`. In `Discounts` two rules, one that stacks and is
limited to one recipient and one that does neither, with a cap that odd amounts
exceed when rounded, are what stacking can confuse; two invoices and two handlers
exceed a limit of one by one.

`NoOvercollection`, `PaidNeverReopens` and `CancelledIsFinal` hold only when
requests do not overlap: with a second element of `Request` the run `serial` fails
each of them. They are kept as properties because they are what the code intends
and because they still constrain every order of requests and every half-finished
handler. The same holds of `ConfirmedOnce`, `OneRunPerMonth` and
`ConfirmedIsFrozen` in `EnrollmentBilling`, of the two sums in `Payroll` and of
`OnePlace`, `PlaceIsEnrolled` and `StatusFollowsEnrollment` in `Placement`.
`DoubleBillingIsBounded`, `OverdraftIsBounded`, `QuotaIsBounded` and `TokenIsSpent`
say instead how wrong it can get: by what the number of handlers in flight allows,
and in `TokenIsSpent` of those that failed at the worst moment. `ResetLocksOut` and
`CacheIsCoherent` name what a failed handler leaves (`spared`, `missed`) and hold of
everything else. `Ledger` is written so
that overlapping requests keep it.

### Fairness

In `Receivables` and `Payroll`, `FairSpec` asks weak fairness of each handler that
has started: the event loop resumes it once the database answered. Nothing asks
that a request be made. Failures are not part of these two specifications: an
abandoned handler leaves a stale status for good, since only the next
recalculation would repair it. The run `serial` explores both kinds of behaviour,
with handlers abandoned and with fairness (`SerialSpec`), and asks
`SettlesWhenResumed` of the second kind only. It serves one request at a time; with
two, a stale recalculation may come last.

The worker's queue is first in, first out, so in `Payroll` the start of a job
that keeps being possible is strongly fair: `JobStart` is disabled whenever both
handlers are busy, and weak fairness would let other requests starve it for ever.
In `Archive` the nightly run is weakly fair to start, as the scheduler repeats it,
and to go on; runs may fail `MaxEdits` times, and requests, `purgeNow` and time are
free to do as they like. In `Access` the clock ticks and handlers that have started
go on, unless they fail: `Fail` has no fairness and no bound but on the tokens it
leaves unmarked, so `PermissionsConverge` holds although any invalidation, or all of
them, may be missed.

### Deadlock

Checked in every run: with no handler in flight some request can always be
refused or made (`Refuse`, `Tick`, or an endpoint without a condition).

## 11. Findings

The list in `PROJECT.json` quotes the lines. None of them is a run of its own: each
was met when a property that the code seems to promise failed, and is kept out of
the property that remains by what that one assumes.

* Receivables and billing. Non-cash refunds awaiting verification are not counted,
  so a payment is refunded twice. Two requests at once collect one balance twice; a
  stale recalculation turns `paid` into `partial`, or takes back a cancellation. The
  run of the month of a confirmation bills its items again; an added service makes
  the month's run skip the student; a cancelled enrollment is still billed. Two
  confirmations, or two runs of a month, at once issue two invoices; an update that
  checked the enrollment before a confirmation takes back its status.
* Payroll. A paid record can be approved again and is then pending, with the run's
  paid total unchanged; a draft can be paid. Regeneration drops manual
  adjustments. Two adjustments at once leave two sets of lines.
* Placement. An assignment between the reads and the transaction of a confirmation
  leaves two places, or one the enrollment does not name. Two cancellations at once
  keep a student enrolled. A confirmed enrollment without a classroom leaves the
  student a draft. A request to create an enrollment may name an enquiry that has one
  already. The older endpoints bypass all of it.
* Archive and leaves. Somebody with leave rows stops the purge for everybody after
  them, every night. A person restored between count and deletion is deleted.
  Overlapping leaves overdraw an allocation; deleting a type may fail with its
  allocations already gone.
* Access. A reset token is used twice by two requests at once, or again after a reset
  that stopped before it marked it; a login that verified the old password opens a
  session after the reset; a reset that fails between its statements leaves the old
  sessions valid, and no token to try again with. A change of a role or of its
  assignment of which the audit row is refused leaves the cached permissions wrong
  until they expire.
* Discounts. A rejected discount can be approved and one that was granted rejected.
  The limit of a rule counts every invoice and not enrollments, is exceeded by
  confirmations that overlap, and is not kept for forced rules nor by runs that store
  no lines. An automatic rule and an approved discount of the same rule both reduce
  one invoice. The monthly run ignores approval thresholds. Rounding exceeds the cap.

## 12. What is proved

Each theorem is about every value of the constants that the module's assumptions
admit: any invoices, enrollments, staff, rules, users, dates and amounts, any number
of requests and jobs in flight. Two hypotheses appear in the statements that need
them. `OneAtATime` says that no two requests are in flight; it is what the findings
on overlapping requests leave of the properties that carry it. `PositiveAmounts` says
that the amounts requests carry are positive, which `recordPayment` does not test.

Every invariant is proved by an inductive one that implies it: the initial states
satisfy it, and there is one step for each action, for a handler that fails and for
stuttering. What makes an invariant inductive is almost always a clause about the
locals of handlers: what a handler has established by its reads and may rely on until
its last write, whatever others do in between.

**Receivables** (`Receivables_proofs`)

* `TypeCorrect`. `TypeInv` adds to the types what a handler's locals must be at each
  program counter (`LocalOK`), for example that `pay` indexes a row while a refund is
  under way.
* `RefundsAreBacked`: `RefundsMatchPayments`. `RefundInv` adds what a handler knows
  between reading a payment and inserting the refund, and what a cancellation's plan
  holds before the commit. It survives other requests because rows are never removed
  and only `verified` changes, from false to true; that is `Grows`, a theorem of its
  own, `PaymentsAreKept`.
* `StatusIsEarned` (`PositiveAmounts`): `StatusEarned`. The status is written from
  sums read two statements earlier, so `EarnedInv` says of a handler between the reads
  and the write that the gross it read is at most the present one and that the status
  it is about to write is earned now; verified money of an invoice never decreases.
* `KeepsLedger` (`PositiveAmounts`): `ImplementsLedger`. The refinement, step by step:
  the initial states map to the initial state of `Ledger`, and each action either
  leaves the account's four tables alone or takes one step of `Ledger`. `IssuedInv`
  supplies that what a handler works on has been issued and that what a cancellation
  refunds belongs to an invoice it cancels; with `TypeInv`, `RefundInv` and
  `EarnedInv` it makes the guards of `Ledger` true. The rest is sums: how the three
  amounts of an invoice change when a row is appended (`AppendRaises`), when one is
  verified, or when a cancellation appends a row for each payment at once
  (`AppendedRows`).
* `SeriallyNoOvercollection`, `SeriallyCancelledIsFinal` (`OneAtATime`) and
  `SeriallyPaidStaysClosed` (both hypotheses). `AloneInv` says what the handler in
  flight has established: a balance it read is still the balance, an amount it is
  about to insert still fits, the sums of its recalculation are the sums, and an
  invoice it recalculates is not cancelled. From it, a status changes only by issuing,
  cancelling or being recalculated (`StatusChanges`).
* `SeriallyStatusCurrent` (`OneAtATime`, and `WorkSpec`, in which no handler is
  abandoned): `StatusCurrent`, between requests the status of an issued invoice that is
  not cancelled is the one its rows give now. `CurrentInv` lets one invoice deviate,
  the one that the handler in flight has yet to recalculate. It is the safety half of
  `SettlesWhenResumed`: what remains for TLC is that the handler gets to its end.

**EnrollmentBilling** (`EnrollmentBilling_proofs`)

* `TypeCorrect`. `TypeInv` says besides that a handler past its first read names an
  enrollment, and that no enrollment's invoice number exceeds the number of invoices,
  which is why a latest approved one exists.
* `LinksHold`: `InvoiceLinks`. `LinkInv` is the strengthening: whatever a run still has
  to visit, or an added service is for, has been billed; invoices are never removed,
  and `DeleteWrite` refuses to delete what they name.
* `RunsBillBegunServices`: `BilledAfterStart`. `StartInv` keeps, between reading the
  services and inserting, that every item held had begun; service rows never lose
  their item or start (`ServicesKept`).
* `DoubleBillingBounded`: `DoubleBillingIsBounded`, for any number of handlers at once.
  `BoundInv` counts the invoices together with the handlers that have passed the test
  and may still insert one (`Confirming`, `Running`): as long as there is no invoice
  the sum is bounded by the handlers there are, and once there is one nobody passes the
  test any more. With one handler it says what the next two theorems say.
* `SeriallyConfirmedOnce`, `SeriallyOneRunPerMonth`, `SeriallyFrozen` (`OneAtATime`).
  `SerialInv` says that a ceremony's invoice is the one its enrollment names, and what
  each handler's test has established until its write: no invoice for the enrollment,
  no recurring invoice of the month.

**Payroll** (`Payroll_proofs`)

* `TypeCorrect`, `PayslipsAreFaithful`, `SettledStaysFinal` and `Implements`. `PayInv`
  is the invariant: the types, that a handler between its check and its last write
  holds an existing record (`AdjustedExists`), what a rendering has read (`ReadsOK`)
  and that a stored payslip of a settled record repeats it (`SlipsOK`). Only handlers
  that passed the check for a draft write amounts or lines, each of them keeps its
  record unsettled until it is through or gives up, and nothing unsettles a settled
  record. `Implements` is the refinement of `PayRecord`, every step to a step of it or
  to none.
* `GenerationsCover` adds `AllCovered`: whomever a generation has dealt with has a
  record, as none is ever deleted.
* `SeriallyNetIsSum`, `SeriallyTotalIsSum` (`OneAtATime`, and `ServedSpec`, in which no
  handler stops half way). `SerialInv` says what is already true at each program
  counter, for example that the lines inserted add up to the net written before them.

**Placement** (`Placement_proofs`)

* `TypeCorrect`, with what the locals of a handler are and that a live enrollment is a
  registered student's (`Owned`).
* `SeriallyOnePlace`, `SeriallyPlaceIsEnrolled`, `SeriallyStatusFollows` and
  `SeriallyEnquiryStartsOnce` (`OneAtATime`). They need each other: `AloneInv` is that
  `startEnrollment` has made one enrollment of an enquiry at most, that an untouched student sits in one place
  which an approved enrollment names (`Placed`), that the status follows the
  enrollments, and what a handler's reads have established (`AloneLocal`).

**Leaves and Archive** (`Archive_proofs`)

* `TypeCorrect` for both modules together, and `NobodyOrphaned`, which is a part of
  the same invariant: every statement that inserts keeps it, because it is refused when
  the person went after the handler looked for them, and every one that deletes,
  because what refers to the person and does not go along refuses it.
* `UsedTypesKept`, which rests on the foreign keys that `DeleteTypeRow` respects.
* `OverdraftBounded`: `OverdraftIsBounded`. The days taken are compared with the largest
  allocation and the days of the other handlers; `OverdraftInv` counts the days taken
  together with those that handlers past the test have reserved.

**Access** (`Access_proofs`)

* `TypeCorrect`, with the bound on a session's deadline. `SlideOK` is what makes it
  inductive: the deadline a handler is about to write is within what is left of the
  life of the session it names, since the clock takes from both alike, and that row
  stands for no other session meanwhile.
* `TokensAreSpent`: `UsesCounted`, that the uses of a token and the handlers about to
  use it are together at most as many as the handlers there are and those it lost
  before they marked it. A handler moves from the one count to the other, whether it
  goes on or fails.
* `ResetRevokes`: `LockInv`, which says of sessions past their deadline too that an
  outdated one is about to be revoked, because `Slide` may yet bring them back.
* `CacheCoherent`: `CacheInv`, that what a handler has read of the roles is still so,
  unless it was overtaken (`late`) or the invalidation is still to come; when the
  change fails before that, the entry is marked as wrong where it is.

**Discounts** (`Discounts_proofs`)

* `TypeCorrect`; `UsedRulesKept`, which is inductive with the types.
* `StackingSound`. Each candidate's amount is rounded by half a unit at most
  (`SumRounded`), a stacking keeps at most one candidate that does not stack, and
  nothing that happens between the reads and the transaction changes what was read.
* `QuotaBounded`. `QuotaInv` counts, under each limit a rule ever had, the invoices that
  hold a place and the handlers that wait for one, which were given it when fewer
  invoices than the limit held one. `DiscountAssumption` includes that null is not a
  set of terms; a rule without terms would otherwise pass for one with some.

**FiniteSums** holds what the components share about `SumFunctionOnSet` of the
community modules: one element more or less, congruence, monotonicity, positivity,
bounds (`SumAtMost`), disjoint unions (`SumUnion`), renaming (`SumImage`), and rounding
one by one (`SumRounded`). The induction they need runs over finite subsets as a
minimal-counterexample argument, stated with sets. Two more: a non-empty set has an
element of least natural-number weight, and a finite set can be listed.

Only model-checked are the four liveness properties, `SettlesWhenResumed`,
`PaidGetsPayslip`, `DueIsPurged` and `PermissionsConverge`: fairness and ENABLED are
outside the prover's reach. Every other property that a run checks is the statement of
a theorem. No module with a theorem uses RECURSIVE operators.

## 13. Not modelled

The components marked `not_modelled` in `PROJECT.json`, each with its reason. By
far the largest is the web application: it renders what the API answers and holds
no state of the domain, and it is more than half of the code. Of the finance
service: fee items and plans, expenses, receipts, reports and the family-level
views, which read the ledger but do not change it. Timetable and academic
years are next in the plan, teacher assignments would follow; of each the hazards and
findings name what a reader should know. Salary records are superseded by payroll.
Calendar arithmetic (months, deadlines, retention windows) is abstracted to the
comparisons the handlers make with it.
