------------------------------- MODULE Payroll -------------------------------
(***************************************************************************)
(* One monthly payroll run (payroll.service.ts): the catalog of pay        *)
(* components, packages and incentive programs, what each member of staff  *)
(* is assigned, the payroll records with their line items, the totals of   *)
(* the run, and the payslips a worker renders from them.                   *)
(*                                                                         *)
(* No handler uses a transaction.  A record's lines are deleted, the       *)
(* record is updated and the lines are inserted again by three statements; *)
(* the record's status is looked at before the first of them only.         *)
(*                                                                         *)
(* An amount is signed: a deduction of n is -n.  Of a record's totals only *)
(* the net is kept, since the others are parts of the same sum.  Amounts   *)
(* that override the catalog's, caps and terms of programs are left out.   *)
(***************************************************************************)
EXTENDS Integers, Sequences, SequencesExt

CONSTANTS
  Staff,       \* active members of staff
  NoStaff,     \* null
  Source,      \* pay components, benefit packages and incentive programs
  Program,     \* the incentive programs among them
  Package,     \* the benefit packages
  Deduction,   \* the components, and kinds of adjustment, that are deducted
  Percent,     \* those whose amount is a percentage of the base salary
  Manual,      \* the kinds of adjustment, lines that have no sourceId
  Base,        \* base salaries
  Amount,      \* amounts
  Request,     \* handlers and jobs of the worker that may be in flight at once
  MaxLines,    \* BOUND: a record with so many lines gets no adjustment
  MaxEdits     \* BOUND: changes of the catalog and of compensation

ASSUME StaffAssumption == Staff # {} /\ IsFiniteSet(Staff) /\ NoStaff \notin Staff

ASSUME SourceAssumption ==
  /\ IsFiniteSet(Source) /\ Manual \cap Source = {}
  /\ Program \subseteq Source /\ Package \subseteq Source
  /\ Deduction \subseteq Source \cup Manual /\ Percent \subseteq Source

ASSUME AmountAssumption == Base \subseteq Nat /\ Amount \subseteq Nat

VARIABLES
  catalog,    \* catalog[x]: status and amount of a source
  comp,       \* comp[s]: base salary and assigned sources
  run,        \* the run: does it exist, and its stored totals
  records,    \* records[s]: the payroll record of s in the run
  lines,      \* lines[s]: the line items of that record
  jobs,       \* members of staff with a render-payslip-pdf job
  payslip,    \* payslip[s]: what the stored object says, if there is one
  req,        \* req[h]: where handler h is and what it has read
  edits       \* BOUND: changes made so far

tables == <<catalog, comp, run, records, lines>>
output == <<jobs, payslip>>
vars == <<tables, output, req, edits>>

Idle == [pc |-> "idle", staff |-> NoStaff, todo |-> {}, base |-> 0, rows |-> <<>>,
         net |-> 0, paid |-> 0, pays |-> FALSE, all |-> FALSE, settled |-> FALSE]

NoPayslip == [rendered |-> FALSE, base |-> 0, net |-> 0, rows |-> <<>>, settled |-> FALSE]

At(h, pc) == req[h].pc = pc
Goto(h, locals) == req' = [req EXCEPT ![h] = locals]
Quiet == \A h \in Request : At(h, "idle")

Active == {x \in Source : catalog[x].status = "active"}
Exists(s) == records[s].status # "absent"

Row(x, amount) == [src |-> x, amount |-> IF x \in Deduction THEN - amount ELSE amount]

(* calcComponentAmount, resolveIncentiveAmount, getStaffCompensation.      *)
Price(x, base) == IF x \in Percent THEN base * catalog[x].amount ELSE catalog[x].amount

Sources(rows) == {rows[k].src : k \in DOMAIN rows} \cap Source

SumRows(rows) == SumFunction([k \in DOMAIN rows |-> rows[k].amount])

(* sumLineItemTotals, and the same sum in recalculateRecordTotals.         *)
Net(base, rows) == base + SumRows(rows)

NetOf(s) == IF Exists(s) THEN records[s].net ELSE 0
TotalNet == SumFunction([s \in Staff |-> NetOf(s)])
TotalPaid == SumFunction([s \in Staff |-> IF records[s].status = "paid"
                                          THEN NetOf(s) ELSE 0])

(* buildCompensationLineItems: the assigned active components and packages.*)
FreshRows(s) ==
  SetToSeq({Row(x, Price(x, comp[s].base)) : x \in (comp[s].items \cap Active) \ Program})

(* syncDraftRecordFromCompensation and appendPreservedPayrollLineItems: an *)
(* active source that is assigned or has a line, at the line's amount if   *)
(* there is one (the last, should two handlers have left several).  A line *)
(* without a source is not kept.                                           *)
SyncedRows(s) ==
  LET assigned == comp[s].items \ Program
      named == Sources(lines[s])
      Kept(x) == CHOOSE k \in DOMAIN lines[s] :
                   /\ lines[s][k].src = x
                   /\ \A j \in DOMAIN lines[s] : lines[s][j].src = x => j <= k
  IN  SetToSeq({IF x \in named THEN lines[s][Kept(x)] ELSE Row(x, Price(x, comp[s].base))
                  : x \in (assigned \cup named) \cap Active})

Init ==
  /\ catalog \in [Source -> [status : {"absent", "active"}, amount : Amount]]
  /\ comp \in [Staff -> [base : Base, items : {Active}]]
  /\ run = [exists |-> FALSE, net |-> 0, paid |-> 0]
  /\ records = [s \in Staff |-> [status |-> "absent", base |-> 0, net |-> 0]]
  /\ lines = [s \in Staff |-> <<>>]
  /\ jobs = {}
  /\ payslip = [s \in Staff |-> NoPayslip]
  /\ req = [h \in Request |-> Idle]
  /\ edits = 0

-----------------------------------------------------------------------------
(* The catalog and the compensation of staff.  All of it is single         *)
(* statements but the deletions and upsertStaffCompensation.               *)
Edit == edits < MaxEdits /\ edits' = edits + 1

EditCatalog(x, status, amount) ==
  /\ edits < MaxEdits
  /\ catalog' = [catalog EXCEPT ![x] = [status |-> status, amount |-> amount]]
  /\ edits' = IF catalog' = catalog THEN edits ELSE edits + 1
  /\ UNCHANGED <<comp, run, records, lines, output, req>>

(* createPayComponent, createBenefitPackage, createIncentiveProgram.       *)
CreateSource(x) ==
  /\ catalog[x].status = "absent"
  /\ \E a \in Amount : EditCatalog(x, "active", a)

(* updatePayComponent, updateBenefitPackage, updateIncentiveProgram.       *)
UpdateSource(x) ==
  /\ catalog[x].status \in {"active", "archived"}
  /\ \E a \in Amount : EditCatalog(x, catalog[x].status, a)

(* archivePayComponent and its like, whether the source is in use or not.  *)
ArchiveSource(x) ==
  /\ catalog[x].status \in {"active", "archived"}
  /\ EditCatalog(x, "archived", catalog[x].amount)

(* restorePayComponent and its like.                                       *)
RestoreSource(x) ==
  /\ catalog[x].status \in {"active", "archived"}
  /\ EditCatalog(x, "active", catalog[x].amount)

(* deletePayComponent, deleteBenefitPackage, deleteIncentiveProgram: the   *)
(* foreign key of the assignments repeats the test for one, but nothing    *)
(* repeats the test that the source is archived.                           *)
DeleteSourceRead(h, x) ==
  /\ At(h, "idle")
  /\ catalog[x].status = "archived"
  /\ \A s \in Staff : x \notin comp[s].items
  /\ Goto(h, [Idle EXCEPT !.pc = "deleteSource", !.rows = <<Row(x, 0)>>])
  /\ UNCHANGED <<tables, output, edits>>

DeleteSourceWrite(h) ==
  /\ At(h, "deleteSource")
  /\ LET x == req[h].rows[1].src
     IN  catalog' = IF \E s \in Staff : x \in comp[s].items THEN catalog
                    ELSE [catalog EXCEPT ![x].status = "deleted"]
  /\ Goto(h, Idle)
  /\ UNCHANGED <<comp, run, records, lines, output, edits>>

(* enrollStaffBenefit, setIncentiveEligibility.                            *)
EnrollStaff(s, x) ==
  /\ Edit
  /\ x \in Package \cup Program /\ catalog[x].status \in {"active", "archived"}
  /\ comp' = [comp EXCEPT ![s].items = @ \cup {x}]
  /\ UNCHANGED <<catalog, run, records, lines, output, req>>

(* unenrollStaffBenefit, removeIncentiveEligibility.                       *)
UnenrollStaff(s, x) ==
  /\ Edit
  /\ x \in Package \cup Program
  /\ comp' = [comp EXCEPT ![s].items = @ \ {x}]
  /\ UNCHANGED <<catalog, run, records, lines, output, req>>

(* upsertStaffCompensation: the profile is updated and the old assignments *)
(* of a kind are deleted, if the request names any of that kind; the new   *)
(* ones are inserted later.  A request that names components and packages  *)
(* does so for one kind after the other, as two requests would.            *)
CompensateClear(h, s) ==
  /\ At(h, "idle") /\ Edit
  /\ \E base \in Base, kind \in {{}, Package, Source \ (Package \cup Program)} :
       \E items \in SUBSET (Active \cap kind) :
         /\ comp' = [comp EXCEPT ![s] = [base |-> base, items |-> @.items \ kind]]
         /\ Goto(h, [Idle EXCEPT !.pc = "compensate", !.staff = s, !.todo = items])
  /\ UNCHANGED <<catalog, run, records, lines, output>>

CompensateFill(h) ==
  /\ At(h, "compensate")
  /\ comp' = [comp EXCEPT ![req[h].staff].items =
                @ \cup {x \in req[h].todo : catalog[x].status \in {"active", "archived"}}]
  /\ Goto(h, Idle)
  /\ UNCHANGED <<catalog, run, records, lines, output, edits>>

-----------------------------------------------------------------------------
(* createPayrollRun: a unique index on the period makes a race harmless.   *)
CreateRun ==
  /\ ~ run.exists
  /\ run' = [run EXCEPT !.exists = TRUE]
  /\ UNCHANGED <<catalog, comp, records, lines, output, req, edits>>

(* Mutant of AfterRecord: the totals of the run are left as they are.      *)
AfterRecordNoTotals(h) ==
  IF req[h].todo # {}
  THEN [Idle EXCEPT !.pc = "genRecord", !.todo = req[h].todo, !.all = req[h].all]
  ELSE Idle

(* What a handler does once it is done with one record: the next one, or   *)
(* the totals of the run.                                                  *)
AfterRecord(h) ==
  IF req[h].todo # {}
  THEN [Idle EXCEPT !.pc = "genRecord", !.todo = req[h].todo, !.all = req[h].all]
  ELSE [Idle EXCEPT !.pc = "totalsRead", !.all = req[h].all]

(* generatePayrollRun.                                                     *)
Generate(h) ==
  /\ At(h, "idle") /\ run.exists
  /\ Goto(h, [Idle EXCEPT !.pc = "genRecord", !.todo = Staff, !.all = TRUE])
  /\ UNCHANGED <<tables, output, edits>>

(* Mutant of GenRecord: a record that is not a draft ends the loop.        *)
GenRecordStops(h) ==
  /\ At(h, "genRecord")
  /\ \E s \in req[h].todo :
       LET found == [req[h] EXCEPT !.staff = s, !.todo = @ \ {s}]
       IN  CASE records[s].status = "absent" -> Goto(h, [found EXCEPT !.pc = "genRows"])
             [] records[s].status = "draft"  -> Goto(h, [found EXCEPT !.pc = "syncRows"])
             [] OTHER                        -> Goto(h, [Idle EXCEPT !.pc = "totalsRead", !.all = TRUE])
  /\ UNCHANGED <<tables, output, edits>>

GenRecord(h) ==
  /\ At(h, "genRecord")
  /\ \E s \in req[h].todo :
       LET found == [req[h] EXCEPT !.staff = s, !.todo = @ \ {s}]
           rest  == req[h].todo \ {s}
       IN  CASE records[s].status = "absent" -> Goto(h, [found EXCEPT !.pc = "genRows"])
             [] records[s].status = "draft"  -> Goto(h, [found EXCEPT !.pc = "syncRows"])
             [] OTHER -> Goto(h, [Idle EXCEPT !.todo = rest, !.all = req[h].all,
                                        !.pc = IF rest = {} THEN "totalsRead" ELSE "genRecord"])
  /\ UNCHANGED <<tables, output, edits>>

GenRows(h) ==
  /\ At(h, "genRows")
  /\ LET s == req[h].staff
     IN  Goto(h, [req[h] EXCEPT !.pc = "genInsert", !.base = comp[s].base,
                                    !.rows = FreshRows(s)])
  /\ UNCHANGED <<tables, output, edits>>

(* The unique index on run and staff refuses a second record; the handler  *)
(* ends with the error.                                                    *)
GenInsert(h) ==
  /\ At(h, "genInsert")
  /\ LET s == req[h].staff
     IN  IF Exists(s) THEN UNCHANGED records /\ Goto(h, Idle)
         ELSE /\ records' = [records EXCEPT ![s] = [status |-> "draft", base |-> req[h].base,
                               net |-> Net(req[h].base, req[h].rows)]]
              /\ Goto(h, [req[h] EXCEPT !.pc = "linesInsert", !.base = 0])
  /\ UNCHANGED <<catalog, comp, run, lines, output, edits>>

SyncRows(h) ==
  /\ At(h, "syncRows")
  /\ LET s == req[h].staff
     IN  Goto(h, [req[h] EXCEPT !.pc = "linesDelete", !.base = comp[s].base,
                                    !.rows = SyncedRows(s)])
  /\ UNCHANGED <<tables, output, edits>>

(* Mutant of LinesDelete: the old lines stay.                              *)
LinesKeep(h) ==
  /\ At(h, "linesDelete")
  /\ Goto(h, [req[h] EXCEPT !.pc = "recordUpdate"])
  /\ UNCHANGED <<tables, output, edits>>

(* The statements that rebuild a record: of syncDraftRecordFromCompensation*)
(* and of a structured patch alike.                                        *)
LinesDelete(h) ==
  /\ At(h, "linesDelete")
  /\ lines' = [lines EXCEPT ![req[h].staff] = <<>>]
  /\ Goto(h, [req[h] EXCEPT !.pc = "recordUpdate"])
  /\ UNCHANGED <<catalog, comp, run, records, output, edits>>

RecordUpdate(h) ==
  /\ At(h, "recordUpdate")
  /\ records' = [records EXCEPT ![req[h].staff].base = req[h].base,
                   ![req[h].staff].net = Net(req[h].base, req[h].rows)]
  /\ Goto(h, [req[h] EXCEPT !.pc = "linesInsert", !.base = 0])
  /\ UNCHANGED <<catalog, comp, run, lines, output, edits>>

LinesInsert(h) ==
  /\ At(h, "linesInsert")
  /\ lines' = [lines EXCEPT ![req[h].staff] = @ \o req[h].rows]
  /\ Goto(h, AfterRecord(h))
  /\ UNCHANGED <<catalog, comp, run, records, output, edits>>

(* recalculateRunTotals: one select, one update.                           *)
TotalsRead(h) ==
  /\ At(h, "totalsRead")
  /\ Goto(h, [req[h] EXCEPT !.pc = "totalsWrite", !.net = TotalNet, !.paid = TotalPaid])
  /\ UNCHANGED <<tables, output, edits>>

TotalsWrite(h) ==
  /\ At(h, "totalsWrite")
  /\ run' = [run EXCEPT !.net = req[h].net, !.paid = req[h].paid]
  /\ Goto(h, IF req[h].pays THEN [Idle EXCEPT !.pc = "enqueue", !.staff = req[h].staff]
                 ELSE Idle)
  /\ UNCHANGED <<catalog, comp, records, lines, output, edits>>

-----------------------------------------------------------------------------
(* patchPayrollRecord.                                                     *)

(* Mutant of PatchRead: a record that awaits payment may be adjusted.      *)
PatchApprovedToo(h, s) ==
  /\ At(h, "idle")
  /\ records[s].status \in {"draft", "pending"}
  /\ \E pc \in {"patchSelect", "patchLine"} : Goto(h, [Idle EXCEPT !.pc = pc, !.staff = s])
  /\ UNCHANGED <<tables, output, edits>>

PatchRead(h, s) ==
  /\ At(h, "idle")
  /\ records[s].status = "draft"
  /\ \E pc \in {"patchSelect", "patchLine"} : Goto(h, [Idle EXCEPT !.pc = pc, !.staff = s])
  /\ UNCHANGED <<tables, output, edits>>

(* A structured patch names the sources that are on, with an amount or at  *)
(* their price; a package is always at its price.                          *)
PatchSelect(h) ==
  /\ At(h, "patchSelect")
  /\ LET base == comp[req[h].staff].base
     IN  \E on \in SUBSET Active : \E amount \in [on -> Amount] :
           LET Worth(x) == IF x \in Package THEN Price(x, base) ELSE amount[x]
           IN  Goto(h, [req[h] EXCEPT !.pc = "linesDelete", !.base = base,
                              !.rows = SetToSeq({Row(x, Worth(x)) : x \in on})])
  /\ UNCHANGED <<tables, output, edits>>

(* One statement of an unstructured patch: the amount of a line, or a new  *)
(* adjustment.  Any number of them precede RecalcRead.                     *)
PatchLine(h) ==
  /\ At(h, "patchLine")
  /\ LET s == req[h].staff
     IN  \/ \E k \in DOMAIN lines[s], a \in Amount :
              lines' = [lines EXCEPT ![s][k] = Row(lines[s][k].src, a)]
         \/ /\ Len(lines[s]) < MaxLines
            /\ \E m \in Manual, a \in Amount :
                 lines' = [lines EXCEPT ![s] = Append(@, Row(m, a))]
  /\ Goto(h, req[h])
  /\ UNCHANGED <<catalog, comp, run, records, output, edits>>

(* recalculateRecordTotals: the record, its lines, the update.             *)
RecalcRecord(h) ==
  /\ At(h, "patchLine")
  /\ Goto(h, [req[h] EXCEPT !.pc = "recalcLines", !.base = records[req[h].staff].base])
  /\ UNCHANGED <<tables, output, edits>>

RecalcLines(h) ==
  /\ At(h, "recalcLines")
  /\ Goto(h, [req[h] EXCEPT !.pc = "recalcWrite", !.base = 0,
                     !.net = Net(req[h].base, lines[req[h].staff])])
  /\ UNCHANGED <<tables, output, edits>>

RecalcWrite(h) ==
  /\ At(h, "recalcWrite")
  /\ records' = [records EXCEPT ![req[h].staff].net = req[h].net]
  /\ Goto(h, AfterRecord(h))
  /\ UNCHANGED <<catalog, comp, run, lines, output, edits>>


-----------------------------------------------------------------------------
(* Mutant of Approve: the status gets the name the user interface shows.   *)
ApproveAsShown(s) ==
  /\ Exists(s)
  /\ records' = [records EXCEPT ![s].status = "approved"]
  /\ UNCHANGED <<catalog, comp, run, lines, output, req, edits>>

(* approvePayrollRecord: one update, whatever the status; the totals stay. *)
Approve(s) ==
  /\ Exists(s)
  /\ records' = [records EXCEPT ![s].status = "pending"]
  /\ UNCHANGED <<catalog, comp, run, lines, output, req, edits>>

(* Mutant of MarkPaid: no job is queued for a record paid before.          *)
MarkPaidOnce(h, s) ==
  /\ At(h, "idle")
  /\ Exists(s)
  /\ records' = [records EXCEPT ![s].status = "paid"]
  /\ Goto(h, [Idle EXCEPT !.pc = "totalsRead", !.staff = s,
                           !.pays = records[s].status = "pending"])
  /\ UNCHANGED <<catalog, comp, run, lines, output, edits>>

(* markPayrollPaid: the update whatever the status, the totals, the job.   *)
MarkPaid(h, s) ==
  /\ At(h, "idle")
  /\ Exists(s)
  /\ records' = [records EXCEPT ![s].status = "paid"]
  /\ Goto(h, [Idle EXCEPT !.pc = "totalsRead", !.staff = s, !.pays = TRUE])
  /\ UNCHANGED <<catalog, comp, run, lines, output, edits>>

Enqueue(h) ==
  /\ At(h, "enqueue")
  /\ jobs' = jobs \cup {req[h].staff}
  /\ Goto(h, Idle)
  /\ UNCHANGED <<tables, payslip, edits>>

(* enqueuePayslip.                                                         *)
EnqueuePayslip(s) ==
  /\ records[s].status = "paid"
  /\ jobs' = jobs \cup {s}
  /\ UNCHANGED <<tables, payslip, req, edits>>

-----------------------------------------------------------------------------
(* A handler that may still write the lines or the amounts of record s.    *)
Adjusting == {"syncRows", "linesDelete", "recordUpdate", "linesInsert",
              "patchSelect", "patchLine", "recalcLines", "recalcWrite"}

Adjusts(h, s) == req[h].staff = s /\ req[h].pc \in Adjusting

(* Record s has left the draft state and nobody is adjusting it.           *)
Settled(s) ==
  /\ records[s].status \in {"pending", "paid"}
  /\ \A h \in Request : ~ Adjusts(h, s)

(* ensurePayslip and the worker's handler alike: read the record, read its *)
(* lines, store the object.  The row remembers if the record was settled.  *)
RenderRead(h, s) ==
  Goto(h, [Idle EXCEPT !.pc = "renderLines", !.staff = s, !.base = records[s].base,
                        !.net = records[s].net, !.settled = Settled(s)])

(* A job runs at least once, whatever the status of the record.            *)
JobStart(h, s) ==
  /\ At(h, "idle") /\ s \in jobs
  /\ RenderRead(h, s)
  /\ UNCHANGED <<tables, output, edits>>

(* downloadPayslip: an object that is there is not rendered again.         *)
Download(h, s) ==
  /\ At(h, "idle")
  /\ records[s].status = "paid" /\ ~ payslip[s].rendered
  /\ RenderRead(h, s)
  /\ UNCHANGED <<tables, output, edits>>

RenderLines(h) ==
  /\ At(h, "renderLines")
  /\ Goto(h, [req[h] EXCEPT !.pc = "renderPut", !.rows = lines[req[h].staff]])
  /\ UNCHANGED <<tables, output, edits>>

(* A job that has finished is gone, unless it was queued again or is       *)
(* delivered twice.                                                        *)
RenderPut(h) ==
  /\ At(h, "renderPut")
  /\ LET s == req[h].staff
     IN  /\ payslip' = [payslip EXCEPT ![s] = [rendered |-> TRUE, base |-> req[h].base,
                          net |-> req[h].net, rows |-> req[h].rows,
                          settled |-> req[h].settled]]
         /\ jobs' \in {jobs, jobs \ {s}}
  /\ Goto(h, Idle)
  /\ UNCHANGED <<tables, edits>>

-----------------------------------------------------------------------------
(* A request its handler refuses: no record that may be adjusted, none     *)
(* that is paid, no source that may be deleted.                            *)
Refuse(h) ==
  /\ At(h, "idle")
  /\ \/ \E s \in Staff : records[s].status # "draft"
     \/ \E x \in Source : catalog[x].status # "archived"
  /\ UNCHANGED vars

(* A handler or job ends after any of its statements.                      *)
Fail(h) ==
  /\ ~ At(h, "idle")
  /\ Goto(h, Idle)
  /\ UNCHANGED <<tables, output, edits>>

EditPay ==
  \/ \E x \in Source : \/ CreateSource(x) \/ UpdateSource(x)
                       \/ ArchiveSource(x) \/ RestoreSource(x)
                       \/ \E s \in Staff : EnrollStaff(s, x) \/ UnenrollStaff(s, x)

StartRequest(h) ==
  \/ Generate(h)
  \/ \E x \in Source : DeleteSourceRead(h, x)
  \/ \E s \in Staff : \/ CompensateClear(h, s) \/ PatchRead(h, s)
                      \/ MarkPaid(h, s) \/ JobStart(h, s) \/ Download(h, s)

(* The next statement of a handler in flight.                              *)
Resume(h) ==
  \/ DeleteSourceWrite(h) \/ CompensateFill(h)
  \/ GenRecord(h) \/ GenRows(h) \/ GenInsert(h) \/ SyncRows(h)
  \/ LinesDelete(h) \/ RecordUpdate(h) \/ LinesInsert(h)
  \/ PatchSelect(h) \/ PatchLine(h)
  \/ RecalcRecord(h) \/ RecalcLines(h) \/ RecalcWrite(h)
  \/ TotalsRead(h) \/ TotalsWrite(h) \/ Enqueue(h)
  \/ RenderLines(h) \/ RenderPut(h)

Serve ==
  \/ CreateRun
  \/ EditPay
  \/ \E s \in Staff : Approve(s) \/ EnqueuePayslip(s)
  \/ \E h \in Request : StartRequest(h) \/ Refuse(h)
  \/ \E h \in Request : Resume(h)

Next == Serve \/ \E h \in Request : Fail(h)

Spec == Init /\ [][Next]_vars

(* No handler stops half way.                                              *)
ServedSpec == Init /\ [][Serve]_vars

(* The event loop resumes a handler once the database has answered, and    *)
(* the worker takes its jobs in their order, so that none is passed over   *)
(* for ever.  Nobody has to make a request, and nothing crashes.           *)
FairSpec ==
  /\ ServedSpec
  /\ \A h \in Request : WF_vars(Resume(h))
  /\ \A s \in Staff : SF_vars(\E h \in Request : JobStart(h, s))

-----------------------------------------------------------------------------
RowType == [src : Source \cup Manual, amount : Int]

PC == {"idle", "deleteSource", "compensate", "genRecord", "genRows", "genInsert",
       "totalsRead", "totalsWrite", "enqueue", "renderLines", "renderPut"} \cup Adjusting

LocalType ==
  [pc : PC, staff : Staff \cup {NoStaff}, todo : SUBSET (Staff \cup Source), base : Nat,
   rows : Seq(RowType), net : Int, paid : Int, pays : BOOLEAN, all : BOOLEAN, settled : BOOLEAN]

(* Types, as the columns of payroll_records and its neighbours have them.  *)
TypeOK ==
  /\ catalog \in [Source -> [status : {"absent", "active", "archived", "deleted"},
                             amount : Amount]]
  /\ comp \in [Staff -> [base : Base, items : SUBSET Source]]
  /\ run \in [exists : BOOLEAN, net : Int, paid : Int]
  /\ records \in [Staff -> [status : {"absent", "draft", "pending", "paid"},
                            base : Nat, net : Int]]
  /\ lines \in [Staff -> Seq(RowType)]
  /\ jobs \subseteq Staff
  /\ payslip \in [Staff -> [rendered : BOOLEAN, base : Nat, net : Int,
                            rows : Seq(RowType), settled : BOOLEAN]]
  /\ req \in [Request -> LocalType]
  /\ edits \in Nat

(* "Approved or paid records cannot be adjusted": once a record has left   *)
(* the draft state and no adjustment that began before is under way, it    *)
(* stays so and neither its amounts nor its lines change, however          *)
(* generations, patches and approvals interleave.                          *)
SettledIsFinal ==
  [][\A s \in Staff : Settled(s) =>
       /\ Settled(s)'
       /\ lines'[s] = lines[s]
       /\ records'[s].base = records[s].base /\ records'[s].net = records[s].net]_vars

(* A payslip whose rendering began when its record was settled shows the   *)
(* amounts and the lines of the record, though they were read by two       *)
(* statements and perhaps rendered twice.                                  *)
PayslipIsFaithful ==
  \A s \in Staff : payslip[s].settled =>
    /\ payslip[s].base = records[s].base /\ payslip[s].net = records[s].net
    /\ payslip[s].rows = lines[s]

(* The net amount of a record is its base plus its lines whenever handlers *)
(* have been served one at a time and to their end.                        *)
NetIsSumOfLines ==
  Quiet =>
    \A s \in Staff : Exists(s) => records[s].net = Net(records[s].base, lines[s])

(* So is the stored total of the run the sum of its records.               *)
TotalIsSumOfRecords == Quiet => run.net = TotalNet

(* A generation that comes to the totals, and so to its answer, leaves a   *)
(* record for every member of staff, though records of an earlier attempt  *)
(* were found, or approved and paid meanwhile.                             *)
GenerationCovers ==
  \A h \in Request : At(h, "totalsRead") /\ req[h].all => \A s \in Staff : Exists(s)

(* Whoever is marked as paid gets a payslip, whatever happens meanwhile.   *)
PaidGetsPayslip ==
  \A s \in Staff : records[s].status = "paid" ~> payslip[s].rendered

(* The records of the run as PayRecord has them: a record is settled once  *)
(* Settled, and of the payslips those of settled records count.            *)
Phase(s) == CASE ~ Exists(s) -> "absent" [] Settled(s) -> "settled" [] OTHER -> "open"

Says(base, net, rows) == [base |-> base, net |-> net, rows |-> rows]

phases == [s \in Staff |-> Phase(s)]

contents == [s \in Staff |-> Says(records[s].base, records[s].net, lines[s])]

slips == [s \in Staff |-> IF payslip[s].settled
                         THEN Says(payslip[s].base, payslip[s].net, payslip[s].rows)
                         ELSE Says(0, 0, <<>>)]

Record == INSTANCE PayRecord WITH
  Content <- [base : Nat, net : Int, rows : Seq(RowType)], Blank <- Says(0, 0, <<>>),
  phase <- phases, content <- contents, slip <- slips

(* Statement by statement and with handlers that fail, payroll implements  *)
(* the promise: only an open record is adjusted, a settled one is neither  *)
(* reopened nor changed, and its payslip is made of what it says.          *)
ImplementsPayRecord == Record!Spec
=============================================================================
