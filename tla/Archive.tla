------------------------------ MODULE Archive -------------------------------
(***************************************************************************)
(* The archive of students and staff (students.service.ts, hr.service.ts)  *)
(* and its retention purge (archive/, run by the worker every night or on  *)
(* demand), over the leave records of Leaves.                              *)
(*                                                                         *)
(* Of the records that refer to a person, "history" are those whose count  *)
(* refuses a deletion (invoices, enrollments, marks; teaching, timetable,  *)
(* pay), "owned" those a deletion takes along (guardians, documents,       *)
(* services; compensation).  The leave rows of the staff are neither: only *)
(* their foreign keys stop a deletion.  So do attendance sessions, lesson  *)
(* materials, assignments and enquiries of a member, which are left out.   *)
(* The deletion of a person is one transaction and one step.               *)
(***************************************************************************)
EXTENDS Leaves

CONSTANTS
  Student,        \* student rows
  Tenant,         \* tenants with a retention window
  TenantOf,       \* TenantOf[p]: the tenant of person p
  Desk,           \* archive handlers that may be in flight at once
  Nightly, Manual,   \* purge runs that may overlap: the worker's, purgeNow's
  MaxEdits        \* BOUND: records added by other components, and runs that fail

Person == Student \cup Staff
Job == Nightly \cup Manual

ASSUME ArchiveAssumption ==
  /\ Student \cap Staff = {} /\ None \notin Person
  /\ TenantOf \in [Person -> Tenant]
  /\ Nightly \cap Manual = {}
  /\ MaxEdits \in Nat

VARIABLES
  archived,   \* archived[p]: "no", "recent", or "due" after the retention window
  file,       \* file[p]: the kinds of records that refer to p, but for leaves
  desk,       \* desk[h]: where archive handler h is
  job,        \* job[j]: where purge run j is
  edits       \* BOUND: records added and runs failed so far

files == <<people, archived, file>>
vars == <<files, leaveVars, req, desk, job, edits>>

NoCall == [pc |-> "idle", who |-> None]
NoRun == [pc |-> "idle", tenants |-> {}, tenant |-> None, todo |-> {}, who |-> None]

Init ==
  /\ InitLeaves
  /\ people = Person
  /\ archived = [p \in Person |-> "no"]
  /\ file = [p \in Person |-> {}]
  /\ desk = [h \in Desk |-> NoCall]
  /\ job = [j \in Job |-> NoRun]
  /\ edits = 0

Due(p) == p \in people /\ archived[p] = "due"
Blocked(p) == "history" \in file[p]
Referenced(p) == Blocked(p) \/ (p \in Staff /\ HasLeaveRows(p))

-----------------------------------------------------------------------------
(* What other components and time do.                                      *)

AddRecord(p, kind) ==
  /\ edits < MaxEdits /\ edits' = edits + 1
  /\ p \in people /\ file' = [file EXCEPT ![p] = @ \cup {kind}]
  /\ UNCHANGED <<people, archived, leaveVars, req, desk, job>>

DropRecord(p, kind) ==
  /\ kind \in file[p] /\ file' = [file EXCEPT ![p] = @ \ {kind}]
  /\ UNCHANGED <<people, archived, leaveVars, req, desk, job, edits>>

Age(p) ==
  /\ archived[p] = "recent"
  /\ archived' = [archived EXCEPT ![p] = "due"]
  /\ UNCHANGED <<people, file, leaveVars, req, desk, job, edits>>

(* Mutant of Erase: the rows that refer to the person go along.            *)
EraseAll(p) ==
  /\ people' = people \ {p}
  /\ archived' = [archived EXCEPT ![p] = "no"]
  /\ file' = [file EXCEPT ![p] = {}]

(* The transaction of a deletion: what the person owns, then the row,      *)
(* unless a foreign key refuses and it is rolled back.                     *)
Erase(p) ==
  IF Referenced(p) THEN UNCHANGED files
  ELSE /\ people' = people \ {p}
       /\ archived' = [archived EXCEPT ![p] = "no"]
       /\ file' = [file EXCEPT ![p] = {}]

-----------------------------------------------------------------------------
(* Archive, restore, delete.                                               *)

At2(h, pc) == desk[h].pc = pc
Call(h, pc, p) == desk' = [desk EXCEPT ![h] = [pc |-> pc, who |-> p]]
Return(h) == desk' = [desk EXCEPT ![h] = NoCall]

ArchiveRead(h, p) ==
  /\ At2(h, "idle")
  /\ p \in people /\ archived[p] = "no"
  /\ Call(h, "archiveWrite", p)
  /\ UNCHANGED <<files, leaveVars, req, job, edits>>

ArchiveWrite(h) ==
  /\ At2(h, "archiveWrite")
  /\ archived' = [archived EXCEPT ![desk[h].who] = IF desk[h].who \in people THEN "recent" ELSE @]
  /\ Return(h)
  /\ UNCHANGED <<people, file, leaveVars, req, job, edits>>

RestoreRead(h, p) ==
  /\ At2(h, "idle")
  /\ p \in people /\ archived[p] # "no"
  /\ Call(h, "restoreWrite", p)
  /\ UNCHANGED <<files, leaveVars, req, job, edits>>

RestoreWrite(h) ==
  /\ At2(h, "restoreWrite")
  /\ archived' = [archived EXCEPT ![desk[h].who] = "no"]
  /\ Return(h)
  /\ UNCHANGED <<people, file, leaveVars, req, job, edits>>

(* permanentlyDelete, permanentlyDeleteStaff: only the archived.           *)
DeleteRead(h, p) ==
  /\ At2(h, "idle")
  /\ p \in people /\ archived[p] # "no"
  /\ Call(h, "deleteCount", p)
  /\ UNCHANGED <<files, leaveVars, req, job, edits>>

DeleteCount(h) ==
  /\ At2(h, "deleteCount")
  /\ IF Blocked(desk[h].who) THEN Return(h) ELSE Call(h, "deleteCommit", desk[h].who)
  /\ UNCHANGED <<files, leaveVars, req, job, edits>>

DeleteCommit(h) ==
  /\ At2(h, "deleteCommit")
  /\ Erase(desk[h].who)
  /\ Return(h)
  /\ UNCHANGED <<leaveVars, req, job, edits>>

ServeDesk(h) ==
  \/ \E p \in Person : ArchiveRead(h, p) \/ RestoreRead(h, p) \/ DeleteRead(h, p)
  \/ ArchiveWrite(h) \/ RestoreWrite(h) \/ DeleteCount(h) \/ DeleteCommit(h)
-----------------------------------------------------------------------------
(* The purge: for every tenant its students, then its staff, one by one.   *)

Selected(persons, t) == {p \in persons : Due(p) /\ TenantOf[p] = t}

(* The nightly run takes all tenants, purgeNow takes one.                  *)
RunStart(j) ==
  /\ job[j].pc = "idle"
  /\ \E t \in Tenant : job' = [job EXCEPT ![j] =
       [NoRun EXCEPT !.pc = "tenant", !.tenants = IF j \in Nightly THEN Tenant ELSE {t}]]
  /\ UNCHANGED <<files, leaveVars, req, desk, edits>>

RunTenant(j) ==
  /\ job[j].pc = "tenant"
  /\ IF job[j].tenants = {} THEN job' = [job EXCEPT ![j] = NoRun]
     ELSE \E t \in job[j].tenants :
            job' = [job EXCEPT ![j] =
              [NoRun EXCEPT !.pc = "students", !.tenants = job[j].tenants \ {t},
                            !.tenant = t, !.todo = Selected(Student, t)]]
  /\ UNCHANGED <<files, leaveVars, req, desk, edits>>

RunStaff(j) ==
  /\ job[j].pc = "students" /\ job[j].todo = {} /\ job[j].who = None
  /\ job' = [job EXCEPT ![j].pc = "staff", ![j].todo = Selected(Staff, job[j].tenant)]
  /\ UNCHANGED <<files, leaveVars, req, desk, edits>>

RunNext(j) ==
  /\ job[j].pc = "staff" /\ job[j].todo = {} /\ job[j].who = None
  /\ job' = [job EXCEPT ![j].pc = "tenant"]
  /\ UNCHANGED <<files, leaveVars, req, desk, edits>>

(* Mutant of RunCount: the first person that is kept ends the run.         *)
RunCountOnce(j) ==
  /\ job[j].pc \in {"students", "staff"} /\ job[j].who = None
  /\ \E p \in job[j].todo :
       job' = [job EXCEPT ![j] = IF Blocked(p) THEN NoRun
                                 ELSE [@ EXCEPT !.todo = @ \ {p}, !.who = p]]
  /\ UNCHANGED <<files, leaveVars, req, desk, edits>>

(* A person with history is skipped.                                       *)
RunCount(j) ==
  /\ job[j].pc \in {"students", "staff"} /\ job[j].who = None
  /\ \E p \in job[j].todo :
       job' = [job EXCEPT ![j].todo = @ \ {p}, ![j].who = IF Blocked(p) THEN None ELSE p]
  /\ UNCHANGED <<files, leaveVars, req, desk, edits>>

(* A deletion that fails ends the run, with the tenants still to come.     *)
RunDelete(j) ==
  /\ job[j].who # None
  /\ Erase(job[j].who)
  /\ job' = [job EXCEPT ![j] = IF Referenced(job[j].who) THEN NoRun ELSE [@ EXCEPT !.who = None]]
  /\ UNCHANGED <<leaveVars, req, desk, edits>>

Run(j) == RunTenant(j) \/ RunStaff(j) \/ RunNext(j) \/ RunCount(j) \/ RunDelete(j)

(* A statement fails, or the process ends.                                 *)
RunFail(j) ==
  /\ job[j].pc # "idle"
  /\ edits < MaxEdits /\ edits' = edits + 1
  /\ job' = [job EXCEPT ![j] = NoRun]
  /\ UNCHANGED <<files, leaveVars, req, desk>>

LeavesFail(h) ==
  /\ ~ At(h, "idle") /\ Goto(h, Idle)
  /\ UNCHANGED <<files, leaveVars, desk, job, edits>>

Next ==
  \/ NextLeaves /\ UNCHANGED <<files, desk, job, edits>>
  \/ \E p \in Person : Age(p)
  \/ \E p \in Person, kind \in {"history", "owned"} : AddRecord(p, kind) \/ DropRecord(p, kind)
  \/ \E h \in Desk : ServeDesk(h)
  \/ \E j \in Job : RunStart(j) \/ Run(j) \/ RunFail(j)
  \/ \E h \in Request : LeavesFail(h)

Spec == Init /\ [][Next]_vars

(* The nightly job comes every night and goes on unless it fails, which it *)
(* does so often only.  Requests are up to their users.                    *)
FairSpec ==
  /\ Spec
  /\ \A j \in Nightly : WF_vars(RunStart(j)) /\ WF_vars(Run(j))

-----------------------------------------------------------------------------
(* Properties.                                                             *)

(* Every row is well formed, and a run has only people of the tenant it is *)
(* at on its list.                                                         *)
TypeOK ==
  /\ people \subseteq Person
  /\ archived \in [Person -> {"no", "recent", "due"}]
  /\ file \in [Person -> SUBSET {"history", "owned"}]
  /\ types \in [LeaveType -> [status : {"absent", "active", "archived", "deleted"},
                              quota : Quotas \cup {0}]]
  /\ balances \in [Staff -> [LeaveType -> Quotas \cup {None}]]
  /\ leaves \in [Staff -> [LeaveType -> [Days -> Nat]]]
  /\ \A j \in Job : \A p \in job[j].todo \cup ({job[j].who} \ {None}) :
       TenantOf[p] = job[j].tenant

(* permanentlyDelete and the purge count a person's history in statements  *)
(* before the one that deletes, and do not count leaves at all; the        *)
(* handlers of leaves look for the person in statements before the one     *)
(* that inserts.  Whatever comes in between, no row is left that refers to *)
(* somebody who is gone, of history, of what a person owns or of leaves.   *)
NobodyGoneIsOnFile == \A p \in Person \ people : file[p] = {} /\ ~ Referenced(p)

(* deleteLeaveType counts leaves first and deletes last: a type that any   *)
(* leave or allocation still refers to is not deleted.                     *)
UsedTypeIsKept == \A t \in LeaveType : types[t].status = "deleted" => ~ TypeInUse(t)

(* createLeaveRecord compares with what is left in one statement and       *)
(* inserts in another.  Each further request can overdraw the allocation   *)
(* by its own days at most, whatever the order of the statements.          *)
OverdraftIsBounded ==
  \A m \in Staff, t \in LeaveType :
    Used(m, t) <= Max(Quotas) + (Cardinality(Request) - 1) * Max(Days)

(* A run is about to delete somebody whom a record refers to that it did   *)
(* not count, or that has come since: it ends there.                       *)
Stopped == \E j \in Job : job[j].who # None /\ Referenced(job[j].who)

(* "Safe to run repeatedly": unless runs end like this again and again, a  *)
(* person whose retention has run out and who has no history is purged or  *)
(* restored, no matter whom else they skip and who is restored meanwhile.  *)
DueIsPurged ==
  \A p \in Person : []<>(~ Due(p) \/ Blocked(p) \/ Stopped)
=============================================================================
