----------------------------- MODULE Placement -----------------------------
(***************************************************************************)
(* Students, from an enquiry to a place in a classroom: admissions.service *)
(* .ts, students.service.ts and the placement side of the enrollment       *)
(* services.                                                               *)
(*                                                                         *)
(* A handler checks by one statement and writes by a later one.  The       *)
(* writes of a database transaction are one step.  What an enrollment      *)
(* bills is in EnrollmentBilling: here it is invoiced or not.  There is    *)
(* one academic year, and every classroom is of the grade asked for.       *)
(* Guardians and documents are left out; archive and deletion are in       *)
(* Archive.                                                                *)
(***************************************************************************)
EXTENDS Integers, FiniteSets, Functions

CONSTANTS
  Student, Enrollment,   \* rows that may be inserted
  Classroom, Enquiry,
  None,                  \* null
  Statuses,              \* statuses updateEnrollment is asked for
  Older,                 \* the endpoints of students/:id that are used, among
                         \* enroll, transfer, withdraw and update
  Request,               \* handlers that may be in flight at once
  MaxOpen,               \* BOUND: open rows of a student in one classroom
  MaxEdits               \* BOUND: changes made outside the ceremony

ASSUME RowAssumption ==
  /\ None \notin Student \cup Enrollment \cup Classroom \cup Enquiry
  /\ IsFiniteSet(Student) /\ IsFiniteSet(Classroom) /\ MaxOpen \in Nat /\ MaxEdits \in Nat

ASSUME UpdateAssumption == Statuses \subseteq {"draft", "published", "rejected"}

VARIABLES
  students,      \* students[s]: the status of s, or absent
  enrollments,   \* enrollments[e]: the row e, and whether startEnrollment made it
  places,        \* places[s][c]: open rows of s in classroom c
  rooms,         \* the active classrooms
  enquiries,     \* enquiries[q]: the status of q, or absent
  req,           \* req[h]: where handler h is and what it has read
  edits,         \* BOUND: such changes made so far
  touched        \* auxiliary: students an endpoint in Older has changed

tables == <<students, enrollments, places, rooms, enquiries>>
vars == <<tables, req, edits, touched>>

Idle == [pc |-> "idle", st |-> None, enr |-> None, room |-> None, enq |-> None,
         status |-> None, moves |-> FALSE, offer |-> FALSE, start |-> FALSE]

Edit == edits < MaxEdits /\ edits' = edits + 1

At(h, pc) == req[h].pc = pc
Goto(h, locals) == req' = [req EXCEPT ![h] = locals]

NoRow == [status |-> "absent", st |-> None, room |-> None, enq |-> None,
          started |-> FALSE, invoiced |-> FALSE, cancelled |-> FALSE]

Registered(s) == students[s] # "absent"
Live(e) == enrollments[e].status # "absent"

(* assertClassroomPlacement, for a classroom that is optional.             *)
Fits(c) == c = None \/ c \in rooms

(* assertNoDuplicateEnrollment: with a classroom, one of that classroom.   *)
Duplicate(s, c, except) ==
  \E e \in Enrollment \ {except} :
    /\ Live(e) /\ enrollments[e].st = s /\ ~ enrollments[e].cancelled
    /\ enrollments[e].status # "rejected"
    /\ c # None => enrollments[e].room = c

Close(open, c) == [open EXCEPT ![c] = 0]
Closed == [c \in Classroom |-> 0]

(* Mutant of Synced: the classrooms a student leaves stay open.            *)
SyncedOpen(s, c) == [places EXCEPT ![s][c] = IF @ = 0 THEN 1 ELSE @]

(* syncClassroomPlacementTx: every other place is closed; one is opened    *)
(* unless the student is there already.                                    *)
Synced(s, c) ==
  [places EXCEPT ![s] = [Closed EXCEPT ![c] = IF places[s][c] = 0 THEN 1 ELSE places[s][c]]]

Place(s, c) ==
  IF c = None THEN UNCHANGED <<places, students>>
  ELSE /\ places' = Synced(s, c)
       /\ students' = [students EXCEPT ![s] = "enrolled"]

Init ==
  /\ students = [s \in Student |-> "absent"]
  /\ enrollments = [e \in Enrollment |-> NoRow]
  /\ places = [s \in Student |-> Closed]
  /\ rooms = Classroom
  /\ enquiries = [q \in Enquiry |-> "absent"]
  /\ req = [h \in Request |-> Idle]
  /\ edits = 0
  /\ touched = {}

-----------------------------------------------------------------------------
(* Registration and enrollment.                                            *)

(* create, registerStudent: a transaction under an advisory lock.          *)
Registration(s) ==
  /\ students[s] = "absent"
  /\ students' = [students EXCEPT ![s] = "draft"]

Register(s) ==
  /\ Registration(s)
  /\ UNCHANGED <<enrollments, places, rooms, enquiries, req, edits, touched>>

CreateEnquiry(q) ==
  /\ enquiries[q] = "absent"
  /\ enquiries' = [enquiries EXCEPT ![q] = "new"]
  /\ UNCHANGED <<students, enrollments, places, rooms, req, edits, touched>>

UpdateEnquiry(q) ==
  /\ Edit
  /\ enquiries[q] # "absent"
  /\ \E status \in {"new", "lost"} : enquiries' = [enquiries EXCEPT ![q] = status]
  /\ UNCHANGED <<students, enrollments, places, rooms, req, touched>>

(* Mutant of StartRead: a draft begun before is not looked for.            *)
StartReadConfirmed(h, q) ==
  /\ At(h, "idle")
  /\ enquiries[q] \notin {"absent", "lost", "enrolled"}
  /\ \A e \in Enrollment : enrollments[e].enq = q => ~ enrollments[e].invoiced
  /\ \E c \in Classroom \cup {None} :
       /\ Fits(c)
       /\ Goto(h, [Idle EXCEPT !.pc = "startStudent", !.enq = q, !.room = c,
                               !.start = TRUE, !.offer = enquiries[q] # "offered"])
  /\ UNCHANGED <<tables, edits, touched>>

(* startEnrollment: an enquiry that has an enrollment, confirmed or not,   *)
(* gets no other.                                                          *)
StartRead(h, q) ==
  /\ At(h, "idle")
  /\ enquiries[q] \notin {"absent", "lost", "enrolled"}
  /\ \A e \in Enrollment : enrollments[e].enq # q
  /\ \E c \in Classroom \cup {None} :
       /\ Fits(c)
       /\ Goto(h, [Idle EXCEPT !.pc = "startStudent", !.enq = q, !.room = c,
                               !.start = TRUE, !.offer = enquiries[q] # "offered"])
  /\ UNCHANGED <<tables, edits, touched>>

(* Its student is committed before there is an enrollment.                 *)
StartStudent(h) ==
  /\ At(h, "startStudent")
  /\ \E s \in Student :
       /\ Registration(s)
       /\ Goto(h, [req[h] EXCEPT !.pc = "enrollCheck", !.st = s])
  /\ UNCHANGED <<enrollments, places, rooms, enquiries, edits, touched>>

(* createEnrollment called by startEnrollment: its checks.                 *)
EnrollCheck(h) ==
  /\ At(h, "enrollCheck")
  /\ LET ok == Fits(req[h].room) /\ ~ Duplicate(req[h].st, req[h].room, None)
     IN  Goto(h, IF ok THEN [req[h] EXCEPT !.pc = "enrollInsert"] ELSE Idle)
  /\ UNCHANGED <<tables, edits, touched>>

(* createEnrollment: its checks.  The request may name an enquiry, though  *)
(* that of the web client does not, and nobody looks whether another       *)
(* enrollment names it; the foreign key wants it to be there.              *)
EnrollRead(h, s, c, q) ==
  /\ IF q = None THEN UNCHANGED edits ELSE Edit /\ enquiries[q] # "absent"
  /\ At(h, "idle")
  /\ Registered(s) /\ Fits(c) /\ ~ Duplicate(s, c, None)
  /\ Goto(h, [Idle EXCEPT !.pc = "enrollInsert", !.st = s, !.room = c, !.enq = q])
  /\ UNCHANGED <<tables, touched>>

EnrollInsert(h) ==
  /\ At(h, "enrollInsert")
  /\ IF Registered(req[h].st)
     THEN \E e \in Enrollment :
            /\ enrollments[e] = NoRow
            /\ enrollments' = [enrollments EXCEPT ![e] =
                 [NoRow EXCEPT !.status = "draft", !.st = req[h].st,
                               !.room = req[h].room, !.enq = req[h].enq,
                               !.started = req[h].start]]
            /\ Goto(h, IF req[h].offer THEN [Idle EXCEPT !.pc = "startOffer", !.enq = req[h].enq]
                       ELSE Idle)
     ELSE UNCHANGED enrollments /\ Goto(h, Idle)
  /\ UNCHANGED <<students, places, rooms, enquiries, edits, touched>>

StartOffer(h) ==
  /\ At(h, "startOffer")
  /\ enquiries' = [enquiries EXCEPT ![req[h].enq] = "offered"]
  /\ Goto(h, Idle)
  /\ UNCHANGED <<students, enrollments, places, rooms, edits, touched>>

(* updateEnrollment: no status "approved", nothing that is invoiced.  A    *)
(* request that moves the enrollment is checked against the others; one    *)
(* that names a status alone is not, though it may revive a rejected row.  *)
UpdateRead(h, e, status) ==
  /\ At(h, "idle")
  /\ Live(e) /\ ~ enrollments[e].invoiced
  /\ \E c \in Classroom \cup {None}, moves \in BOOLEAN :
       /\ Fits(c)
       /\ IF moves THEN ~ Duplicate(enrollments[e].st, c, e) ELSE c = enrollments[e].room
       /\ Goto(h, [Idle EXCEPT !.pc = "updateWrite", !.enr = e, !.status = status,
                               !.moves = moves, !.room = IF moves THEN c ELSE None])
  /\ UNCHANGED <<tables, edits, touched>>

UpdateWrite(h) ==
  /\ At(h, "updateWrite")
  /\ LET e == req[h].enr
     IN  enrollments' = IF Live(e)
                        THEN [enrollments EXCEPT
                                ![e].status = IF req[h].status = None THEN @ ELSE req[h].status,
                                ![e].room = IF req[h].moves THEN req[h].room ELSE @]
                        ELSE enrollments
  /\ Goto(h, Idle)
  /\ UNCHANGED <<students, places, rooms, enquiries, edits, touched>>

(* deleteEnrollment; an invoice of it would refuse the second statement.   *)
DeleteRead(h, e) ==
  /\ At(h, "idle")
  /\ enrollments[e].status = "draft" /\ ~ enrollments[e].invoiced
  /\ Goto(h, [Idle EXCEPT !.pc = "deleteWrite", !.enr = e])
  /\ UNCHANGED <<tables, edits, touched>>

DeleteWrite(h) ==
  /\ At(h, "deleteWrite")
  /\ LET e == req[h].enr
     IN  enrollments' = IF enrollments[e].invoiced THEN enrollments
                        ELSE [enrollments EXCEPT ![e] = NoRow]
  /\ Goto(h, Idle)
  /\ UNCHANGED <<students, places, rooms, enquiries, edits, touched>>

-----------------------------------------------------------------------------
(* The ceremony and the classroom.                                         *)

(* confirm: what precedes its transaction.  A cancelled row passes.        *)
ConfirmRead(h, e) ==
  /\ At(h, "idle")
  /\ Live(e) /\ ~ enrollments[e].invoiced /\ Fits(enrollments[e].room)
  /\ Goto(h, [Idle EXCEPT !.pc = "confirmCommit", !.enr = e, !.st = enrollments[e].st,
                          !.room = enrollments[e].room, !.enq = enrollments[e].enq])
  /\ UNCHANGED <<tables, edits, touched>>

(* Its transaction: the invoice names the enrollment, which must be there. *)
ConfirmCommit(h) ==
  /\ At(h, "confirmCommit")
  /\ LET e == req[h].enr
     IN  IF Live(e)
         THEN /\ Place(req[h].st, req[h].room)
              /\ enrollments' = [enrollments EXCEPT ![e].status = "approved",
                                                    ![e].invoiced = TRUE]
              /\ enquiries' = [q \in Enquiry |-> IF q = req[h].enq THEN "enrolled"
                                                 ELSE enquiries[q]]
         ELSE UNCHANGED <<places, students, enrollments, enquiries>>
  /\ Goto(h, Idle)
  /\ UNCHANGED <<rooms, edits, touched>>

AssignRead(h, e, c) ==
  /\ At(h, "idle")
  /\ Live(e) /\ ~ enrollments[e].cancelled
  /\ c \in rooms /\ enrollments[e].room # c
  /\ Goto(h, [Idle EXCEPT !.pc = "assignCommit", !.enr = e, !.room = c])
  /\ UNCHANGED <<tables, edits, touched>>

(* assignClassroom: its transaction, by the status it finds then.          *)
AssignCommit(h) ==
  /\ At(h, "assignCommit")
  /\ LET e == req[h].enr
     IN  /\ IF Live(e) /\ enrollments[e].status = "approved"
            THEN Place(enrollments[e].st, req[h].room)
            ELSE UNCHANGED <<places, students>>
         /\ enrollments' = IF Live(e) THEN [enrollments EXCEPT ![e].room = req[h].room]
                           ELSE enrollments
  /\ Goto(h, Idle)
  /\ UNCHANGED <<rooms, enquiries, edits, touched>>

UnassignRead(h, e) ==
  /\ At(h, "idle")
  /\ Live(e) /\ enrollments[e].room # None
  /\ Goto(h, [Idle EXCEPT !.pc = "unassignCommit", !.enr = e, !.st = enrollments[e].st,
                          !.room = enrollments[e].room])
  /\ UNCHANGED <<tables, edits, touched>>

(* Mutant of UnassignCommit: the place in the classroom stays open.        *)
UnassignRowOnly(h) ==
  /\ At(h, "unassignCommit")
  /\ LET e == req[h].enr
     IN  enrollments' = IF Live(e) THEN [enrollments EXCEPT ![e].room = None] ELSE enrollments
  /\ Goto(h, Idle)
  /\ UNCHANGED <<students, places, rooms, enquiries, edits, touched>>

(* unassignClassroom: its transaction, by what was read before it.         *)
UnassignCommit(h) ==
  /\ At(h, "unassignCommit")
  /\ LET e == req[h].enr
     IN  /\ enrollments' = IF Live(e) THEN [enrollments EXCEPT ![e].room = None]
                           ELSE enrollments
         /\ places' = [places EXCEPT ![req[h].st] = Close(@, req[h].room)]
  /\ Goto(h, Idle)
  /\ UNCHANGED <<students, rooms, enquiries, edits, touched>>

(* Another enrollment that keeps the student enrolled.                     *)
KeptBy(e) ==
  \E d \in Enrollment \ {e} :
    /\ enrollments[d].st = enrollments[e].st /\ ~ enrollments[d].cancelled
    /\ enrollments[d].status \in {"approved", "published"}

(* Mutant of Cancel: the student becomes a draft whatever else there is.   *)
CancelAlways(e) ==
  /\ Live(e) /\ ~ enrollments[e].cancelled
  /\ LET s == enrollments[e].st
         c == enrollments[e].room
     IN  /\ places' = IF c = None THEN places ELSE [places EXCEPT ![s] = Close(@, c)]
         /\ students' = [students EXCEPT ![s] = "draft"]
  /\ enrollments' = [enrollments EXCEPT ![e].cancelled = TRUE]
  /\ UNCHANGED <<rooms, enquiries, req, edits, touched>>

(* Mutant of Cancel: the cancellation is a status.                         *)
CancelAsStatus(e) ==
  /\ Live(e) /\ ~ enrollments[e].cancelled
  /\ enrollments' = [enrollments EXCEPT ![e].status = "cancelled"]
  /\ UNCHANGED <<students, places, rooms, enquiries, req, edits, touched>>

(* cancelEnrollment: all of it is one transaction; the status of the row   *)
(* and its classroom stay.                                                 *)
Cancel(e) ==
  /\ Live(e) /\ ~ enrollments[e].cancelled
  /\ LET s == enrollments[e].st
         c == enrollments[e].room
     IN  /\ places' = IF c = None THEN places ELSE [places EXCEPT ![s] = Close(@, c)]
         /\ students' = IF KeptBy(e) THEN students
                        ELSE [students EXCEPT ![s] = "draft"]
  /\ enrollments' = [enrollments EXCEPT ![e].cancelled = TRUE]
  /\ UNCHANGED <<rooms, enquiries, req, edits, touched>>

(* archiveClassroom and reactivateClassroom, whoever is placed there.      *)
ToggleRoom(c) ==
  /\ Edit
  /\ rooms' = IF c \in rooms THEN rooms \ {c} ELSE rooms \cup {c}
  /\ UNCHANGED <<students, enrollments, places, enquiries, req, touched>>

-----------------------------------------------------------------------------
(* The endpoints of students/:id that know nothing of enrollments.  Their  *)
(* statements are not in a transaction.                                    *)
OlderEnroll(h, s, c) ==
  /\ Edit
  /\ At(h, "idle") /\ "enroll" \in Older
  /\ Registered(s) /\ places[s][c] < MaxOpen
  /\ places' = [places EXCEPT ![s][c] = @ + 1]
  /\ touched' = touched \cup {s}
  /\ Goto(h, [Idle EXCEPT !.pc = "olderStatus", !.st = s, !.status = "enrolled"])
  /\ UNCHANGED <<students, enrollments, rooms, enquiries>>

(* transfer and withdraw first close every row of the student.             *)
OlderClose(h, s) ==
  /\ Edit
  /\ At(h, "idle")
  /\ Registered(s)
  /\ places' = [places EXCEPT ![s] = Closed]
  /\ touched' = touched \cup {s}
  /\ \/ /\ "withdraw" \in Older
        /\ Goto(h, [Idle EXCEPT !.pc = "olderStatus", !.st = s, !.status = "withdrawn"])
     \/ /\ "transfer" \in Older
        /\ \E c \in Classroom : Goto(h, [Idle EXCEPT !.pc = "transferInsert", !.st = s, !.room = c])
  /\ UNCHANGED <<students, enrollments, rooms, enquiries>>

TransferInsert(h) ==
  /\ At(h, "transferInsert")
  /\ LET s == req[h].st
     IN  IF Registered(s)
         THEN /\ places' = [places EXCEPT ![s][req[h].room] = @ + 1]
              /\ Goto(h, [Idle EXCEPT !.pc = "olderStatus", !.st = s, !.status = "transferred"])
         ELSE UNCHANGED places /\ Goto(h, Idle)
  /\ UNCHANGED <<students, enrollments, rooms, enquiries, edits, touched>>

OlderStatus(h) ==
  /\ At(h, "olderStatus")
  /\ LET s == req[h].st
     IN  students' = IF Registered(s) THEN [students EXCEPT ![s] = req[h].status]
                     ELSE students
  /\ Goto(h, Idle)
  /\ UNCHANGED <<enrollments, places, rooms, enquiries, edits, touched>>

(* update: the status is any the client names.                             *)
UpdateStudent(s) ==
  /\ Edit
  /\ "update" \in Older /\ Registered(s)
  /\ \E status \in {"draft", "withdrawn"} : students' = [students EXCEPT ![s] = status]
  /\ touched' = touched \cup {s}
  /\ UNCHANGED <<enrollments, places, rooms, enquiries, req>>

-----------------------------------------------------------------------------
(* A request its handler refuses: of a student who is not there, or of an  *)
(* enrollment that may not be edited.                                      *)
Refuse(h) ==
  /\ At(h, "idle")
  /\ (\E s \in Student : ~ Registered(s)) \/ \E e \in Enrollment : enrollments[e].invoiced
  /\ UNCHANGED vars

(* A handler, or the job, stops after any of its statements.               *)
Fail(h) ==
  /\ ~ At(h, "idle")
  /\ Goto(h, Idle)
  /\ UNCHANGED <<tables, edits, touched>>

-----------------------------------------------------------------------------
Admit(h) ==
  \/ \E q \in Enquiry : StartRead(h, q)
  \/ StartStudent(h) \/ EnrollCheck(h) \/ EnrollInsert(h) \/ StartOffer(h)
  \/ \E s \in Student, c \in Classroom \cup {None}, q \in Enquiry \cup {None} :
       EnrollRead(h, s, c, q)

Enrolling(h) ==
  \/ \E e \in Enrollment :
       \/ DeleteRead(h, e) \/ ConfirmRead(h, e) \/ UnassignRead(h, e)
       \/ \E c \in Classroom : AssignRead(h, e, c)
       \/ \E status \in Statuses \cup {None} : UpdateRead(h, e, status)
  \/ UpdateWrite(h) \/ DeleteWrite(h) \/ ConfirmCommit(h) \/ AssignCommit(h)
  \/ UnassignCommit(h)

Lifecycle(h) ==
  \/ \E s \in Student :
       \/ OlderClose(h, s)
       \/ \E c \in Classroom : OlderEnroll(h, s, c)
  \/ TransferInsert(h) \/ OlderStatus(h)

Next ==
  \/ \E s \in Student : Register(s) \/ UpdateStudent(s)
  \/ \E q \in Enquiry : CreateEnquiry(q) \/ UpdateEnquiry(q)
  \/ \E e \in Enrollment : Cancel(e)
  \/ \E c \in Classroom : ToggleRoom(c)
  \/ \E h \in Request : Admit(h) \/ Enrolling(h) \/ Lifecycle(h) \/ Refuse(h) \/ Fail(h)

Spec == Init /\ [][Next]_vars

-----------------------------------------------------------------------------
RowType ==
  [status : {"absent", "draft", "approved"} \cup Statuses, st : Student \cup {None},
   room : Classroom \cup {None}, enq : Enquiry \cup {None}, started : BOOLEAN,
   invoiced : BOOLEAN, cancelled : BOOLEAN]

StudentStatus == {"absent", "draft", "enrolled", "transferred", "withdrawn"}

TypeOK ==
  /\ students \in [Student -> StudentStatus]
  /\ enrollments \in [Enrollment -> RowType]
  /\ places \in [Student -> [Classroom -> Nat]]
  /\ edits \in 0 .. MaxEdits
  /\ touched \subseteq Student
  /\ rooms \subseteq Classroom
  /\ enquiries \in [Enquiry -> {"absent", "new", "offered", "lost", "enrolled"}]
  /\ req \in [Request ->
       [pc : {"idle", "startStudent", "enrollCheck", "enrollInsert", "startOffer",
              "updateWrite", "deleteWrite", "confirmCommit", "assignCommit",
              "unassignCommit", "transferInsert", "olderStatus"},
        st : Student \cup {None}, enr : Enrollment \cup {None},
        room : Classroom \cup {None}, enq : Enquiry \cup {None},
        status : StudentStatus \cup Statuses \cup {None},
        moves : BOOLEAN, offer : BOOLEAN, start : BOOLEAN]]

Untouched == Student \ touched

(* A student the ceremony alone has placed sits in at most one classroom,  *)
(* however enrollments are confirmed, moved, cancelled and confirmed again.*)
OnePlace ==
  \A s \in Untouched : SumFunctionOnSet(places[s], Classroom) <= 1

(* And an approved enrollment of the student names that classroom.         *)
PlaceIsEnrolled ==
  \A s \in Untouched, c \in Classroom : places[s][c] > 0 =>
    \E e \in Enrollment : /\ enrollments[e].st = s /\ enrollments[e].room = c
                          /\ enrollments[e].status = "approved"

(* A student with an approved enrollment in a classroom that has not been  *)
(* cancelled is enrolled, whatever other enrollments were cancelled.       *)
StatusFollowsEnrollment ==
  \A e \in Enrollment :
    /\ enrollments[e].status = "approved" /\ ~ enrollments[e].cancelled
    /\ enrollments[e].room # None /\ enrollments[e].st \in Untouched
    => students[enrollments[e].st] = "enrolled"

(* startEnrollment makes one enrollment of an enquiry, however often it is *)
(* started, given up half way and started again.  A request to create an   *)
(* enrollment may name the enquiry another time.                           *)
EnquiryStartsOnce ==
  \A q \in Enquiry :
    Cardinality({e \in Enrollment : enrollments[e].enq = q /\ enrollments[e].started}) <= 1
=============================================================================
