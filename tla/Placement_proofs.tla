--------------------------- MODULE Placement_proofs ---------------------------
(* Proofs about Placement for any students, enrollments, classrooms and    *)
(* enquiries: the types for any number of handlers in flight, the promises *)
(* for handlers that do not overlap.                                       *)
EXTENDS Placement, FiniteSums, FiniteSetTheorems, TLAPS

(* What a handler past its first step names.                               *)
Starting == {"startStudent", "enrollCheck", "enrollInsert"}
OnStudent == {"enrollCheck", "enrollInsert", "confirmCommit", "unassignCommit",
              "transferInsert", "olderStatus"}
OnEnrollment == {"updateWrite", "deleteWrite", "confirmCommit", "assignCommit",
                 "unassignCommit"}
OnRoom == {"assignCommit", "unassignCommit", "transferInsert"}
PC == Starting \cup OnStudent \cup OnEnrollment \cup OnRoom \cup {"idle", "startOffer"}

Given == {"enrolled", "transferred", "withdrawn"}

Locals ==
  [pc : PC, st : Student \cup {None}, enr : Enrollment \cup {None},
   room : Classroom \cup {None}, enq : Enquiry \cup {None},
   status : StudentStatus \cup Statuses \cup {None}, moves : BOOLEAN, offer : BOOLEAN,
   start : BOOLEAN]

LocalOK(q) ==
  /\ q \in Locals
  /\ q.pc \in OnStudent => q.st \in Student
  /\ q.pc \in OnEnrollment => q.enr \in Enrollment
  /\ q.pc \in OnRoom => q.room \in Classroom
  /\ q.pc \in Starting /\ q.offer => q.enq \in Enquiry
  /\ q.pc = "startOffer" => q.enq \in Enquiry
  /\ q.pc = "olderStatus" => q.status \in Given
  /\ q.pc = "updateWrite" => q.status \in Statuses \cup {None}

RowOK(x) ==
  /\ x \in RowType
  /\ x.status # "absent" => x.st \in Student
  /\ x.status = "approved" => x.invoiced

TablesOK ==
  /\ students \in [Student -> StudentStatus]
  /\ places \in [Student -> [Classroom -> Nat]]
  /\ edits \in 0 .. MaxEdits
  /\ touched \subseteq Student
  /\ rooms \subseteq Classroom
  /\ enquiries \in [Enquiry -> {"absent", "new", "offered", "lost", "enrolled"}]

RowsOK ==
  /\ enrollments \in [Enrollment -> RowType]
  /\ \A e \in Enrollment : RowOK(enrollments[e])

(* No enrollment names a student who is not registered.                    *)
Owned == \A e \in Enrollment : Live(e) => Registered(enrollments[e].st)

ReqOK == req \in [Request -> Locals] /\ \A h \in Request : LocalOK(req[h])

TypeInv == TablesOK /\ RowsOK /\ Owned /\ ReqOK

LEMMA TypeInvImpliesTypeOK == TypeInv => TypeOK
<1>1. PC = {"idle", "startStudent", "enrollCheck", "enrollInsert", "startOffer",
            "updateWrite", "deleteWrite", "confirmCommit", "assignCommit",
            "unassignCommit", "transferInsert", "olderStatus"}
  BY DEF PC, Starting, OnStudent, OnEnrollment, OnRoom
<1>2. QED BY <1>1 DEF TypeInv, TypeOK, TablesOK, RowsOK, ReqOK, Locals

-----------------------------------------------------------------------------
(* Rows and what a handler has read.                                       *)

LEMMA Pcs ==
  /\ Starting \subseteq PC /\ OnStudent \subseteq PC /\ OnEnrollment \subseteq PC
  /\ OnRoom \subseteq PC /\ "idle" \in PC /\ "startOffer" \in PC
  /\ "idle" \notin Starting \cup OnStudent \cup OnEnrollment \cup OnRoom
  /\ "startOffer" \notin Starting \cup OnStudent \cup OnEnrollment \cup OnRoom
<1>1. "idle" \notin Starting /\ "startOffer" \notin Starting
  BY DEF Starting
<1>2. "idle" \notin OnStudent /\ "startOffer" \notin OnStudent
  BY DEF OnStudent
<1>3. "idle" \notin OnEnrollment /\ "startOffer" \notin OnEnrollment
  BY DEF OnEnrollment
<1>4. "idle" \notin OnRoom /\ "startOffer" \notin OnRoom
  BY DEF OnRoom
<1>5. QED BY <1>1, <1>2, <1>3, <1>4 DEF PC

LEMMA IdleOK == LocalOK(Idle) /\ Idle.pc = "idle"
<1>1. Idle \in Locals
  BY Pcs DEF Idle, Locals
<1>2. Idle.pc = "idle"
  BY DEF Idle
<1>3. QED BY <1>1, <1>2, Pcs DEF LocalOK

(* One that goes on with what it has.                                      *)
LEMMA ResumeOK ==
  ASSUME NEW q, LocalOK(q), NEW pc \in Starting, NEW s \in Student, q.pc \in Starting
  PROVE  LocalOK([q EXCEPT !.pc = pc, !.st = s])
<1> DEFINE x == [q EXCEPT !.pc = pc, !.st = s]
<1>1. x \in Locals /\ x.pc = pc /\ x.st = s /\ x.offer = q.offer /\ x.enq = q.enq
  BY Pcs DEF LocalOK, Locals
<1>2. q.offer => q.enq \in Enquiry
  BY DEF LocalOK
<1>3. pc \notin OnEnrollment /\ pc \notin OnRoom
      /\ pc \notin {"startOffer", "olderStatus", "updateWrite"}
  BY DEF Starting, OnEnrollment, OnRoom
<1> HIDE DEF x
<1>4. LocalOK(x)
  BY <1>1, <1>2, <1>3 DEF LocalOK
<1>5. QED BY <1>4 DEF x

LEMMA NoRowOK ==
  /\ RowOK(NoRow) /\ NoRow.status = "absent" /\ NoRow.enq = None
  /\ NoRow.started = FALSE
  BY DEF RowOK, RowType, NoRow

LEMMA LocalStep ==
  ASSUME ReqOK, NEW h \in Request, NEW q, LocalOK(q), Goto(h, q)
  PROVE  ReqOK' /\ req'[h] = q /\ \A g \in Request \ {h} : req'[g] = req[g]
  BY DEF ReqOK, Goto, LocalOK

LEMMA RowStep ==
  ASSUME RowsOK, NEW e \in Enrollment, NEW x, RowOK(x),
         enrollments' = [enrollments EXCEPT ![e] = x]
  PROVE  /\ RowsOK' /\ enrollments'[e] = x
         /\ \A d \in Enrollment \ {e} : enrollments'[d] = enrollments[d]
  BY DEF RowsOK, RowOK

LEMMA StatusPlain == "approved" \notin Statuses /\ "absent" \notin Statuses
  BY UpdateAssumption

LEMMA Frame ==
  ASSUME TablesOK, RowsOK, Owned, UNCHANGED <<tables, touched>>, edits' \in 0 .. MaxEdits
  PROVE  TablesOK' /\ RowsOK' /\ Owned'
  BY DEF TablesOK, RowsOK, Owned, Live, Registered, tables

LEMMA EditOK ==
  ASSUME edits \in 0 .. MaxEdits, Edit
  PROVE  edits' \in 0 .. MaxEdits
  BY RowAssumption DEF Edit

(* Who is registered stays registered, and rows keep their students.       *)
LEMMA OwnedKept ==
  ASSUME Owned,
         \A s \in Student : Registered(s) => Registered(s)',
         RowsOK, RowsOK',
         \A e \in Enrollment : Live(e)' => Live(e) /\ enrollments'[e].st = enrollments[e].st
  PROVE  Owned'
<1>1. ASSUME NEW e \in Enrollment, Live(e)'
      PROVE  Registered(enrollments[e].st)'
  <2> DEFINE s == enrollments'[e].st
  <2>1. Live(e) /\ s = enrollments[e].st
    BY <1>1
  <2>2. enrollments[e].st \in Student /\ Registered(enrollments[e].st)
    BY <2>1 DEF RowsOK, RowOK, Live, Owned
  <2>3. QED BY <2>1, <2>2 DEF Registered
<1>2. ASSUME NEW e \in Enrollment, Live(e)'
      PROVE  Registered(enrollments[e].st)' /\ enrollments'[e].st = enrollments[e].st
  BY <1>1, <1>2
<1>3. QED BY <1>2 DEF Owned, Registered

-----------------------------------------------------------------------------
(* Every step keeps the types.                                             *)

Reads(h) ==
  \/ \E q \in Enquiry : StartRead(h, q)
  \/ EnrollCheck(h)
  \/ \E s \in Student, c \in Classroom \cup {None}, q \in Enquiry \cup {None} :
       EnrollRead(h, s, c, q)
  \/ \E e \in Enrollment :
       \/ DeleteRead(h, e) \/ ConfirmRead(h, e) \/ UnassignRead(h, e)
       \/ \E c \in Classroom : AssignRead(h, e, c)
       \/ \E status \in Statuses \cup {None} : UpdateRead(h, e, status)

LEMMA ReadsAreReads ==
  ASSUME NEW h, Reads(h), edits \in 0 .. MaxEdits
  PROVE  UNCHANGED <<tables, touched>> /\ edits' \in 0 .. MaxEdits
<1>1. ASSUME NEW s, NEW c, NEW q, EnrollRead(h, s, c, q)
      PROVE  UNCHANGED <<tables, touched>> /\ edits' \in 0 .. MaxEdits
  BY <1>1, EditOK DEF EnrollRead
<1>2. CASE \E s, c, q : EnrollRead(h, s, c, q)
  BY <1>1, <1>2
<1>3. CASE ~ \E s, c, q : EnrollRead(h, s, c, q)
  BY <1>3 DEF Reads, StartRead, EnrollCheck, DeleteRead, ConfirmRead, UnassignRead, AssignRead,
     UpdateRead
<1>4. QED BY <1>2, <1>3

LEMMA ReadsKeepLocals ==
  ASSUME TypeInv, NEW h \in Request, Reads(h)
  PROVE  \E q : LocalOK(q) /\ Goto(h, q)
<1> DEFINE r == req[h]
<1>1. Idle \in Locals /\ LocalOK(Idle) /\ LocalOK(r) /\ None \notin Enquiry
      /\ Idle.offer = FALSE
  BY IdleOK, RowAssumption DEF TypeInv, ReqOK, Idle, LocalOK
<1>2. ASSUME NEW q \in Enquiry, StartRead(h, q)
      PROVE  \E x : LocalOK(x) /\ Goto(h, x)
  <2>1. PICK c \in Classroom \cup {None} :
          Goto(h, [Idle EXCEPT !.pc = "startStudent", !.enq = q, !.room = c, !.start = TRUE,
                               !.offer = enquiries[q] # "offered"])
    BY <1>2 DEF StartRead
  <2> DEFINE offer == enquiries[q] # "offered"
  <2>2. offer \in BOOLEAN
    OBVIOUS
  <2> HIDE DEF offer
  <2>3. LocalOK([Idle EXCEPT !.pc = "startStudent", !.enq = q, !.room = c, !.start = TRUE,
                               !.offer = offer])
    <3> DEFINE x == [Idle EXCEPT !.pc = "startStudent", !.enq = q, !.room = c, !.start = TRUE,
                               !.offer = offer]
    <3>1. "startStudent" \in PC
      BY DEF PC, Starting, OnStudent, OnEnrollment, OnRoom
    <3>2. x \in Locals /\ x.pc = "startStudent" /\ x.enq = q /\ x.room = c /\ x.offer = offer
      BY <1>1, <2>2, <3>1 DEF Locals
    <3> HIDE DEF x
    <3>3. LocalOK(x)
      BY <3>2, <2>2 DEF LocalOK, Starting, OnStudent, OnEnrollment, OnRoom
    <3>4. QED BY <3>3 DEF x
  <2>4. QED BY <2>1, <2>3 DEF offer
<1>3. ASSUME EnrollCheck(h) PROVE \E x : LocalOK(x) /\ Goto(h, x)
  <2>1. r.pc = "enrollCheck"
    BY <1>3 DEF EnrollCheck, At
  <2>2. LocalOK([r EXCEPT !.pc = "enrollInsert"])
    <3>1. r.st \in Student /\ r.pc \in Starting /\ "enrollInsert" \in Starting
      BY <1>1, <2>1 DEF LocalOK, OnStudent, Starting
    <3>2. LocalOK([r EXCEPT !.pc = "enrollInsert", !.st = r.st])
      BY <1>1, <3>1, ResumeOK
    <3>3. [r EXCEPT !.pc = "enrollInsert", !.st = r.st] = [r EXCEPT !.pc = "enrollInsert"]
      BY <1>1 DEF LocalOK, Locals
    <3>4. QED BY <3>2, <3>3
  <2>3. Goto(h, Idle) \/ Goto(h, [r EXCEPT !.pc = "enrollInsert"])
    BY <1>3 DEF EnrollCheck
  <2>4. QED BY <1>1, <2>2, <2>3
<1>4. ASSUME NEW s \in Student, NEW c \in Classroom \cup {None},
             NEW q \in Enquiry \cup {None}, EnrollRead(h, s, c, q)
      PROVE  \E x : LocalOK(x) /\ Goto(h, x)
  <2>1. LocalOK([Idle EXCEPT !.pc = "enrollInsert", !.st = s, !.room = c, !.enq = q])
    <3> DEFINE x == [Idle EXCEPT !.pc = "enrollInsert", !.st = s, !.room = c, !.enq = q]
    <3>1. "enrollInsert" \in PC
      BY DEF PC, Starting, OnStudent, OnEnrollment, OnRoom
    <3>2. x \in Locals /\ x.pc = "enrollInsert" /\ x.st = s /\ x.room = c /\ x.offer = FALSE
      BY <1>1, <3>1 DEF Locals
    <3> HIDE DEF x
    <3>3. LocalOK(x)
      BY <3>2 DEF LocalOK, Starting, OnStudent, OnEnrollment, OnRoom
    <3>4. QED BY <3>3 DEF x
  <2>2. QED BY <1>4, <2>1 DEF EnrollRead
<1>5. ASSUME NEW e \in Enrollment, DeleteRead(h, e) PROVE \E x : LocalOK(x) /\ Goto(h, x)
  <2>1. LocalOK([Idle EXCEPT !.pc = "deleteWrite", !.enr = e])
    <3> DEFINE x == [Idle EXCEPT !.pc = "deleteWrite", !.enr = e]
    <3>1. "deleteWrite" \in PC
      BY DEF PC, Starting, OnStudent, OnEnrollment, OnRoom
    <3>2. x \in Locals /\ x.pc = "deleteWrite" /\ x.enr = e
      BY <1>1, <3>1 DEF Locals
    <3> HIDE DEF x
    <3>3. LocalOK(x)
      BY <3>2 DEF LocalOK, Starting, OnStudent, OnEnrollment, OnRoom
    <3>4. QED BY <3>3 DEF x
  <2>2. QED BY <1>5, <2>1 DEF DeleteRead
<1>6. ASSUME NEW e \in Enrollment, ConfirmRead(h, e) PROVE \E x : LocalOK(x) /\ Goto(h, x)
  <2> DEFINE s == enrollments[e].st
             c == enrollments[e].room
             q == enrollments[e].enq
  <2>1. s \in Student /\ c \in Classroom \cup {None} /\ q \in Enquiry \cup {None}
    BY <1>6 DEF ConfirmRead, Live, TypeInv, RowsOK, RowOK, RowType
  <2> HIDE DEF s, c, q
  <2>2. LocalOK([Idle EXCEPT !.pc = "confirmCommit", !.enr = e, !.st = s, !.room = c,
                              !.enq = q])
    <3> DEFINE x == [Idle EXCEPT !.pc = "confirmCommit", !.enr = e, !.st = s, !.room = c,
                                 !.enq = q]
    <3>1. "confirmCommit" \in PC
      BY DEF PC, Starting, OnStudent, OnEnrollment, OnRoom
    <3>2. /\ x \in Locals /\ x.pc = "confirmCommit" /\ x.enr = e /\ x.st = s
          /\ x.room = c /\ x.enq = q
      BY <1>1, <2>1, <3>1 DEF Locals
    <3> HIDE DEF x
    <3>3. LocalOK(x)
      BY <3>2, <2>1 DEF LocalOK, Starting, OnStudent, OnEnrollment, OnRoom
    <3>4. QED BY <3>3 DEF x
  <2>3. QED BY <1>6, <2>2 DEF ConfirmRead, s, c, q
<1>7. ASSUME NEW e \in Enrollment, UnassignRead(h, e) PROVE \E x : LocalOK(x) /\ Goto(h, x)
  <2> DEFINE s == enrollments[e].st
             c == enrollments[e].room
  <2>1. s \in Student /\ c \in Classroom
    BY <1>7 DEF UnassignRead, Live, TypeInv, RowsOK, RowOK, RowType
  <2> HIDE DEF s, c
  <2>2. LocalOK([Idle EXCEPT !.pc = "unassignCommit", !.enr = e, !.st = s, !.room = c])
    <3> DEFINE x == [Idle EXCEPT !.pc = "unassignCommit", !.enr = e, !.st = s, !.room = c]
    <3>1. "unassignCommit" \in PC
      BY DEF PC, Starting, OnStudent, OnEnrollment, OnRoom
    <3>2. x \in Locals /\ x.pc = "unassignCommit" /\ x.enr = e /\ x.st = s /\ x.room = c
      BY <1>1, <2>1, <3>1 DEF Locals
    <3> HIDE DEF x
    <3>3. LocalOK(x)
      BY <3>2, <2>1 DEF LocalOK, Starting, OnStudent, OnEnrollment, OnRoom
    <3>4. QED BY <3>3 DEF x
  <2>3. QED BY <1>7, <2>2 DEF UnassignRead, s, c
<1>8. ASSUME NEW e \in Enrollment, NEW c \in Classroom, AssignRead(h, e, c)
      PROVE  \E x : LocalOK(x) /\ Goto(h, x)
  <2>1. LocalOK([Idle EXCEPT !.pc = "assignCommit", !.enr = e, !.room = c])
    <3> DEFINE x == [Idle EXCEPT !.pc = "assignCommit", !.enr = e, !.room = c]
    <3>1. "assignCommit" \in PC
      BY DEF PC, Starting, OnStudent, OnEnrollment, OnRoom
    <3>2. x \in Locals /\ x.pc = "assignCommit" /\ x.enr = e /\ x.room = c
      BY <1>1, <3>1 DEF Locals
    <3> HIDE DEF x
    <3>3. LocalOK(x)
      BY <3>2 DEF LocalOK, Starting, OnStudent, OnEnrollment, OnRoom
    <3>4. QED BY <3>3 DEF x
  <2>2. QED BY <1>8, <2>1 DEF AssignRead
<1>9. ASSUME NEW e \in Enrollment, NEW status \in Statuses \cup {None}, UpdateRead(h, e, status)
      PROVE  \E x : LocalOK(x) /\ Goto(h, x)
  <2>1. PICK c \in Classroom \cup {None}, moves \in BOOLEAN :
          Goto(h, [Idle EXCEPT !.pc = "updateWrite", !.enr = e, !.status = status,
                               !.moves = moves, !.room = IF moves THEN c ELSE None])
    BY <1>9 DEF UpdateRead
  <2> DEFINE room == IF moves THEN c ELSE None
  <2>2. room \in Classroom \cup {None}
    OBVIOUS
  <2> HIDE DEF room
  <2>3. LocalOK([Idle EXCEPT !.pc = "updateWrite", !.enr = e, !.status = status,
                              !.moves = moves, !.room = room])
    <3> DEFINE x == [Idle EXCEPT !.pc = "updateWrite", !.enr = e, !.status = status,
                                 !.moves = moves, !.room = room]
    <3>1. "updateWrite" \in PC
      BY DEF PC, Starting, OnStudent, OnEnrollment, OnRoom
    <3>2. /\ x \in Locals /\ x.pc = "updateWrite" /\ x.enr = e /\ x.status = status
          /\ x.moves = moves /\ x.room = room
      BY <1>1, <2>2, <3>1 DEF Locals
    <3> HIDE DEF x
    <3>3. LocalOK(x)
      BY <3>2, <2>2 DEF LocalOK, Starting, OnStudent, OnEnrollment, OnRoom
    <3>4. QED BY <3>3 DEF x
  <2>4. QED BY <2>1, <2>3 DEF room
<1>10. QED BY <1>2, <1>3, <1>4, <1>5, <1>6, <1>7, <1>8, <1>9 DEF Reads

(* Statuses, places and edits.                                             *)
StudentsOK == students \in [Student -> StudentStatus]
PlacesOK == places \in [Student -> [Classroom -> Nat]]

LEMMA CloseOK ==
  ASSUME PlacesOK, NEW s, NEW c
  PROVE  [places EXCEPT ![s] = Close(@, c)] \in [Student -> [Classroom -> Nat]]
  BY DEF PlacesOK, Close

LEMMA ClosedOK == Closed \in [Classroom -> Nat]
  BY DEF Closed

LEMMA SyncedOK ==
  ASSUME PlacesOK, NEW s \in Student, NEW c \in Classroom
  PROVE  Synced(s, c) \in [Student -> [Classroom -> Nat]]
<1> DEFINE n == IF places[s][c] = 0 THEN 1 ELSE places[s][c]
           row == [Closed EXCEPT ![c] = n]
<1>1. n \in Nat
  BY DEF PlacesOK
<1> HIDE DEF n
<1>2. row \in [Classroom -> Nat]
  BY <1>1, ClosedOK
<1> HIDE DEF row
<1>3. [places EXCEPT ![s] = row] \in [Student -> [Classroom -> Nat]]
  BY <1>2 DEF PlacesOK
<1>4. QED BY <1>3 DEF Synced, row, n

LEMMA StatusStep ==
  ASSUME StudentsOK, NEW s \in Student, NEW status \in StudentStatus \ {"absent"},
         students' = [students EXCEPT ![s] = status]
  PROVE  StudentsOK' /\ \A t \in Student : Registered(t) => Registered(t)'
  BY DEF StudentsOK, Registered

LEMMA PlaceOK ==
  ASSUME StudentsOK, PlacesOK, NEW s \in Student, NEW c \in Classroom \cup {None}, Place(s, c)
  PROVE  StudentsOK' /\ PlacesOK' /\ \A t \in Student : Registered(t) => Registered(t)'
<1>1. CASE c = None
  BY <1>1 DEF Place, StudentsOK, PlacesOK, Registered
<1>2. CASE c # None
  <2>1. "enrolled" \in StudentStatus \ {"absent"}
    BY DEF StudentStatus
  <2>2. places' = Synced(s, c) /\ students' = [students EXCEPT ![s] = "enrolled"]
    BY <1>2 DEF Place
  <2>3. StudentsOK' /\ \A t \in Student : Registered(t) => Registered(t)'
    BY <2>1, <2>2, StatusStep
  <2>4. PlacesOK'
    BY <1>2, <2>2, SyncedOK DEF PlacesOK
  <2>5. QED BY <2>3, <2>4
<1>3. QED BY <1>1, <1>2

LEMMA TablesParts ==
  TablesOK <=> /\ StudentsOK /\ PlacesOK
               /\ edits \in 0 .. MaxEdits
               /\ touched \subseteq Student
               /\ rooms \subseteq Classroom
               /\ enquiries \in [Enquiry -> {"absent", "new", "offered", "lost", "enrolled"}]
  BY DEF TablesOK, StudentsOK, PlacesOK

(* Steps that are not of a handler.                                        *)
LEMMA OthersKeepTypes ==
  ASSUME TypeInv,
         \/ \E s \in Student : Register(s) \/ UpdateStudent(s)
         \/ \E q \in Enquiry : CreateEnquiry(q) \/ UpdateEnquiry(q)
         \/ \E e \in Enrollment : Cancel(e)
         \/ \E c \in Classroom : ToggleRoom(c)
  PROVE  TypeInv'
<1>1. /\ StudentsOK /\ PlacesOK /\ edits \in 0 .. MaxEdits /\ touched \subseteq Student
      /\ rooms \subseteq Classroom /\ RowsOK /\ Owned
      /\ enquiries \in [Enquiry -> {"absent", "new", "offered", "lost", "enrolled"}]
  BY TablesParts DEF TypeInv
<1>2. UNCHANGED req
  BY DEF Register, UpdateStudent, CreateEnquiry, UpdateEnquiry, Cancel, ToggleRoom
<1>3. ReqOK'
  BY <1>2 DEF TypeInv, ReqOK
<1>4. ASSUME NEW s \in Student, Register(s) \/ UpdateStudent(s)
      PROVE  TablesOK' /\ RowsOK' /\ Owned'
  <2>1. UNCHANGED <<enrollments, places, rooms, enquiries>>
        /\ touched' \in SUBSET Student
    BY <1>1, <1>4 DEF Register, UpdateStudent
  <2>2. edits' \in 0 .. MaxEdits
    BY <1>1, <1>4, EditOK DEF Register, UpdateStudent
  <2>3. PICK status \in {"draft", "withdrawn"} : students' = [students EXCEPT ![s] = status]
    BY <1>4 DEF Register, Registration, UpdateStudent
  <2>4. status \in StudentStatus \ {"absent"}
    BY DEF StudentStatus
  <2>5. StudentsOK' /\ \A t \in Student : Registered(t) => Registered(t)'
    BY <1>1, <2>3, <2>4, StatusStep
  <2>6. RowsOK' /\ PlacesOK' /\ UNCHANGED <<rooms, enquiries>>
    BY <1>1, <2>1 DEF RowsOK, PlacesOK
  <2>7. TablesOK'
    BY <1>1, <2>1, <2>2, <2>5, <2>6 DEF TablesOK, StudentsOK, PlacesOK
  <2>8. \A e \in Enrollment : Live(e)' => Live(e) /\ enrollments'[e].st = enrollments[e].st
    BY <2>1 DEF Live
  <2>9. QED BY <1>1, <2>5, <2>6, <2>7, <2>8, OwnedKept
<1>5. ASSUME NEW q \in Enquiry, CreateEnquiry(q) \/ UpdateEnquiry(q)
      PROVE  TablesOK' /\ RowsOK' /\ Owned'
  <2>1. UNCHANGED <<students, enrollments, places, rooms, touched>>
    BY <1>5 DEF CreateEnquiry, UpdateEnquiry
  <2>2. edits' \in 0 .. MaxEdits
    BY <1>1, <1>5, EditOK DEF CreateEnquiry, UpdateEnquiry
  <2>3. enquiries' \in [Enquiry -> {"absent", "new", "offered", "lost", "enrolled"}]
    BY <1>1, <1>5 DEF CreateEnquiry, UpdateEnquiry
  <2>4. TablesOK'
    BY <1>1, <2>1, <2>2, <2>3 DEF TablesOK, StudentsOK, PlacesOK
  <2>5. QED BY <1>1, <2>1, <2>4 DEF RowsOK, Owned, Live, Registered
<1>6. ASSUME NEW c \in Classroom, ToggleRoom(c)
      PROVE  TablesOK' /\ RowsOK' /\ Owned'
  <2>1. UNCHANGED <<students, enrollments, places, enquiries, touched>>
    BY <1>6 DEF ToggleRoom
  <2>2. edits' \in 0 .. MaxEdits
    BY <1>1, <1>6, EditOK DEF ToggleRoom
  <2>3. rooms' \subseteq Classroom
    BY <1>1, <1>6 DEF ToggleRoom
  <2>4. TablesOK'
    BY <1>1, <2>1, <2>2, <2>3 DEF TablesOK, StudentsOK, PlacesOK
  <2>5. QED BY <1>1, <2>1, <2>4 DEF RowsOK, Owned, Live, Registered
<1>7. ASSUME NEW e \in Enrollment, Cancel(e)
      PROVE  TablesOK' /\ RowsOK' /\ Owned'
  <2> DEFINE s == enrollments[e].st
             c == enrollments[e].room
             x == [enrollments[e] EXCEPT !.cancelled = TRUE]
  <2>1. s \in Student /\ Live(e)
    BY <1>1, <1>7 DEF Cancel, RowsOK, RowOK, Live
  <2>2. UNCHANGED <<rooms, enquiries, edits, touched>>
    BY <1>7 DEF Cancel
  <2>3. /\ places' = places \/ places' = [places EXCEPT ![s] = Close(@, c)]
        /\ students' = students \/ students' = [students EXCEPT ![s] = "draft"]
    BY <1>7 DEF Cancel
  <2>4. RowOK(x) /\ x.st = s /\ x.status = enrollments[e].status
    BY <1>1 DEF RowsOK, RowOK, RowType
  <2>5. enrollments' = [enrollments EXCEPT ![e] = x]
    BY <1>1, <1>7 DEF Cancel, RowsOK
  <2> HIDE DEF x
  <2>6. RowsOK' /\ enrollments'[e] = x
        /\ \A d \in Enrollment \ {e} : enrollments'[d] = enrollments[d]
    BY <1>1, <2>4, <2>5, RowStep
  <2>7. \A d \in Enrollment : Live(d)' => Live(d) /\ enrollments'[d].st = enrollments[d].st
    BY <2>4, <2>6 DEF Live
  <2> HIDE DEF s, c
  <2>8. "draft" \in StudentStatus \ {"absent"}
    BY DEF StudentStatus
  <2>9. StudentsOK' /\ \A t \in Student : Registered(t) => Registered(t)'
    <3>1. CASE students' = students
      BY <1>1, <3>1 DEF StudentsOK, Registered
    <3>2. CASE students' = [students EXCEPT ![s] = "draft"]
      BY <1>1, <2>1, <2>8, <3>2, StatusStep
    <3>3. QED BY <2>3, <3>1, <3>2
  <2>10. PlacesOK'
    <3>1. [places EXCEPT ![s] = Close(@, c)] \in [Student -> [Classroom -> Nat]]
      BY <1>1, CloseOK
    <3>2. places' \in [Student -> [Classroom -> Nat]]
      BY <1>1, <2>3, <3>1 DEF PlacesOK
    <3>3. QED BY <3>2 DEF PlacesOK
  <2>11. TablesOK'
    BY <1>1, <2>2, <2>9, <2>10 DEF TablesOK, StudentsOK, PlacesOK
  <2>12. QED BY <1>1, <2>6, <2>7, <2>9, <2>11, OwnedKept
<1>8. QED BY <1>3, <1>4, <1>5, <1>6, <1>7 DEF TypeInv

(* What each write does to the row it names, and to no other.              *)
Wrote(e, x) ==
  /\ RowsOK' /\ enrollments'[e] = x
  /\ \A d \in Enrollment \ {e} : enrollments'[d] = enrollments[d]

LEMMA WroteRow ==
  ASSUME RowsOK, NEW e \in Enrollment, NEW x, RowOK(x),
         enrollments' = [enrollments EXCEPT ![e] = x]
  PROVE  Wrote(e, x)
  BY RowStep DEF Wrote

LEMMA KeptRows ==
  ASSUME RowsOK, UNCHANGED enrollments
  PROVE  \A e \in Enrollment : Wrote(e, enrollments[e])
  BY DEF RowsOK, Wrote

LEMMA HandlerNames ==
  ASSUME TypeInv, NEW h \in Request
  PROVE  /\ LocalOK(req[h]) /\ req[h] \in Locals
         /\ req[h].pc \in OnStudent => req[h].st \in Student
         /\ req[h].pc \in OnEnrollment => /\ req[h].enr \in Enrollment
                                          /\ RowOK(enrollments[req[h].enr])
         /\ req[h].pc \in OnRoom => req[h].room \in Classroom
  BY DEF TypeInv, ReqOK, LocalOK, RowsOK

LEMMA InsertWrites ==
  ASSUME TypeInv, NEW h \in Request, EnrollInsert(h)
  PROVE  \/ UNCHANGED enrollments
         \/ \E e \in Enrollment : \E x :
              /\ enrollments[e] = NoRow /\ RowOK(x) /\ Wrote(e, x)
              /\ x.st = req[h].st /\ Registered(x.st) /\ x.enq = req[h].enq
              /\ x.status = "draft" /\ ~ x.invoiced /\ x.started = req[h].start
<1> DEFINE r == req[h]
           x == [NoRow EXCEPT !.status = "draft", !.st = r.st, !.room = r.room, !.enq = r.enq,
                              !.started = r.start]
<1>1. r.st \in Student /\ r \in Locals
  BY HandlerNames DEF EnrollInsert, At, OnStudent
<1>2. CASE ~ Registered(r.st)
  BY <1>2 DEF EnrollInsert
<1>3. CASE Registered(r.st)
  <2>1. PICK e \in Enrollment :
          enrollments[e] = NoRow /\ enrollments' = [enrollments EXCEPT ![e] = x]
    BY <1>3 DEF EnrollInsert
  <2>2. NoRow \in RowType /\ NoRow.invoiced = FALSE
    BY DEF NoRow, RowType
  <2>3. /\ x \in RowType /\ x.st = r.st /\ x.enq = r.enq /\ x.status = "draft"
        /\ x.invoiced = FALSE /\ x.started = r.start
    BY <1>1, <2>2 DEF RowType, Locals
  <2> HIDE DEF x
  <2>4. RowOK(x)
    BY <1>1, <2>3 DEF RowOK
  <2>5. Wrote(e, x)
    BY <2>1, <2>4, WroteRow DEF TypeInv
  <2>6. QED BY <1>3, <2>1, <2>3, <2>4, <2>5
<1>4. QED BY <1>2, <1>3

LEMMA UpdateWrites ==
  ASSUME TypeInv, NEW h \in Request, UpdateWrite(h)
  PROVE  LET e == req[h].enr IN
         \/ UNCHANGED enrollments
         \/ \E x : /\ Live(e) /\ RowOK(x) /\ Wrote(e, x)
                   /\ x.st = enrollments[e].st /\ x.enq = enrollments[e].enq
                   /\ x.started = enrollments[e].started
                   /\ x.invoiced = enrollments[e].invoiced
                   /\ x.cancelled = enrollments[e].cancelled
<1> DEFINE r == req[h]
           e == r.enr
           row == enrollments[e]
<1>1. e \in Enrollment /\ RowOK(row) /\ r \in Locals /\ r.status \in Statuses \cup {None}
  BY HandlerNames DEF UpdateWrite, At, OnEnrollment, LocalOK
<1>2. CASE ~ Live(e)
  BY <1>2 DEF UpdateWrite
<1>3. CASE Live(e)
  <2> DEFINE status == IF r.status = None THEN row.status ELSE r.status
             room == IF r.moves THEN r.room ELSE row.room
             x == [row EXCEPT !.status = status, !.room = room]
  <2>1. enrollments' = [enrollments EXCEPT ![e] = x]
    BY <1>1, <1>3 DEF UpdateWrite, TypeInv, RowsOK
  <2>2. /\ room \in Classroom \cup {None}
        /\ status \in {"absent", "draft", "approved"} \cup Statuses
        /\ status = "approved" => row.status = "approved"
    BY <1>1, StatusPlain DEF RowOK, RowType, Locals
  <2> HIDE DEF status, room
  <2>3. /\ x \in RowType /\ x.st = row.st /\ x.enq = row.enq /\ x.invoiced = row.invoiced
        /\ x.started = row.started
        /\ x.cancelled = row.cancelled /\ x.status = status
    BY <1>1, <2>2 DEF RowOK, RowType
  <2> HIDE DEF x
  <2>4. RowOK(x)
    BY <1>1, <1>3, <2>2, <2>3 DEF RowOK, Live
  <2>5. Wrote(e, x)
    BY <1>1, <2>1, <2>4, WroteRow DEF TypeInv
  <2>6. QED BY <1>3, <2>3, <2>4, <2>5
<1>4. QED BY <1>2, <1>3

LEMMA DeleteWrites ==
  ASSUME TypeInv, NEW h \in Request, DeleteWrite(h)
  PROVE  LET e == req[h].enr IN
         UNCHANGED enrollments \/ (~ enrollments[e].invoiced /\ Wrote(e, NoRow))
<1> DEFINE e == req[h].enr
<1>1. e \in Enrollment
  BY HandlerNames DEF DeleteWrite, At, OnEnrollment
<1>2. \/ UNCHANGED enrollments
      \/ ~ enrollments[e].invoiced /\ enrollments' = [enrollments EXCEPT ![e] = NoRow]
  BY DEF DeleteWrite
<1>3. QED BY <1>1, <1>2, NoRowOK, WroteRow DEF TypeInv

LEMMA ConfirmWrites ==
  ASSUME TypeInv, NEW h \in Request, ConfirmCommit(h)
  PROVE  LET e == req[h].enr IN
         \/ UNCHANGED <<enrollments, students, places, enquiries>>
         \/ \E x : /\ Live(e) /\ RowOK(x) /\ Wrote(e, x) /\ Place(req[h].st, req[h].room)
                   /\ x.st = enrollments[e].st /\ x.enq = enrollments[e].enq
                   /\ x.started = enrollments[e].started
                   /\ x.room = enrollments[e].room
                   /\ x.cancelled = enrollments[e].cancelled
                   /\ x.status = "approved" /\ x.invoiced
<1> DEFINE r == req[h]
           e == r.enr
           row == enrollments[e]
           x == [row EXCEPT !.status = "approved", !.invoiced = TRUE]
<1>1. e \in Enrollment /\ RowOK(row)
  BY HandlerNames DEF ConfirmCommit, At, OnEnrollment
<1>2. CASE ~ Live(e)
  BY <1>2 DEF ConfirmCommit
<1>3. CASE Live(e)
  <2>1. enrollments' = [enrollments EXCEPT ![e] = x] /\ Place(r.st, r.room)
    BY <1>1, <1>3 DEF ConfirmCommit, TypeInv, RowsOK
  <2>2. /\ x \in RowType /\ x.st = row.st /\ x.enq = row.enq /\ x.invoiced = TRUE
        /\ x.started = row.started
        /\ x.cancelled = row.cancelled /\ x.room = row.room /\ x.status = "approved"
    BY <1>1 DEF RowOK, RowType
  <2> HIDE DEF x
  <2>3. RowOK(x)
    BY <1>1, <1>3, <2>2 DEF RowOK, Live
  <2>4. Wrote(e, x)
    BY <1>1, <2>1, <2>3, WroteRow DEF TypeInv
  <2>5. QED BY <1>3, <2>1, <2>2, <2>3, <2>4
<1>4. QED BY <1>2, <1>3

LEMMA AssignWrites ==
  ASSUME TypeInv, NEW h \in Request, AssignCommit(h)
  PROVE  LET e == req[h].enr
             approved == enrollments[e].status = "approved"
         IN
         \/ UNCHANGED <<enrollments, students, places>>
         \/ \E x : /\ Live(e) /\ RowOK(x) /\ Wrote(e, x)
                   /\ x.st = enrollments[e].st /\ x.enq = enrollments[e].enq
                   /\ x.started = enrollments[e].started
                   /\ x.status = enrollments[e].status
                   /\ x.invoiced = enrollments[e].invoiced
                   /\ x.cancelled = enrollments[e].cancelled
                   /\ x.room = req[h].room
                   /\ approved => Place(x.st, x.room)
                   /\ ~ approved => UNCHANGED <<students, places>>
<1> DEFINE r == req[h]
           e == r.enr
           row == enrollments[e]
           x == [row EXCEPT !.room = r.room]
<1>1. e \in Enrollment /\ RowOK(row) /\ r.room \in Classroom
  BY HandlerNames DEF AssignCommit, At, OnEnrollment, OnRoom
<1>2. CASE ~ Live(e)
  BY <1>2 DEF AssignCommit
<1>3. CASE Live(e)
  <2>1. /\ enrollments' = [enrollments EXCEPT ![e] = x]
        /\ row.status = "approved" => Place(row.st, r.room)
        /\ row.status # "approved" => UNCHANGED <<students, places>>
    BY <1>1, <1>3 DEF AssignCommit, TypeInv, RowsOK
  <2>2. /\ x \in RowType /\ x.st = row.st /\ x.enq = row.enq /\ x.invoiced = row.invoiced
        /\ x.started = row.started
        /\ x.cancelled = row.cancelled /\ x.room = r.room /\ x.status = row.status
    BY <1>1 DEF RowOK, RowType
  <2> HIDE DEF x
  <2>3. RowOK(x)
    BY <1>1, <1>3, <2>2 DEF RowOK, Live
  <2>4. Wrote(e, x)
    BY <1>1, <2>1, <2>3, WroteRow DEF TypeInv
  <2>5. QED BY <1>3, <2>1, <2>2, <2>3, <2>4
<1>4. QED BY <1>2, <1>3

LEMMA UnassignWrites ==
  ASSUME TypeInv, NEW h \in Request, UnassignCommit(h)
  PROVE  LET e == req[h].enr IN
         /\ UNCHANGED students
         /\ places' = [places EXCEPT ![req[h].st] = Close(@, req[h].room)]
         /\ \/ ~ Live(e) /\ UNCHANGED enrollments
            \/ \E x : /\ Live(e) /\ RowOK(x) /\ Wrote(e, x)
                      /\ x.st = enrollments[e].st /\ x.enq = enrollments[e].enq
                      /\ x.started = enrollments[e].started
                      /\ x.status = enrollments[e].status
                      /\ x.invoiced = enrollments[e].invoiced
                      /\ x.cancelled = enrollments[e].cancelled
                      /\ x.room = None
<1> DEFINE r == req[h]
           e == r.enr
           row == enrollments[e]
           x == [row EXCEPT !.room = None]
<1>1. e \in Enrollment /\ RowOK(row)
  BY HandlerNames DEF UnassignCommit, At, OnEnrollment
<1>2. UNCHANGED students /\ places' = [places EXCEPT ![r.st] = Close(@, r.room)]
  BY DEF UnassignCommit
<1>3. CASE ~ Live(e)
  BY <1>2, <1>3 DEF UnassignCommit
<1>4. CASE Live(e)
  <2>1. enrollments' = [enrollments EXCEPT ![e] = x]
    BY <1>1, <1>4 DEF UnassignCommit, TypeInv, RowsOK
  <2>2. /\ x \in RowType /\ x.st = row.st /\ x.enq = row.enq /\ x.invoiced = row.invoiced
        /\ x.started = row.started
        /\ x.cancelled = row.cancelled /\ x.room = None /\ x.status = row.status
    BY <1>1 DEF RowOK, RowType
  <2> HIDE DEF x
  <2>3. RowOK(x)
    BY <1>1, <1>4, <2>2 DEF RowOK, Live
  <2>4. Wrote(e, x)
    BY <1>1, <2>1, <2>3, WroteRow DEF TypeInv
  <2>5. QED BY <1>2, <1>4, <2>2, <2>3, <2>4
<1>5. QED BY <1>3, <1>4

LEMMA CancelWrites ==
  ASSUME TypeInv, NEW e \in Enrollment, Cancel(e)
  PROVE  \E x : /\ Live(e) /\ RowOK(x) /\ Wrote(e, x)
                /\ x.st = enrollments[e].st /\ x.enq = enrollments[e].enq
                /\ x.started = enrollments[e].started
                /\ x.status = enrollments[e].status /\ x.room = enrollments[e].room
                /\ x.invoiced = enrollments[e].invoiced /\ x.cancelled
<1> DEFINE row == enrollments[e]
           x == [row EXCEPT !.cancelled = TRUE]
<1>1. RowOK(row) /\ Live(e)
  BY DEF Cancel, TypeInv, RowsOK
<1>2. enrollments' = [enrollments EXCEPT ![e] = x]
  BY <1>1 DEF Cancel, TypeInv, RowsOK
<1>3. /\ x \in RowType /\ x.st = row.st /\ x.enq = row.enq /\ x.invoiced = row.invoiced
      /\ x.started = row.started
      /\ x.cancelled = TRUE /\ x.room = row.room /\ x.status = row.status
  BY <1>1 DEF RowOK, RowType
<1> HIDE DEF x
<1>4. RowOK(x)
  BY <1>1, <1>3 DEF RowOK, Live
<1>5. Wrote(e, x)
  BY <1>2, <1>4, WroteRow DEF TypeInv
<1>6. QED BY <1>1, <1>3, <1>4, <1>5

LEMMA WroteLiving ==
  ASSUME TypeInv, NEW e \in Enrollment, NEW x, Wrote(e, x),
         x.status = "absent" \/ (Live(e) /\ x.st = enrollments[e].st),
         \A s \in Student : Registered(s) => Registered(s)'
  PROVE  RowsOK' /\ Owned'
<1>1. \A d \in Enrollment : Live(d)' => Live(d) /\ enrollments'[d].st = enrollments[d].st
  BY DEF Wrote, Live
<1>2. QED BY <1>1, OwnedKept DEF TypeInv, Wrote

LEMMA StatusKept ==
  ASSUME UNCHANGED students
  PROVE  \A s \in Student : Registered(s) => Registered(s)'
  BY DEF Registered

LEMMA AdmissionKeepsTypes ==
  ASSUME TypeInv, NEW h \in Request, StartStudent(h) \/ EnrollInsert(h) \/ StartOffer(h)
  PROVE  TypeInv'
<1> DEFINE r == req[h]
<1>1. /\ StudentsOK /\ PlacesOK /\ edits \in 0 .. MaxEdits /\ touched \subseteq Student
      /\ rooms \subseteq Classroom /\ RowsOK /\ Owned /\ ReqOK
      /\ enquiries \in [Enquiry -> {"absent", "new", "offered", "lost", "enrolled"}]
      /\ LocalOK(r) /\ r \in Locals
  BY TablesParts, HandlerNames DEF TypeInv
<1>2. CASE StartStudent(h)
  <2>1. PICK s \in Student :
          Registration(s) /\ Goto(h, [r EXCEPT !.pc = "enrollCheck", !.st = s])
    BY <1>2 DEF StartStudent
  <2>2. r.pc \in Starting /\ "enrollCheck" \in Starting
    BY <1>2 DEF StartStudent, At, Starting
  <2>3. ReqOK'
    BY <1>1, <2>1, <2>2, ResumeOK, LocalStep
  <2>4. "draft" \in StudentStatus \ {"absent"}
    BY DEF StudentStatus
  <2>5. StudentsOK' /\ \A t \in Student : Registered(t) => Registered(t)'
    BY <1>1, <2>1, <2>4, StatusStep DEF Registration
  <2>6. TablesOK' /\ UNCHANGED enrollments
    BY <1>1, <1>2, <2>5 DEF StartStudent, TablesOK, StudentsOK, PlacesOK
  <2>7. RowsOK' /\ \A e \in Enrollment : Live(e)' => Live(e)
                                         /\ enrollments'[e].st = enrollments[e].st
    BY <1>1, <2>6 DEF RowsOK, Live
  <2>8. Owned'
    BY <1>1, <2>5, <2>7, OwnedKept
  <2>9. QED BY <2>3, <2>6, <2>7, <2>8 DEF TypeInv
<1>3. CASE EnrollInsert(h)
  <2>1. UNCHANGED <<students, places, rooms, enquiries, edits, touched>>
    BY <1>3 DEF EnrollInsert
  <2>2. TablesOK'
    BY <1>1, <2>1 DEF TablesOK, StudentsOK, PlacesOK
  <2>3. RowsOK' /\ Owned'
    <3>1. CASE UNCHANGED enrollments
      BY <1>1, <2>1, <3>1 DEF RowsOK, Owned, Live, Registered
    <3>2. ASSUME NEW e \in Enrollment, NEW x, Wrote(e, x), Registered(x.st)
          PROVE  RowsOK' /\ Owned'
      BY <1>1, <2>1, <3>2 DEF Owned, Live, Registered, Wrote
    <3>3. QED BY <1>3, <3>1, <3>2, InsertWrites
  <2>4. ReqOK'
    <3> DEFINE x == [Idle EXCEPT !.pc = "startOffer", !.enq = r.enq]
    <3>1. \/ Goto(h, Idle)
          \/ r.offer /\ Goto(h, x)
      BY <1>3 DEF EnrollInsert
    <3>2. CASE Goto(h, Idle)
      BY <1>1, <3>2, IdleOK, LocalStep
    <3>3. CASE r.offer /\ Goto(h, x)
      <4>1. r.enq \in Enquiry
        BY <1>1, <1>3, <3>3 DEF LocalOK, EnrollInsert, At, Starting
      <4>2. Idle \in Locals /\ "startOffer" \in PC
        BY IdleOK, Pcs DEF LocalOK
      <4>3. x \in Locals /\ x.pc = "startOffer" /\ x.enq = r.enq
        BY <4>1, <4>2 DEF Locals
      <4>4. Goto(h, x)
        BY <3>3
      <4> HIDE DEF x
      <4>5. LocalOK(x)
        BY <4>1, <4>3, Pcs DEF LocalOK
      <4>6. QED BY <1>1, <4>4, <4>5, LocalStep
    <3>4. QED BY <3>1, <3>2, <3>3
  <2>5. QED BY <2>2, <2>3, <2>4 DEF TypeInv
<1>4. CASE StartOffer(h)
  <2>1. UNCHANGED <<students, enrollments, places, rooms, edits, touched>>
    BY <1>4 DEF StartOffer
  <2>2. enquiries' \in [Enquiry -> {"absent", "new", "offered", "lost", "enrolled"}]
    BY <1>1, <1>4 DEF StartOffer
  <2>3. TablesOK'
    BY <1>1, <2>1, <2>2 DEF TablesOK, StudentsOK, PlacesOK
  <2>4. RowsOK' /\ Owned'
    BY <1>1, <2>1 DEF RowsOK, Owned, Live, Registered
  <2>5. ReqOK'
    BY <1>1, <1>4, IdleOK, LocalStep DEF StartOffer
  <2>6. QED BY <2>3, <2>4, <2>5 DEF TypeInv
<1>5. QED BY <1>2, <1>3, <1>4

LEMMA WritesKeepTypes ==
  ASSUME TypeInv, NEW h \in Request,
         UpdateWrite(h) \/ DeleteWrite(h) \/ ConfirmCommit(h) \/ AssignCommit(h)
           \/ UnassignCommit(h)
  PROVE  TypeInv'
<1> DEFINE r == req[h]
           e == r.enr
<1>1. /\ StudentsOK /\ PlacesOK /\ edits \in 0 .. MaxEdits /\ touched \subseteq Student
      /\ rooms \subseteq Classroom /\ RowsOK /\ Owned /\ ReqOK
      /\ enquiries \in [Enquiry -> {"absent", "new", "offered", "lost", "enrolled"}]
      /\ LocalOK(r) /\ r \in Locals
  BY TablesParts, HandlerNames DEF TypeInv
<1>2. e \in Enrollment
  BY HandlerNames DEF UpdateWrite, DeleteWrite, ConfirmCommit, AssignCommit, UnassignCommit,
     At, OnEnrollment
<1>3. ReqOK' /\ UNCHANGED <<rooms, edits, touched>>
  BY <1>1, IdleOK, LocalStep DEF UpdateWrite, DeleteWrite, ConfirmCommit, AssignCommit,
     UnassignCommit
<1>4. ASSUME StudentsOK', PlacesOK', UNCHANGED enquiries PROVE TablesOK'
  BY <1>1, <1>3, <1>4 DEF TablesOK, StudentsOK, PlacesOK
<1>5. ASSUME UNCHANGED <<enrollments, students>> PROVE RowsOK' /\ Owned'
  BY <1>1, <1>5 DEF RowsOK, Owned, Live, Registered
<1>6. CASE UpdateWrite(h) \/ DeleteWrite(h)
  <2>1. UNCHANGED <<students, places, enquiries>>
    BY <1>6 DEF UpdateWrite, DeleteWrite
  <2>2. TablesOK'
    BY <1>1, <1>4, <2>1 DEF StudentsOK, PlacesOK
  <2>3. \/ UNCHANGED enrollments
        \/ \E x : Wrote(e, x) /\ (x.status = "absent" \/ (Live(e) /\ x.st = enrollments[e].st))
    BY <1>6, UpdateWrites, DeleteWrites, NoRowOK
  <2>4. RowsOK' /\ Owned'
    BY <1>2, <1>5, <2>1, <2>3, WroteLiving, StatusKept
  <2>5. QED BY <1>3, <2>2, <2>4 DEF TypeInv
<1>7. CASE ConfirmCommit(h)
  <2>1. r.st \in Student /\ r.room \in Classroom \cup {None}
    BY <1>1, <1>7, HandlerNames DEF ConfirmCommit, At, OnStudent, Locals
  <2>2. enquiries' \in [Enquiry -> {"absent", "new", "offered", "lost", "enrolled"}]
    BY <1>1, <1>7 DEF ConfirmCommit
  <2>3. CASE UNCHANGED <<enrollments, students, places, enquiries>>
    BY <1>1, <1>3, <1>4, <1>5, <2>3 DEF TypeInv, StudentsOK, PlacesOK
  <2>4. ASSUME NEW x, Live(e), Wrote(e, x), Place(r.st, r.room), x.st = enrollments[e].st
        PROVE  TypeInv'
    <3>1. StudentsOK' /\ PlacesOK' /\ \A t \in Student : Registered(t) => Registered(t)'
      BY <1>1, <2>1, <2>4, PlaceOK
    <3>2. RowsOK' /\ Owned'
      BY <1>2, <2>4, <3>1, WroteLiving
    <3>3. TablesOK'
      BY <1>1, <1>3, <2>2, <3>1 DEF TablesOK, StudentsOK, PlacesOK
    <3>4. QED BY <1>3, <3>2, <3>3 DEF TypeInv
  <2>5. QED BY <1>7, <2>3, <2>4, ConfirmWrites
<1>8. CASE AssignCommit(h)
  <2>1. r.room \in Classroom /\ UNCHANGED enquiries
    BY <1>8, HandlerNames DEF AssignCommit, At, OnRoom
  <2>2. CASE UNCHANGED <<enrollments, students, places>>
    BY <1>1, <1>3, <1>4, <1>5, <2>1, <2>2 DEF TypeInv, StudentsOK, PlacesOK
  <2>3. ASSUME NEW x, Live(e), RowOK(x), Wrote(e, x), x.st = enrollments[e].st, x.room = r.room,
               Place(x.st, x.room) \/ UNCHANGED <<students, places>>
        PROVE  TypeInv'
    <3>1. x.st \in Student /\ x.room \in Classroom \cup {None}
      BY <1>1, <1>2, <2>1, <2>3 DEF RowsOK, RowOK, Live
    <3>2. StudentsOK' /\ PlacesOK' /\ \A t \in Student : Registered(t) => Registered(t)'
      <4>1. CASE UNCHANGED <<students, places>>
        BY <1>1, <4>1, StatusKept DEF StudentsOK, PlacesOK
      <4>2. CASE Place(x.st, x.room)
        BY <1>1, <3>1, <4>2, PlaceOK
      <4>3. QED BY <2>3, <4>1, <4>2
    <3>3. RowsOK' /\ Owned'
      BY <1>2, <2>3, <3>2, WroteLiving
    <3>4. QED BY <1>3, <1>4, <2>1, <3>2, <3>3 DEF TypeInv
  <2>4. QED BY <1>8, <2>2, <2>3, AssignWrites
<1>9. CASE UnassignCommit(h)
  <2>1. UNCHANGED <<students, enquiries>> /\ places' = [places EXCEPT ![r.st] = Close(@, r.room)]
    BY <1>9 DEF UnassignCommit
  <2>2. PlacesOK' /\ StudentsOK'
    <3>1. [places EXCEPT ![r.st] = Close(@, r.room)] \in [Student -> [Classroom -> Nat]]
      BY <1>1, CloseOK
    <3>2. places' \in [Student -> [Classroom -> Nat]]
      BY <2>1, <3>1
    <3>3. QED BY <1>1, <2>1, <3>2 DEF PlacesOK, StudentsOK
  <2>3. UNCHANGED enrollments \/ \E x : Wrote(e, x) /\ Live(e) /\ x.st = enrollments[e].st
    BY <1>9, UnassignWrites
  <2>4. RowsOK' /\ Owned'
    BY <1>2, <1>5, <2>1, <2>3, WroteLiving, StatusKept
  <2>5. QED BY <1>3, <1>4, <2>1, <2>2, <2>4 DEF TypeInv
<1>10. QED BY <1>6, <1>7, <1>8, <1>9

LEMMA OlderOK ==
  ASSUME NEW s \in Student, NEW c \in Classroom \cup {None}, NEW status \in Given \cup {None},
         NEW pc \in {"olderStatus", "transferInsert"},
         pc = "olderStatus" => status \in Given, pc = "transferInsert" => c \in Classroom,
         NEW q, q \in Locals, q.pc = pc, q.st = s, q.room = c, q.status = status
  PROVE  LocalOK(q)
<1>1. pc \notin OnEnrollment /\ pc \notin Starting /\ pc # "startOffer" /\ pc # "updateWrite"
  BY DEF OnEnrollment, Starting
<1>2. pc \in OnRoom => pc = "transferInsert"
  BY DEF OnRoom
<1>3. QED BY <1>1, <1>2 DEF LocalOK

LEMMA OlderKeepsTypes ==
  ASSUME TypeInv, NEW h \in Request, Lifecycle(h)
  PROVE  TypeInv'
<1> DEFINE r == req[h]
<1>1. /\ StudentsOK /\ PlacesOK /\ edits \in 0 .. MaxEdits /\ touched \subseteq Student
      /\ rooms \subseteq Classroom /\ RowsOK /\ Owned /\ ReqOK
      /\ enquiries \in [Enquiry -> {"absent", "new", "offered", "lost", "enrolled"}]
      /\ LocalOK(r) /\ r \in Locals
      /\ Idle \in Locals /\ Idle.room = None /\ Idle.status = None
  BY TablesParts, HandlerNames, IdleOK DEF TypeInv, LocalOK, Idle
<1>2. UNCHANGED <<enrollments, rooms, enquiries>>
  BY DEF Lifecycle, OlderClose, OlderEnroll, TransferInsert, OlderStatus
<1>3. UNCHANGED students => RowsOK' /\ Owned'
  BY <1>1, <1>2 DEF RowsOK, Owned, Live, Registered
<1>4. {"olderStatus", "transferInsert"} \subseteq PC
  BY DEF PC, OnStudent
<1>5. Given \subseteq StudentStatus \ {"absent"} /\ {"enrolled", "withdrawn", "transferred"} = Given
  BY DEF Given, StudentStatus
<1>6. ASSUME NEW s \in Student, OlderClose(h, s) PROVE TypeInv'
  <2>1. UNCHANGED students /\ touched' \subseteq Student /\ edits' \in 0 .. MaxEdits
    BY <1>1, <1>6, EditOK DEF OlderClose
  <2>2. PlacesOK'
    BY <1>1, <1>6, ClosedOK DEF OlderClose, PlacesOK
  <2>3. TablesOK'
    BY <1>1, <1>2, <2>1, <2>2 DEF TablesOK, StudentsOK, PlacesOK
  <2>4. CASE Goto(h, [Idle EXCEPT !.pc = "olderStatus", !.st = s, !.status = "withdrawn"])
    <3> DEFINE x == [Idle EXCEPT !.pc = "olderStatus", !.st = s, !.status = "withdrawn"]
    <3>1. x \in Locals /\ x.pc = "olderStatus" /\ x.st = s /\ x.room = None
          /\ x.status = "withdrawn"
      BY <1>1, <1>4, <1>5 DEF Locals
    <3>2. Goto(h, x)
      BY <2>4
    <3> HIDE DEF x
    <3>3. LocalOK(x)
      BY <1>5, <3>1, OlderOK
    <3>4. ReqOK'
      BY <1>1, <3>2, <3>3, LocalStep
    <3>5. QED BY <1>3, <2>1, <2>3, <3>4 DEF TypeInv
  <2>5. ASSUME NEW c \in Classroom,
               Goto(h, [Idle EXCEPT !.pc = "transferInsert", !.st = s, !.room = c])
        PROVE  TypeInv'
    <3> DEFINE x == [Idle EXCEPT !.pc = "transferInsert", !.st = s, !.room = c]
    <3>1. x \in Locals /\ x.pc = "transferInsert" /\ x.st = s /\ x.room = c /\ x.status = None
      BY <1>1, <1>4 DEF Locals
    <3>2. Goto(h, x)
      BY <2>5
    <3> HIDE DEF x
    <3>3. LocalOK(x)
      BY <3>1, OlderOK
    <3>4. ReqOK'
      BY <1>1, <3>2, <3>3, LocalStep
    <3>5. QED BY <1>3, <2>1, <2>3, <3>4 DEF TypeInv
  <2>6. QED BY <1>6, <2>4, <2>5 DEF OlderClose
<1>7. ASSUME NEW s \in Student, NEW c \in Classroom, OlderEnroll(h, s, c) PROVE TypeInv'
  <2>1. UNCHANGED students /\ touched' \subseteq Student /\ edits' \in 0 .. MaxEdits
    BY <1>1, <1>7, EditOK DEF OlderEnroll
  <2>2. PlacesOK'
    <3> DEFINE n == places[s][c] + 1
    <3>1. n \in Nat /\ places' = [places EXCEPT ![s][c] = n]
      BY <1>1, <1>7 DEF OlderEnroll, PlacesOK
    <3> HIDE DEF n
    <3>2. QED BY <1>1, <3>1 DEF PlacesOK
  <2>3. TablesOK'
    BY <1>1, <1>2, <2>1, <2>2 DEF TablesOK, StudentsOK, PlacesOK
  <2> DEFINE x == [Idle EXCEPT !.pc = "olderStatus", !.st = s, !.status = "enrolled"]
  <2>4. x \in Locals /\ x.pc = "olderStatus" /\ x.st = s /\ x.room = None
        /\ x.status = "enrolled"
    BY <1>1, <1>4, <1>5 DEF Locals
  <2>5. Goto(h, x)
    BY <1>7 DEF OlderEnroll
  <2> HIDE DEF x
  <2>6. LocalOK(x)
    BY <1>5, <2>4, OlderOK
  <2>7. ReqOK'
    BY <1>1, <2>5, <2>6, LocalStep
  <2>8. QED BY <1>3, <2>1, <2>3, <2>7 DEF TypeInv
<1>8. CASE TransferInsert(h)
  <2> DEFINE s == r.st
             c == r.room
             n == places[s][c] + 1
             x == [Idle EXCEPT !.pc = "olderStatus", !.st = s, !.status = "transferred"]
  <2>1. s \in Student /\ c \in Classroom
    BY <1>1, <1>8 DEF TransferInsert, At, LocalOK, OnStudent, OnRoom
  <2>2. UNCHANGED <<students, edits, touched>>
    BY <1>8 DEF TransferInsert
  <2>3. \/ UNCHANGED places /\ Goto(h, Idle)
        \/ places' = [places EXCEPT ![s][c] = n] /\ Goto(h, x)
    BY <1>8 DEF TransferInsert
  <2>4. n \in Nat
    BY <1>1, <2>1 DEF PlacesOK
  <2>5. x \in Locals /\ x.pc = "olderStatus" /\ x.st = s /\ x.room = None
        /\ x.status = "transferred"
    BY <1>1, <1>4, <1>5, <2>1 DEF Locals
  <2> HIDE DEF n, x
  <2>6. LocalOK(x)
    BY <1>5, <2>1, <2>5, OlderOK
  <2>7. PlacesOK'
    BY <1>1, <2>3, <2>4 DEF PlacesOK
  <2>8. ReqOK'
    BY <1>1, <2>3, <2>6, IdleOK, LocalStep
  <2>9. TablesOK'
    BY <1>1, <1>2, <2>2, <2>7 DEF TablesOK, StudentsOK, PlacesOK
  <2>10. QED BY <1>3, <2>2, <2>8, <2>9 DEF TypeInv
<1>9. CASE OlderStatus(h)
  <2> DEFINE s == r.st
             status == r.status
  <2>1. s \in Student /\ status \in StudentStatus \ {"absent"}
    BY <1>1, <1>5, <1>9 DEF OlderStatus, At, LocalOK, OnStudent
  <2>2. UNCHANGED <<places, edits, touched>>
    BY <1>9 DEF OlderStatus
  <2>3. students' = students \/ students' = [students EXCEPT ![s] = status]
    BY <1>9 DEF OlderStatus
  <2>4. ReqOK'
    BY <1>1, <1>9, IdleOK, LocalStep DEF OlderStatus
  <2>5. StudentsOK' /\ \A t \in Student : Registered(t) => Registered(t)'
    <3> HIDE DEF s, status
    <3>1. CASE UNCHANGED students
      BY <1>1, <3>1, StatusKept DEF StudentsOK
    <3>2. CASE students' = [students EXCEPT ![s] = status]
      BY <1>1, <2>1, <3>2, StatusStep
    <3>3. QED BY <2>3, <3>1, <3>2
  <2>6. TablesOK'
    BY <1>1, <1>2, <2>2, <2>5 DEF TablesOK, StudentsOK, PlacesOK
  <2>7. RowsOK' /\ \A e \in Enrollment : Live(e)' => Live(e)
                                         /\ enrollments'[e].st = enrollments[e].st
    BY <1>1, <1>2 DEF RowsOK, Live
  <2>8. Owned'
    BY <1>1, <2>5, <2>7, OwnedKept
  <2>9. QED BY <2>4, <2>6, <2>7, <2>8 DEF TypeInv
<1>10. QED BY <1>6, <1>7, <1>8, <1>9 DEF Lifecycle

LEMMA TypeInvInductive ==
  ASSUME TypeInv, [Next]_vars
  PROVE  TypeInv'
<1>1. TablesOK /\ RowsOK /\ Owned /\ ReqOK /\ edits \in 0 .. MaxEdits
  BY DEF TypeInv, TablesOK
<1>2. CASE UNCHANGED vars
  BY <1>1, <1>2, Frame DEF vars, TypeInv, ReqOK
<1>3. ASSUME NEW h \in Request, Reads(h) PROVE TypeInv'
  BY <1>1, <1>3, ReadsAreReads, ReadsKeepLocals, LocalStep, Frame DEF TypeInv
<1>4. ASSUME NEW h \in Request, Fail(h) PROVE TypeInv'
  BY <1>1, <1>4, IdleOK, LocalStep, Frame DEF TypeInv, Fail
<1>5. ASSUME NEW h \in Request, Admit(h) PROVE TypeInv'
  BY <1>3, <1>5, AdmissionKeepsTypes DEF Admit, Reads
<1>6. ASSUME NEW h \in Request, Enrolling(h) PROVE TypeInv'
  BY <1>3, <1>6, WritesKeepTypes DEF Enrolling, Reads
<1>7. ASSUME NEW h \in Request,
             Admit(h) \/ Enrolling(h) \/ Lifecycle(h) \/ Refuse(h) \/ Fail(h)
      PROVE  TypeInv'
  BY <1>2, <1>4, <1>5, <1>6, <1>7, OlderKeepsTypes DEF Refuse
<1>8. QED BY <1>2, <1>7, OthersKeepTypes DEF Next

LEMMA TypeInvInitially ==
  ASSUME Init
  PROVE  TypeInv
<1>1. ReqOK
  BY IdleOK DEF Init, ReqOK, LocalOK
<1>2. RowsOK /\ Owned
  BY NoRowOK DEF Init, RowsOK, RowOK, Owned, Live
<1>3. TablesOK
  BY ClosedOK, RowAssumption DEF Init, TablesOK, StudentStatus
<1>4. QED BY <1>1, <1>2, <1>3 DEF TypeInv

(* Every row of students, enrollments, places and enquiries, and all that  *)
(* a handler has read, is of its type, however handlers interleave or      *)
(* stop.                                                                   *)
THEOREM TypeCorrect == Spec => []TypeOK
<1>1. Init => TypeInv
  BY TypeInvInitially
<1>2. TypeInv /\ [Next]_vars => TypeInv'
  BY TypeInvInductive
<1>3. QED BY <1>1, <1>2, TypeInvImpliesTypeOK, PTL DEF Spec

-----------------------------------------------------------------------------
(* The promises of the ceremony, when no two handlers overlap.             *)

OneAtATime == \A g, h \in Request : g = h

(* Two enrollments startEnrollment made of one enquiry are one.            *)
EnquiriesOnce ==
  \A d, e \in Enrollment :
    /\ enrollments[d].started /\ enrollments[e].started
    /\ enrollments[d].enq # None /\ enrollments[e].enq = enrollments[d].enq
    => d = e

Approved(e) == enrollments[e].status = "approved"

(* Where an untouched student is, is one place, named by an approved row.  *)
Placed ==
  /\ \A s \in Untouched, c \in Classroom :
       /\ places[s][c] <= 1
       /\ \A d \in Classroom : places[s][c] > 0 /\ places[s][d] > 0 => c = d
  /\ PlaceIsEnrolled

(* What a handler has established until it writes.                         *)
AloneLocal(q) ==
  /\ q.pc \in Starting /\ q.start /\ q.enq # None =>
       \A e \in Enrollment : enrollments[e].enq # q.enq
  /\ q.pc = "updateWrite" => ~ enrollments[q.enr].invoiced
  /\ q.pc \in {"confirmCommit", "unassignCommit"} =>
       q.st = enrollments[q.enr].st /\ q.room = enrollments[q.enr].room
  /\ q.pc \in {"transferInsert", "olderStatus"} => q.st \in touched

AloneInv ==
  /\ EnquiriesOnce /\ Placed /\ StatusFollowsEnrollment
  /\ \A h \in Request : AloneLocal(req[h])

LEMMA IdleAlone ==
  ASSUME NEW q, q.pc \in {"idle", "startOffer"}
  PROVE  AloneLocal(q)
<1>1. q.pc \notin Starting
  BY DEF Starting
<1>2. QED BY <1>1 DEF AloneLocal

LEMMA AloneLocals ==
  ASSUME OneAtATime, TypeInv, NEW h \in Request, NEW q, Goto(h, q), AloneLocal(q)'
  PROVE  (\A g \in Request : AloneLocal(req[g]))'
<1>1. req'[h] = q
  BY DEF Goto, TypeInv, ReqOK
<1>2. ASSUME NEW g \in Request PROVE AloneLocal(req[g])'
  <2>1. g = h
    BY DEF OneAtATime
  <2>2. QED BY <1>1, <2>1 DEF AloneLocal
<1>3. QED BY <1>2

(* What is read is what is there.                                          *)
LEMMA ReadsAlone ==
  ASSUME TypeInv, NEW h \in Request, AloneLocal(req[h]), Reads(h)
  PROVE  \E q : Goto(h, q) /\ AloneLocal(q)
<1> DEFINE r == req[h]
<1>1. Idle \in Locals /\ Idle.start = FALSE /\ Idle.pc = "idle"
  BY IdleOK DEF LocalOK, Idle
<1>2. ASSUME NEW q \in Enquiry, StartRead(h, q)
      PROVE  \E x : Goto(h, x) /\ AloneLocal(x)
  <2>1. PICK c, offer :
          Goto(h, [Idle EXCEPT !.pc = "startStudent", !.enq = q, !.room = c, !.start = TRUE,
                               !.offer = offer])
    BY <1>2 DEF StartRead
  <2> DEFINE x == [Idle EXCEPT !.pc = "startStudent", !.enq = q, !.room = c, !.start = TRUE,
                               !.offer = offer]
  <2>2. x.pc = "startStudent" /\ x.enq = q
    BY <1>1 DEF Locals
  <2>3. Goto(h, x)
    BY <2>1
  <2> HIDE DEF x
  <2>4. AloneLocal(x)
    BY <1>2, <2>2 DEF AloneLocal, StartRead
  <2>5. QED BY <2>3, <2>4
<1>3. ASSUME EnrollCheck(h) PROVE \E x : Goto(h, x) /\ AloneLocal(x)
  <2> DEFINE x == [r EXCEPT !.pc = "enrollInsert"]
  <2>1. r.pc \in Starting /\ r \in Locals
    BY <1>3, HandlerNames DEF EnrollCheck, At, Starting
  <2>2. x.pc = "enrollInsert" /\ x.enq = r.enq /\ x.start = r.start
    BY <2>1 DEF Locals
  <2>3. Goto(h, Idle) \/ Goto(h, x)
    BY <1>3 DEF EnrollCheck
  <2> HIDE DEF x
  <2>4. AloneLocal(x)
    BY <2>1, <2>2 DEF AloneLocal
  <2>5. QED BY <1>1, <2>3, <2>4, IdleAlone
<1>4. ASSUME NEW s \in Student, NEW c \in Classroom \cup {None},
             NEW q \in Enquiry \cup {None}, EnrollRead(h, s, c, q)
      PROVE  \E x : Goto(h, x) /\ AloneLocal(x)
  <2> DEFINE x == [Idle EXCEPT !.pc = "enrollInsert", !.st = s, !.room = c, !.enq = q]
  <2>1. x.pc = "enrollInsert" /\ x.start = FALSE
    BY <1>1 DEF Locals
  <2>2. Goto(h, x)
    BY <1>4 DEF EnrollRead
  <2> HIDE DEF x
  <2>3. AloneLocal(x)
    BY <2>1 DEF AloneLocal
  <2>4. QED BY <2>2, <2>3
<1>5. ASSUME NEW e \in Enrollment, DeleteRead(h, e) PROVE \E x : Goto(h, x) /\ AloneLocal(x)
  <2> DEFINE x == [Idle EXCEPT !.pc = "deleteWrite", !.enr = e]
  <2>1. x.pc = "deleteWrite"
    BY <1>1 DEF Locals
  <2>2. Goto(h, x)
    BY <1>5 DEF DeleteRead
  <2> HIDE DEF x
  <2>3. AloneLocal(x)
    BY <2>1 DEF AloneLocal, Starting
  <2>4. QED BY <2>2, <2>3
<1>6. ASSUME NEW e \in Enrollment, ConfirmRead(h, e) PROVE \E x : Goto(h, x) /\ AloneLocal(x)
  <2> DEFINE s == enrollments[e].st
             c == enrollments[e].room
             q == enrollments[e].enq
             x == [Idle EXCEPT !.pc = "confirmCommit", !.enr = e, !.st = s, !.room = c,
                               !.enq = q]
  <2>1. x.pc = "confirmCommit" /\ x.enr = e /\ x.st = s /\ x.room = c
    BY <1>1 DEF Locals
  <2>2. Goto(h, x)
    BY <1>6 DEF ConfirmRead
  <2> HIDE DEF x
  <2>3. AloneLocal(x)
    BY <2>1 DEF AloneLocal, Starting
  <2>4. QED BY <2>2, <2>3
<1>7. ASSUME NEW e \in Enrollment, UnassignRead(h, e) PROVE \E x : Goto(h, x) /\ AloneLocal(x)
  <2> DEFINE s == enrollments[e].st
             c == enrollments[e].room
             x == [Idle EXCEPT !.pc = "unassignCommit", !.enr = e, !.st = s, !.room = c]
  <2>1. x.pc = "unassignCommit" /\ x.enr = e /\ x.st = s /\ x.room = c
    BY <1>1 DEF Locals
  <2>2. Goto(h, x)
    BY <1>7 DEF UnassignRead
  <2> HIDE DEF x
  <2>3. AloneLocal(x)
    BY <2>1 DEF AloneLocal, Starting
  <2>4. QED BY <2>2, <2>3
<1>8. ASSUME NEW e \in Enrollment, NEW c \in Classroom, AssignRead(h, e, c)
      PROVE  \E x : Goto(h, x) /\ AloneLocal(x)
  <2> DEFINE x == [Idle EXCEPT !.pc = "assignCommit", !.enr = e, !.room = c]
  <2>1. x.pc = "assignCommit"
    BY <1>1 DEF Locals
  <2>2. Goto(h, x)
    BY <1>8 DEF AssignRead
  <2> HIDE DEF x
  <2>3. AloneLocal(x)
    BY <2>1 DEF AloneLocal, Starting
  <2>4. QED BY <2>2, <2>3
<1>9. ASSUME NEW e \in Enrollment, NEW status \in Statuses \cup {None}, UpdateRead(h, e, status)
      PROVE  \E x : Goto(h, x) /\ AloneLocal(x)
  <2>1. PICK room, moves :
          Goto(h, [Idle EXCEPT !.pc = "updateWrite", !.enr = e, !.status = status,
                               !.moves = moves, !.room = room])
    BY <1>9 DEF UpdateRead
  <2> DEFINE x == [Idle EXCEPT !.pc = "updateWrite", !.enr = e, !.status = status,
                               !.moves = moves, !.room = room]
  <2>2. x.pc = "updateWrite" /\ x.enr = e
    BY <1>1 DEF Locals
  <2>3. Goto(h, x)
    BY <2>1
  <2> HIDE DEF x
  <2>4. AloneLocal(x)
    BY <1>9, <2>2 DEF AloneLocal, Starting, UpdateRead
  <2>5. QED BY <2>3, <2>4
<1>10. QED BY <1>2, <1>3, <1>4, <1>5, <1>6, <1>7, <1>8, <1>9 DEF Reads

(* Where nobody is moved in, nobody is in two places.                      *)
LEMMA PlacesKept ==
  ASSUME TypeInv, Placed, touched \subseteq touched',
         \A s \in Student \ touched', c \in Classroom :
           places'[s][c] \in Nat /\ places'[s][c] <= places[s][c],
         \A s \in Student \ touched', c \in Classroom, e \in Enrollment :
           /\ places'[s][c] > 0 /\ Approved(e)
           /\ enrollments[e].st = s /\ enrollments[e].room = c
           => /\ Approved(e)'
              /\ enrollments'[e].st = s /\ enrollments'[e].room = c
  PROVE  Placed'
<1>1. \A s \in Student \ touched', c \in Classroom : places[s][c] \in Nat
  BY DEF TypeInv, TablesOK
<1>2. ASSUME NEW s \in Student \ touched', NEW c \in Classroom
      PROVE  /\ places'[s][c] <= 1
             /\ \A d \in Classroom : places'[s][c] > 0 /\ places'[s][d] > 0 => c = d
  BY <1>1, <1>2 DEF Placed, Untouched
<1>3. ASSUME NEW s \in Student \ touched', NEW c \in Classroom, places'[s][c] > 0
      PROVE  \E e \in Enrollment : /\ enrollments'[e].st = s /\ enrollments'[e].room = c
                                   /\ enrollments'[e].status = "approved"
  <2>1. places[s][c] > 0 /\ s \in Untouched
    BY <1>1, <1>3 DEF Untouched
  <2>2. PICK e \in Enrollment : /\ enrollments[e].st = s /\ enrollments[e].room = c
                                /\ Approved(e)
    BY <2>1 DEF Placed, PlaceIsEnrolled, Approved
  <2>3. QED BY <1>3, <2>2 DEF Approved
<1>4. QED BY <1>2, <1>3 DEF Placed, PlaceIsEnrolled, Untouched

LEMMA SyncedIs ==
  ASSUME TypeInv, NEW s \in Student, NEW c \in Classroom
  PROVE  /\ \A t \in Student \ {s} : Synced(s, c)[t] = places[t]
         /\ \A d \in Classroom : Synced(s, c)[s][d] =
              IF d = c THEN IF places[s][c] = 0 THEN 1 ELSE places[s][c] ELSE 0
  BY DEF TypeInv, TablesOK, Synced, Closed

(* Placing a student where an approved enrollment says.                    *)
LEMMA PlacedBySync ==
  ASSUME TypeInv, Placed, NEW e \in Enrollment, NEW x, RowOK(x), Wrote(e, x),
         x.st = enrollments[e].st, x.st \in Student, x.status = "approved",
         x.room \in Classroom, places' = Synced(x.st, x.room), UNCHANGED touched
  PROVE  Placed'
<1> DEFINE s == x.st
           c == x.room
<1>1. /\ \A t \in Student \ {s} : places'[t] = places[t]
      /\ \A d \in Classroom : places'[s][d] =
           IF d = c THEN IF places[s][c] = 0 THEN 1 ELSE places[s][c] ELSE 0
      /\ places[s][c] \in Nat
  BY SyncedIs DEF TypeInv, TablesOK
<1>2. ASSUME NEW t \in Untouched, t # s
      PROVE  /\ \A d \in Classroom :
                  /\ places'[t][d] <= 1
                  /\ \A b \in Classroom : places'[t][d] > 0 /\ places'[t][b] > 0 => d = b
             /\ \A d \in Classroom : places'[t][d] > 0 =>
                  \E f \in Enrollment : /\ enrollments'[f].st = t /\ enrollments'[f].room = d
                                        /\ enrollments'[f].status = "approved"
  <2>1. places'[t] = places[t]
    BY <1>1, <1>2 DEF Untouched
  <2>2. \A f \in Enrollment : enrollments[f].st = t => enrollments'[f] = enrollments[f]
    BY <1>2 DEF Wrote
  <2>3. \A d \in Classroom : places[t][d] > 0 =>
          \E f \in Enrollment : /\ enrollments[f].st = t /\ enrollments[f].room = d
                                /\ enrollments[f].status = "approved"
    BY <1>2 DEF Placed, PlaceIsEnrolled
  <2>4. QED BY <1>2, <2>1, <2>2, <2>3 DEF Placed
<1>3. ASSUME s \in Untouched
      PROVE  /\ \A d \in Classroom :
                  /\ places'[s][d] <= 1
                  /\ \A b \in Classroom : places'[s][d] > 0 /\ places'[s][b] > 0 => d = b
             /\ \A d \in Classroom : places'[s][d] > 0 =>
                  \E f \in Enrollment : /\ enrollments'[f].st = s /\ enrollments'[f].room = d
                                        /\ enrollments'[f].status = "approved"
  <2>1. places[s][c] <= 1
    BY <1>3 DEF Placed
  <2>2. \A d \in Classroom : /\ places'[s][d] <= 1
                             /\ places'[s][d] > 0 => d = c
    BY <1>1, <2>1
  <2>3. enrollments'[e].st = s /\ enrollments'[e].room = c
        /\ enrollments'[e].status = "approved"
    BY DEF Wrote
  <2>4. QED BY <2>2, <2>3
<1>4. Untouched' = Untouched
  BY DEF Untouched
<1>5. QED BY <1>2, <1>3, <1>4 DEF Placed, PlaceIsEnrolled

(* Where neither an approved row nor its student changes.                  *)
LEMMA StatusesKept ==
  ASSUME TypeInv, StatusFollowsEnrollment, touched \subseteq touched',
         \A e \in Enrollment :
           /\ Approved(e)' /\ ~ enrollments'[e].cancelled
           /\ enrollments'[e].room # None /\ enrollments'[e].st \in Student \ touched'
           => /\ Approved(e) /\ ~ enrollments[e].cancelled
              /\ enrollments[e].room # None /\ enrollments[e].st = enrollments'[e].st
              /\ students'[enrollments'[e].st] = students[enrollments'[e].st]
  PROVE  StatusFollowsEnrollment'
<1>1. ASSUME NEW e \in Enrollment,
             /\ enrollments'[e].status = "approved" /\ ~ enrollments'[e].cancelled
             /\ enrollments'[e].room # None /\ enrollments'[e].st \in Student \ touched'
      PROVE  students'[enrollments'[e].st] = "enrolled"
  <2>1. /\ Approved(e) /\ ~ enrollments[e].cancelled
        /\ enrollments[e].room # None /\ enrollments[e].st = enrollments'[e].st
        /\ students'[enrollments'[e].st] = students[enrollments'[e].st]
    BY <1>1 DEF Approved
  <2>2. enrollments[e].st \in Untouched
    BY <1>1, <2>1 DEF Untouched
  <2>3. QED BY <2>1, <2>2 DEF StatusFollowsEnrollment, Approved
<1>2. QED BY <1>1 DEF StatusFollowsEnrollment, Untouched

LEMMA StatusesBySync ==
  ASSUME TypeInv, StatusFollowsEnrollment, NEW e \in Enrollment, NEW x, Wrote(e, x),
         x.st = enrollments[e].st, x.st \in Student,
         students' = [students EXCEPT ![x.st] = "enrolled"], UNCHANGED touched
  PROVE  StatusFollowsEnrollment'
<1>1. students'[x.st] = "enrolled" /\ \A t \in Student \ {x.st} : students'[t] = students[t]
  BY DEF TypeInv, TablesOK
<1>2. ASSUME NEW d \in Enrollment,
             /\ enrollments'[d].status = "approved" /\ ~ enrollments'[d].cancelled
             /\ enrollments'[d].room # None /\ enrollments'[d].st \in Untouched
      PROVE  students'[enrollments'[d].st] = "enrolled"
  <2>1. CASE enrollments'[d].st = x.st
    BY <1>1, <2>1
  <2>2. CASE enrollments'[d].st # x.st
    <3>1. enrollments'[d] = enrollments[d]
      BY <2>2 DEF Wrote
    <3>2. students[enrollments[d].st] = "enrolled"
      BY <1>2, <3>1 DEF StatusFollowsEnrollment
    <3>3. QED BY <1>1, <1>2, <2>2, <3>1, <3>2 DEF Untouched
  <2>3. QED BY <2>1, <2>2
<1>3. Untouched' = Untouched
  BY DEF Untouched
<1>4. QED BY <1>2, <1>3 DEF StatusFollowsEnrollment

Promises == EnquiriesOnce /\ Placed /\ StatusFollowsEnrollment

LEMMA EnquiriesKept ==
  ASSUME EnquiriesOnce,
         \A e \in Enrollment :
           enrollments'[e].started =>
             enrollments[e].started /\ enrollments'[e].enq = enrollments[e].enq
  PROVE  EnquiriesOnce'
  BY DEF EnquiriesOnce

(* Steps that write no enrollment, and nothing else of a student who stays *)
(* untouched but a registration.                                           *)
LEMMA PromisesKept ==
  ASSUME TypeInv, TypeInv', Promises, UNCHANGED enrollments, touched \subseteq touched',
         \A s \in Student \ touched' :
           places'[s] = places[s] /\ (Registered(s) => students'[s] = students[s])
  PROVE  Promises'
<1>1. EnquiriesOnce'
  BY EnquiriesKept DEF Promises
<1>2. Placed'
  <2>1. \A s \in Student \ touched', c \in Classroom :
          places'[s][c] \in Nat /\ places'[s][c] <= places[s][c]
    BY DEF TypeInv, TablesOK
  <2>2. QED BY <2>1, PlacesKept DEF Promises, Approved
<1>3. StatusFollowsEnrollment'
  <2>1. \A e \in Enrollment : Approved(e) => Registered(enrollments[e].st)
    BY DEF TypeInv, Owned, Live, Approved
  <2>2. QED BY <2>1, StatusesKept DEF Promises, Approved
<1>4. QED BY <1>1, <1>2, <1>3 DEF Promises

(* A write to a row that is not approved and is not approved by it.        *)
LEMMA PlainWrite ==
  ASSUME TypeInv, TypeInv', EnquiriesOnce', Promises, NEW e \in Enrollment, NEW x,
         Wrote(e, x), ~ Approved(e), x.status # "approved",
         UNCHANGED <<places, students, touched>>
  PROVE  Promises'
<1>1. \A d \in Enrollment : \/ enrollments'[d] = enrollments[d]
                            \/ ~ Approved(d) /\ ~ Approved(d)'
  BY DEF Wrote, Approved
<1>2. Placed'
  <2>1. \A s \in Student \ touched', c \in Classroom :
          places'[s][c] \in Nat /\ places'[s][c] <= places[s][c]
    BY DEF TypeInv, TablesOK
  <2>2. QED BY <1>1, <2>1, PlacesKept DEF Promises, Approved
<1>3. StatusFollowsEnrollment'
  BY <1>1, StatusesKept DEF Promises, Approved
<1>4. QED BY <1>2, <1>3 DEF Promises

LEMMA UninvoicedIsOpen ==
  ASSUME TypeInv, NEW e \in Enrollment, ~ enrollments[e].invoiced
  PROVE  ~ Approved(e)
  BY DEF TypeInv, RowsOK, RowOK, Approved

LEMMA InsertKeepsPromises ==
  ASSUME TypeInv, TypeInv', Promises, NEW h \in Request, AloneLocal(req[h]), EnrollInsert(h)
  PROVE  Promises'
<1>1. UNCHANGED <<students, places, touched>> /\ req[h].pc \in Starting
  BY DEF EnrollInsert, At, Starting
<1>2. CASE UNCHANGED enrollments
  BY <1>1, <1>2, PromisesKept
<1>3. ASSUME NEW e \in Enrollment, NEW x, enrollments[e] = NoRow, Wrote(e, x),
             x.enq = req[h].enq, x.started = req[h].start, x.status = "draft", ~ x.invoiced
      PROVE  Promises'
  <2>1. x.started /\ x.enq # None => \A d \in Enrollment : enrollments[d].enq # x.enq
    BY <1>1, <1>3 DEF AloneLocal
  <2>2. EnquiriesOnce'
    BY <1>3, <2>1 DEF EnquiriesOnce, Promises, Wrote
  <2>3. ~ Approved(e)
    BY <1>3, NoRowOK DEF Approved
  <2>4. QED BY <1>1, <1>3, <2>2, <2>3, PlainWrite
<1>4. QED BY <1>2, <1>3, InsertWrites

LEMMA UpdateKeepsPromises ==
  ASSUME TypeInv, TypeInv', Promises, NEW h \in Request, AloneLocal(req[h]),
         UpdateWrite(h) \/ DeleteWrite(h)
  PROVE  Promises'
<1> DEFINE e == req[h].enr
<1>1. e \in Enrollment
  BY HandlerNames DEF UpdateWrite, DeleteWrite, At, OnEnrollment
<1>2. UNCHANGED <<students, places, touched>>
  BY DEF UpdateWrite, DeleteWrite
<1>3. CASE UNCHANGED enrollments
  BY <1>2, <1>3, PromisesKept
<1>4. ASSUME NEW x, Wrote(e, x), ~ Approved(e), x.status # "approved",
             x.started => enrollments[e].started /\ x.enq = enrollments[e].enq
      PROVE  Promises'
  <2>1. EnquiriesOnce'
    BY <1>4, EnquiriesKept DEF Promises, Wrote
  <2>2. QED BY <1>1, <1>2, <1>4, <2>1, PlainWrite
<1>5. CASE UpdateWrite(h)
  <2>1. ~ enrollments[e].invoiced
    BY <1>5 DEF UpdateWrite, At, AloneLocal
  <2>2. ASSUME NEW x, RowOK(x), Wrote(e, x), x.invoiced = enrollments[e].invoiced,
               x.enq = enrollments[e].enq, x.started = enrollments[e].started
        PROVE  Promises'
    <3>1. x.status # "approved"
      BY <2>1, <2>2 DEF RowOK
    <3>2. QED BY <1>1, <1>4, <2>1, <2>2, <3>1, UninvoicedIsOpen
  <2>3. QED BY <1>3, <1>5, <2>2, UpdateWrites
<1>6. CASE DeleteWrite(h)
  <2>1. ASSUME ~ enrollments[e].invoiced, Wrote(e, NoRow) PROVE Promises'
    BY <1>1, <1>4, <2>1, NoRowOK, UninvoicedIsOpen
  <2>2. QED BY <1>3, <1>6, <2>1, DeleteWrites
<1>7. QED BY <1>5, <1>6

LEMMA PlacingKeepsPromises ==
  ASSUME TypeInv, TypeInv', Promises, NEW e \in Enrollment, NEW x, RowOK(x), Wrote(e, x),
         x.st = enrollments[e].st, x.st \in Student, x.enq = enrollments[e].enq,
         x.started = enrollments[e].started,
         x.status = "approved", x.room \in Classroom, Place(x.st, x.room), UNCHANGED touched
  PROVE  Promises'
<1>1. x.room # None
  BY RowAssumption
<1>2. places' = Synced(x.st, x.room) /\ students' = [students EXCEPT ![x.st] = "enrolled"]
  BY <1>1 DEF Place
<1>3. EnquiriesOnce'
  BY EnquiriesKept DEF Promises, Wrote
<1>4. Placed' /\ StatusFollowsEnrollment'
  BY <1>2, PlacedBySync, StatusesBySync DEF Promises
<1>5. QED BY <1>3, <1>4 DEF Promises

LEMMA ConfirmKeepsPromises ==
  ASSUME TypeInv, TypeInv', Promises, NEW h \in Request, AloneLocal(req[h]), ConfirmCommit(h)
  PROVE  Promises'
<1> DEFINE e == req[h].enr
<1>1. /\ e \in Enrollment /\ UNCHANGED touched
      /\ req[h].st = enrollments[e].st /\ req[h].room = enrollments[e].room
      /\ req[h].st \in Student
  BY HandlerNames DEF ConfirmCommit, At, OnEnrollment, OnStudent, AloneLocal
<1>2. CASE UNCHANGED <<enrollments, students, places, enquiries>>
  BY <1>1, <1>2, PromisesKept
<1>3. ASSUME NEW x, RowOK(x), Wrote(e, x), Place(req[h].st, req[h].room),
             x.st = enrollments[e].st, x.enq = enrollments[e].enq,
         x.started = enrollments[e].started,
             x.room = enrollments[e].room, x.status = "approved"
      PROVE  Promises'
  <2>1. x.st \in Student /\ x.room \in Classroom \cup {None} /\ Place(x.st, x.room)
    BY <1>1, <1>3 DEF RowOK, RowType
  <2>2. CASE x.room \in Classroom
    BY <1>1, <1>3, <2>1, <2>2, PlacingKeepsPromises
  <2>3. CASE x.room = None
    <3>1. UNCHANGED <<places, students>>
      BY <2>1, <2>3 DEF Place
    <3>2. EnquiriesOnce'
      BY <1>3, EnquiriesKept DEF Promises, Wrote
    <3>3. \A d \in Enrollment : \/ enrollments'[d] = enrollments[d]
                                \/ /\ enrollments'[d].room = None
                                   /\ enrollments[d].room = None
      BY <1>3, <2>3 DEF Wrote
    <3>4. \A s \in Student \ touched', c \in Classroom :
            /\ places'[s][c] \in Nat /\ places'[s][c] <= places[s][c] /\ c # None
      BY <3>1, RowAssumption DEF TypeInv, TablesOK
    <3>5. Placed'
      BY <1>1, <3>3, <3>4, PlacesKept DEF Promises, Approved
    <3>6. StatusFollowsEnrollment'
      BY <1>1, <3>1, <3>3, StatusesKept DEF Promises, Approved
    <3>7. QED BY <3>2, <3>5, <3>6 DEF Promises
  <2>4. QED BY <2>1, <2>2, <2>3
<1>4. QED BY <1>2, <1>3, ConfirmWrites

LEMMA AssignKeepsPromises ==
  ASSUME TypeInv, TypeInv', Promises, NEW h \in Request, AssignCommit(h)
  PROVE  Promises'
<1> DEFINE e == req[h].enr
<1>1. e \in Enrollment /\ req[h].room \in Classroom /\ UNCHANGED touched
  BY HandlerNames DEF AssignCommit, At, OnEnrollment, OnRoom
<1>2. CASE UNCHANGED <<enrollments, students, places>>
  BY <1>1, <1>2, PromisesKept
<1>3. ASSUME NEW x, Live(e), RowOK(x), Wrote(e, x),
             x.st = enrollments[e].st, x.enq = enrollments[e].enq,
         x.started = enrollments[e].started,
             x.status = enrollments[e].status, x.room = req[h].room,
             Approved(e) => Place(x.st, x.room),
             ~ Approved(e) => UNCHANGED <<students, places>>
      PROVE  Promises'
  <2>1. x.st \in Student
    BY <1>3 DEF RowOK, Live
  <2>2. CASE Approved(e)
    BY <1>1, <1>3, <2>1, <2>2, PlacingKeepsPromises DEF Approved
  <2>3. CASE ~ Approved(e)
    <3>1. EnquiriesOnce'
      BY <1>3, EnquiriesKept DEF Promises, Wrote
    <3>2. QED BY <1>1, <1>3, <2>3, <3>1, PlainWrite DEF Approved
  <2>4. QED BY <2>2, <2>3
<1>4. QED BY <1>2, <1>3, AssignWrites DEF Approved

(* Closing a classroom of a student empties it and nothing else.           *)
LEMMA ClosedIs ==
  ASSUME TypeInv, NEW s \in Student, NEW c \in Classroom,
         places' = [places EXCEPT ![s] = Close(@, c)]
  PROVE  /\ places'[s][c] = 0
         /\ \A t \in Student, d \in Classroom :
              places'[t][d] \in Nat /\ places'[t][d] <= places[t][d]
<1>1. places \in [Student -> [Classroom -> Nat]]
  BY DEF TypeInv, TablesOK
<1>2. places'[s] = [places[s] EXCEPT ![c] = 0]
      /\ \A t \in Student \ {s} : places'[t] = places[t]
  BY <1>1 DEF Close
<1>3. QED BY <1>1, <1>2

LEMMA UnassignKeepsPromises ==
  ASSUME TypeInv, TypeInv', Promises, NEW h \in Request, AloneLocal(req[h]), UnassignCommit(h)
  PROVE  Promises'
<1> DEFINE e == req[h].enr
           s == req[h].st
           c == req[h].room
<1>1. /\ e \in Enrollment /\ s \in Student /\ c \in Classroom /\ UNCHANGED touched
      /\ s = enrollments[e].st /\ c = enrollments[e].room
  BY HandlerNames DEF UnassignCommit, At, OnEnrollment, OnStudent, OnRoom, AloneLocal
<1>2. UNCHANGED students /\ places' = [places EXCEPT ![s] = Close(@, c)]
  BY UnassignWrites
<1>3. \/ UNCHANGED enrollments
      \/ \E x : /\ Wrote(e, x) /\ x.enq = enrollments[e].enq /\ x.room = None
                /\ x.started = enrollments[e].started
  BY UnassignWrites
<1>4. /\ EnquiriesOnce'
      /\ \A d \in Enrollment : \/ enrollments'[d] = enrollments[d]
                               \/ d = e /\ enrollments'[d].room = None
  BY <1>3, EnquiriesKept DEF Promises, Wrote
<1> HIDE DEF s, c, e
<1>5. /\ places'[s][c] = 0
      /\ \A t \in Student, d \in Classroom :
           places'[t][d] \in Nat /\ places'[t][d] <= places[t][d]
  BY <1>1, <1>2, ClosedIs
<1>6. \A t \in Student \ touched', d \in Classroom, f \in Enrollment :
        /\ places'[t][d] > 0 /\ Approved(f)
        /\ enrollments[f].st = t /\ enrollments[f].room = d
        => /\ Approved(f)' /\ enrollments'[f].st = t /\ enrollments'[f].room = d
  <2>1. SUFFICES ASSUME NEW t \in Student \ touched', NEW d \in Classroom,
                        NEW f \in Enrollment, places'[t][d] > 0, Approved(f),
                        enrollments[f].st = t, enrollments[f].room = d
                 PROVE  enrollments'[f] = enrollments[f]
    BY DEF Approved
  <2>2. CASE f = e
    BY <1>1, <1>5, <2>1, <2>2
  <2>3. QED BY <1>4, <2>2
<1>7. Placed'
  BY <1>1, <1>5, <1>6, PlacesKept DEF Promises
<1>8. StatusFollowsEnrollment'
  BY <1>1, <1>2, <1>4, StatusesKept DEF Promises, Approved
<1>9. QED BY <1>4, <1>7, <1>8 DEF Promises

(* The student stays enrolled by the others that are approved.             *)
LEMMA CancelKeepsPromises ==
  ASSUME TypeInv, TypeInv', Promises, NEW e \in Enrollment, Cancel(e)
  PROVE  Promises'
<1> DEFINE s == enrollments[e].st
           c == enrollments[e].room
<1>1. PICK x : /\ Live(e) /\ RowOK(x) /\ Wrote(e, x)
               /\ x.st = s /\ x.enq = enrollments[e].enq /\ x.room = c
               /\ x.started = enrollments[e].started
               /\ x.status = enrollments[e].status /\ x.cancelled
  BY CancelWrites
<1>2. s \in Student /\ c \in Classroom \cup {None} /\ UNCHANGED touched
  BY <1>1 DEF Cancel, TypeInv, RowsOK, RowOK, RowType, Live
<1>3. EnquiriesOnce'
  BY <1>1, EnquiriesKept DEF Promises, Wrote
<1>4. \A t \in Student, d \in Classroom :
        places'[t][d] \in Nat /\ places'[t][d] <= places[t][d]
  <2>1. CASE c = None
    <3>1. places' = places
      BY <2>1 DEF Cancel
    <3>2. QED BY <3>1 DEF TypeInv, TablesOK
  <2>2. CASE c # None
    <3>1. places' = [places EXCEPT ![s] = Close(@, c)] /\ c \in Classroom
      BY <1>2, <2>2 DEF Cancel
    <3>2. QED BY <1>2, <3>1, ClosedIs
  <2>3. QED BY <2>1, <2>2
<1>5. \A f \in Enrollment : /\ enrollments'[f].st = enrollments[f].st
                            /\ enrollments'[f].room = enrollments[f].room
                            /\ Approved(f)' = Approved(f)
  BY <1>1 DEF Wrote, Approved
<1>6. Placed'
  BY <1>2, <1>4, <1>5, PlacesKept DEF Promises
<1>7. ASSUME NEW f \in Enrollment, Approved(f)', ~ enrollments'[f].cancelled,
             enrollments'[f].st \in Student
      PROVE  /\ ~ enrollments[f].cancelled
             /\ students'[enrollments'[f].st] = students[enrollments'[f].st]
  <2>1. f # e /\ enrollments'[f] = enrollments[f]
    BY <1>1, <1>7 DEF Wrote
  <2>2. CASE KeptBy(e)
    BY <1>7, <2>1, <2>2 DEF Cancel
  <2>3. CASE ~ KeptBy(e)
    <3>1. enrollments[f].st # s
      BY <1>7, <2>1, <2>3 DEF KeptBy, Approved
    <3>2. students' = [students EXCEPT ![s] = "draft"]
      BY <2>3 DEF Cancel
    <3>3. QED BY <1>7, <2>1, <3>1, <3>2 DEF TypeInv, TablesOK
  <2>4. QED BY <2>2, <2>3
<1>8. StatusFollowsEnrollment'
  BY <1>2, <1>5, <1>7, StatusesKept DEF Promises
<1>9. QED BY <1>3, <1>6, <1>8 DEF Promises

(* The endpoints that know nothing of enrollments touch their student.     *)
LEMMA OlderKeepsPromises ==
  ASSUME TypeInv, TypeInv', Promises, NEW h \in Request, AloneLocal(req[h]), Lifecycle(h)
  PROVE  Promises'
<1>1. /\ students \in [Student -> StudentStatus]
      /\ places \in [Student -> [Classroom -> Nat]]
      /\ touched \subseteq Student
  BY DEF TypeInv, TablesOK
<1>2. ASSUME NEW s \in Student,
             OlderClose(h, s) \/ \E c \in Classroom : OlderEnroll(h, s, c)
      PROVE  Promises'
  <2>1. touched' = touched \cup {s} /\ UNCHANGED <<students, enrollments>>
    BY <1>2 DEF OlderClose, OlderEnroll
  <2>2. \A t \in Student \ {s} : places'[t] = places[t]
    BY <1>1, <1>2 DEF OlderClose, OlderEnroll
  <2>3. QED BY <2>1, <2>2, PromisesKept
<1>3. CASE TransferInsert(h) \/ OlderStatus(h)
  <2> DEFINE s == req[h].st
  <2>1. s \in touched /\ UNCHANGED <<touched, enrollments>>
    BY <1>3 DEF TransferInsert, OlderStatus, At, AloneLocal
  <2>2. \A t \in Student \ {s} : places'[t] = places[t] /\ students'[t] = students[t]
    BY <1>1, <1>3 DEF TransferInsert, OlderStatus
  <2>3. QED BY <2>1, <2>2, PromisesKept
<1>4. QED BY <1>2, <1>3 DEF Lifecycle

LEMMA OthersKeepPromises ==
  ASSUME TypeInv, TypeInv', Promises,
         \/ \E s \in Student : Register(s) \/ UpdateStudent(s)
         \/ \E q \in Enquiry : CreateEnquiry(q) \/ UpdateEnquiry(q)
         \/ \E c \in Classroom : ToggleRoom(c)
  PROVE  Promises'
<1>1. students \in [Student -> StudentStatus]
  BY DEF TypeInv, TablesOK
<1>2. UNCHANGED <<enrollments, places>>
  BY DEF Register, UpdateStudent, CreateEnquiry, UpdateEnquiry, ToggleRoom
<1>3. touched \subseteq touched'
      /\ \A s \in Student \ touched' : Registered(s) => students'[s] = students[s]
  BY <1>1 DEF Register, Registration, UpdateStudent, CreateEnquiry, UpdateEnquiry, ToggleRoom,
     Registered
<1>4. QED BY <1>2, <1>3, PromisesKept

(* What is read stays so while handlers alone write.                       *)
LEMMA LocalsUndisturbed ==
  ASSUME TypeInv, \A h \in Request : AloneLocal(req[h]), UNCHANGED req,
         touched \subseteq touched',
         \A e \in Enrollment : /\ enrollments'[e].st = enrollments[e].st
                               /\ enrollments'[e].room = enrollments[e].room
                               /\ enrollments'[e].enq = enrollments[e].enq
                               /\ enrollments'[e].invoiced = enrollments[e].invoiced
  PROVE  (\A h \in Request : AloneLocal(req[h]))'
<1>1. ASSUME NEW h \in Request PROVE AloneLocal(req[h])'
  <2>1. AloneLocal(req[h]) /\ req'[h] = req[h]
    OBVIOUS
  <2>2. req[h].pc \in {"updateWrite", "confirmCommit", "unassignCommit"} =>
          req[h].enr \in Enrollment
    BY HandlerNames DEF OnEnrollment
  <2>3. QED BY <2>1, <2>2 DEF AloneLocal
<1>2. QED BY <1>1

LEMMA HandlersKeepAlone ==
  ASSUME OneAtATime, TypeInv, TypeInv', AloneInv, NEW h \in Request,
         Admit(h) \/ Enrolling(h) \/ Lifecycle(h) \/ Fail(h)
  PROVE  AloneInv'
<1> DEFINE r == req[h]
<1>1. Promises /\ AloneLocal(r) /\ r \in Locals
  BY HandlerNames DEF AloneInv, Promises
<1>2. ASSUME Promises', NEW q, Goto(h, q), AloneLocal(q)' PROVE AloneInv'
  BY <1>2, AloneLocals DEF AloneInv, Promises
<1>3. ASSUME Promises', Goto(h, Idle) PROVE AloneInv'
  <2>1. AloneLocal(Idle)'
    <3>1. Idle.pc = "idle"
      BY IdleOK
    <3>2. Idle.pc \notin Starting
      BY <3>1 DEF Starting
    <3>3. QED BY <3>1, <3>2 DEF AloneLocal
  <2>2. QED BY <1>2, <1>3, <2>1
<1>4. CASE Reads(h)
  <2>1. UNCHANGED <<tables, touched>>
    BY <1>4, ReadsAreReads DEF TypeInv, TablesOK
  <2>2. Promises'
    BY <1>1, <2>1, PromisesKept DEF tables
  <2>3. PICK q : Goto(h, q) /\ AloneLocal(q)
    BY <1>1, <1>4, ReadsAlone
  <2>4. AloneLocal(q)'
    BY <2>1, <2>3 DEF AloneLocal, tables
  <2>5. QED BY <1>2, <2>2, <2>3, <2>4
<1>5. CASE Fail(h)
  <2>1. Promises' /\ Goto(h, Idle)
    BY <1>1, <1>5, PromisesKept DEF Fail, tables
  <2>2. QED BY <1>3, <2>1
<1>6. CASE StartStudent(h)
  <2>1. PICK s \in Student :
          Registration(s) /\ Goto(h, [r EXCEPT !.pc = "enrollCheck", !.st = s])
    BY <1>6 DEF StartStudent
  <2>2. UNCHANGED <<enrollments, places, touched>> /\ r.pc \in Starting
    BY <1>6 DEF StartStudent, At, Starting
  <2>3. \A t \in Student \ touched' : Registered(t) => students'[t] = students[t]
    BY <2>1 DEF Registration, Registered, TypeInv, TablesOK
  <2>4. Promises'
    BY <1>1, <2>2, <2>3, PromisesKept
  <2>5. PICK q : q = [r EXCEPT !.pc = "enrollCheck", !.st = s]
    OBVIOUS
  <2>6. q.pc = "enrollCheck" /\ q.enq = r.enq /\ q.start = r.start
    BY <1>1, <2>5 DEF Locals
  <2>7. AloneLocal(q)'
    BY <1>1, <2>2, <2>6 DEF AloneLocal
  <2>8. QED BY <1>2, <2>1, <2>4, <2>5, <2>7
<1>7. CASE EnrollInsert(h)
  <2>1. Promises'
    BY <1>1, <1>7, InsertKeepsPromises
  <2>2. \/ Goto(h, Idle)
        \/ Goto(h, [Idle EXCEPT !.pc = "startOffer", !.enq = r.enq])
    BY <1>7 DEF EnrollInsert
  <2>3. ASSUME Goto(h, [Idle EXCEPT !.pc = "startOffer", !.enq = r.enq]) PROVE AloneInv'
    <3>1. PICK q : q = [Idle EXCEPT !.pc = "startOffer", !.enq = r.enq]
      OBVIOUS
    <3>2. q.pc = "startOffer"
      BY <3>1, IdleOK DEF LocalOK, Locals
    <3>3. AloneLocal(q)'
      BY <3>2 DEF AloneLocal, Starting
    <3>4. QED BY <1>2, <2>1, <2>3, <3>1, <3>3
  <2>4. QED BY <1>3, <2>1, <2>2, <2>3
<1>8. CASE StartOffer(h)
  <2>1. Promises' /\ Goto(h, Idle)
    BY <1>1, <1>8, PromisesKept DEF StartOffer
  <2>2. QED BY <1>3, <2>1
<1>9. CASE UpdateWrite(h) \/ DeleteWrite(h) \/ ConfirmCommit(h) \/ AssignCommit(h)
             \/ UnassignCommit(h)
  <2>1. Goto(h, Idle)
    BY <1>9 DEF UpdateWrite, DeleteWrite, ConfirmCommit, AssignCommit, UnassignCommit
  <2>2. Promises'
    BY <1>1, <1>9, UpdateKeepsPromises, ConfirmKeepsPromises, AssignKeepsPromises,
       UnassignKeepsPromises
  <2>3. QED BY <1>3, <2>1, <2>2
<1>10. CASE Lifecycle(h)
  <2>1. Promises'
    BY <1>1, <1>10, OlderKeepsPromises
  <2>2. \/ Goto(h, Idle)
        \/ \E q : Goto(h, q) /\ q.pc \in {"olderStatus", "transferInsert"} /\ q.st \in touched'
    <3>1. Idle \in Locals
      BY IdleOK DEF LocalOK
    <3>2. ASSUME NEW s, s \in touched',
                 \/ \E status : Goto(h, [Idle EXCEPT !.pc = "olderStatus", !.st = s,
                                                     !.status = status])
                 \/ \E c : Goto(h, [Idle EXCEPT !.pc = "transferInsert", !.st = s, !.room = c])
          PROVE  \E q : /\ Goto(h, q) /\ q.pc \in {"olderStatus", "transferInsert"}
                        /\ q.st \in touched'
      <4>1. ASSUME NEW pc \in {"olderStatus", "transferInsert"}, NEW q, Goto(h, q),
                   q.pc = pc, q.st = s
            PROVE  \E x : /\ Goto(h, x) /\ x.pc \in {"olderStatus", "transferInsert"}
                          /\ x.st \in touched'
        BY <3>2, <4>1
      <4>2. CASE \E status : Goto(h, [Idle EXCEPT !.pc = "olderStatus", !.st = s,
                                                  !.status = status])
        <5>1. PICK status, q : /\ Goto(h, q)
                               /\ q = [Idle EXCEPT !.pc = "olderStatus", !.st = s,
                                                   !.status = status]
          BY <4>2
        <5>2. q.pc = "olderStatus" /\ q.st = s
          BY <3>1, <5>1 DEF Locals
        <5>3. QED BY <4>1, <5>1, <5>2
      <4>3. CASE \E c : Goto(h, [Idle EXCEPT !.pc = "transferInsert", !.st = s, !.room = c])
        <5>1. PICK c, q : /\ Goto(h, q)
                          /\ q = [Idle EXCEPT !.pc = "transferInsert", !.st = s, !.room = c]
          BY <4>3
        <5>2. q.pc = "transferInsert" /\ q.st = s
          BY <3>1, <5>1 DEF Locals
        <5>3. QED BY <4>1, <5>1, <5>2
      <4>4. QED BY <3>2, <4>2, <4>3
    <3>3. CASE \E s \in Student : OlderClose(h, s) \/ \E c \in Classroom : OlderEnroll(h, s, c)
      <4>1. PICK s \in Student : OlderClose(h, s) \/ \E c \in Classroom : OlderEnroll(h, s, c)
        BY <3>3
      <4>2. s \in touched'
        BY <4>1 DEF OlderClose, OlderEnroll
      <4>3. \/ \E status : Goto(h, [Idle EXCEPT !.pc = "olderStatus", !.st = s,
                                                !.status = status])
            \/ \E c : Goto(h, [Idle EXCEPT !.pc = "transferInsert", !.st = s, !.room = c])
        BY <4>1 DEF OlderClose, OlderEnroll
      <4>4. QED BY <3>2, <4>2, <4>3
    <3>4. CASE TransferInsert(h)
      <4>1. r.st \in touched'
        BY <1>1, <3>4 DEF TransferInsert, At, AloneLocal
      <4>2. \/ Goto(h, Idle)
            \/ \E status : Goto(h, [Idle EXCEPT !.pc = "olderStatus", !.st = r.st,
                                                !.status = status])
        BY <3>4 DEF TransferInsert
      <4>3. QED BY <3>2, <4>1, <4>2
    <3>5. CASE OlderStatus(h)
      BY <3>5 DEF OlderStatus
    <3>6. QED BY <1>10, <3>3, <3>4, <3>5 DEF Lifecycle
  <2>3. ASSUME NEW q, Goto(h, q), q.pc \in {"olderStatus", "transferInsert"}, q.st \in touched'
        PROVE  AloneInv'
    <3>1. AloneLocal(q)'
      BY <2>3 DEF AloneLocal, Starting
    <3>2. QED BY <1>2, <2>1, <2>3, <3>1
  <2>4. QED BY <1>3, <2>1, <2>2, <2>3
<1>11. QED
  BY <1>4, <1>5, <1>6, <1>7, <1>8, <1>9, <1>10 DEF Admit, Enrolling, Reads

LEMMA AloneInvInductive ==
  ASSUME OneAtATime, TypeInv, AloneInv, [Next]_vars
  PROVE  AloneInv'
<1>1. TypeInv' /\ Promises
  BY TypeInvInductive DEF AloneInv, Promises
<1>2. ASSUME Promises', UNCHANGED req, touched \subseteq touched',
             \A e \in Enrollment : /\ enrollments'[e].st = enrollments[e].st
                                   /\ enrollments'[e].room = enrollments[e].room
                                   /\ enrollments'[e].enq = enrollments[e].enq
                                   /\ enrollments'[e].invoiced = enrollments[e].invoiced
      PROVE  AloneInv'
  BY <1>2, LocalsUndisturbed DEF AloneInv, Promises
<1>3. CASE UNCHANGED vars
  <2>1. Promises'
    BY <1>1, <1>3, PromisesKept DEF vars, tables
  <2>2. QED BY <1>2, <1>3, <2>1 DEF vars, tables
<1>4. CASE \/ \E s \in Student : Register(s) \/ UpdateStudent(s)
           \/ \E q \in Enquiry : CreateEnquiry(q) \/ UpdateEnquiry(q)
           \/ \E c \in Classroom : ToggleRoom(c)
  <2>1. Promises'
    BY <1>1, <1>4, OthersKeepPromises
  <2>2. UNCHANGED <<enrollments, req>> /\ touched \subseteq touched'
    BY <1>4 DEF Register, UpdateStudent, CreateEnquiry, UpdateEnquiry, ToggleRoom
  <2>3. QED BY <1>2, <2>1, <2>2
<1>5. ASSUME NEW e \in Enrollment, Cancel(e) PROVE AloneInv'
  <2>1. Promises'
    BY <1>1, <1>5, CancelKeepsPromises
  <2>2. UNCHANGED <<req, touched>>
    BY <1>5 DEF Cancel
  <2>3. PICK x : /\ Wrote(e, x) /\ x.st = enrollments[e].st /\ x.enq = enrollments[e].enq
                 /\ x.room = enrollments[e].room /\ x.invoiced = enrollments[e].invoiced
    BY <1>5, CancelWrites
  <2>4. QED BY <1>2, <2>1, <2>2, <2>3 DEF Wrote
<1>6. ASSUME NEW h \in Request,
             Admit(h) \/ Enrolling(h) \/ Lifecycle(h) \/ Refuse(h) \/ Fail(h)
      PROVE  AloneInv'
  BY <1>1, <1>3, <1>6, HandlersKeepAlone DEF Refuse
<1>7. QED BY <1>3, <1>4, <1>5, <1>6 DEF Next

LEMMA AloneInvInitially ==
  ASSUME Init
  PROVE  AloneInv
<1>1. \A e \in Enrollment : enrollments[e].enq = None /\ enrollments[e].status = "absent"
  BY NoRowOK DEF Init
<1>2. \A s \in Student, c \in Classroom : places[s][c] = 0
  BY DEF Init, Closed
<1>3. \A h \in Request : AloneLocal(req[h])
  BY IdleOK, IdleAlone DEF Init
<1>4. EnquiriesOnce /\ StatusFollowsEnrollment
  BY <1>1 DEF EnquiriesOnce, StatusFollowsEnrollment
<1>5. Placed
  BY <1>2 DEF Placed, PlaceIsEnrolled, Untouched
<1>6. QED BY <1>3, <1>4, <1>5 DEF AloneInv

(* A sum of which at most one term is not zero, and that one is one.       *)
LEMMA PlacedIsOnePlace ==
  ASSUME TypeInv, Placed
  PROVE  OnePlace
<1>1. SUFFICES ASSUME NEW s \in Untouched PROVE SumFunctionOnSet(places[s], Classroom) <= 1
  BY DEF OnePlace
<1> DEFINE f == places[s]
<1>2. /\ IsFiniteSet(Classroom) /\ \A c \in Classroom : f[c] \in Nat /\ f[c] <= 1
      /\ \A c, d \in Classroom : f[c] > 0 /\ f[d] > 0 => c = d
  BY RowAssumption DEF Untouched, TypeInv, TablesOK, Placed
<1> HIDE DEF f
<1>3. SumFunctionOnSet(f, Classroom) \in Nat
  BY <1>2, SumNonNegative
<1>4. CASE SumFunctionOnSet(f, Classroom) > 0
  <2>1. PICK c \in Classroom : f[c] > 0
    BY <1>2, <1>4, SumPositive
  <2>2. SumFunctionOnSet(f, Classroom) = f[c] + SumFunctionOnSet(f, Classroom \ {c})
    BY <1>2, SumRemove
  <2> DEFINE D == Classroom \ {c}
  <2>3. IsFiniteSet(D) /\ \A d \in D : f[d] \in Nat /\ ~ (f[d] > 0)
    BY <1>2, <2>1, FS_Subset
  <2> HIDE DEF D
  <2>4. SumFunctionOnSet(f, D) \in Nat /\ ~ (SumFunctionOnSet(f, D) > 0)
    BY <2>3, SumNonNegative, SumPositive
  <2>5. SumFunctionOnSet(f, Classroom) <= 1
    BY <1>2, <2>1, <2>2, <2>4 DEF D
  <2>6. QED BY <2>5 DEF f
<1>5. QED BY <1>3, <1>4 DEF f

LEMMA EnquiriesOnceIsEnough ==
  ASSUME EnquiriesOnce
  PROVE  EnquiryStartsOnce
<1>1. SUFFICES ASSUME NEW q \in Enquiry
               PROVE  Cardinality({e \in Enrollment :
                        enrollments[e].enq = q /\ enrollments[e].started}) <= 1
  BY DEF EnquiryStartsOnce
<1> DEFINE E == {e \in Enrollment : enrollments[e].enq = q /\ enrollments[e].started}
<1>2. \A d, e \in E : d = e
  BY RowAssumption DEF EnquiriesOnce
<1>3. Cardinality(E) <= 1
  <2>1. CASE E = {}
    BY <2>1, FS_EmptySet
  <2>2. CASE E # {}
    <3>1. PICK e \in E : E = {e}
      BY <1>2, <2>2
    <3>2. Cardinality(E) = 1
      BY <3>1, FS_Singleton
    <3>3. QED BY <3>2
  <2>3. QED BY <2>1, <2>2
<1>4. QED BY <1>3

LEMMA Alone == OneAtATime => (Spec => [](TypeInv /\ AloneInv))
<1>1. SUFFICES ASSUME OneAtATime PROVE Spec => [](TypeInv /\ AloneInv)
  OBVIOUS
<1>2. Init => TypeInv /\ AloneInv
  BY TypeInvInitially, AloneInvInitially
<1>3. TypeInv /\ AloneInv /\ [Next]_vars => (TypeInv /\ AloneInv)'
  BY <1>1, TypeInvInductive, AloneInvInductive
<1>4. QED BY <1>2, <1>3, PTL DEF Spec

(* With one request at a time, each of which may stop anywhere, a student  *)
(* whom only the ceremony has placed sits in one classroom at most.        *)
THEOREM SeriallyOnePlace == OneAtATime => (Spec => []OnePlace)
<1>1. TypeInv /\ AloneInv => OnePlace
  BY PlacedIsOnePlace DEF AloneInv
<1>2. QED BY <1>1, Alone, PTL

(* And an approved enrollment of the student names that classroom.         *)
THEOREM SeriallyPlaceIsEnrolled == OneAtATime => (Spec => []PlaceIsEnrolled)
<1>1. TypeInv /\ AloneInv => PlaceIsEnrolled
  BY DEF AloneInv, Placed
<1>2. QED BY <1>1, Alone, PTL

(* With one request at a time a student with an approved enrollment in a   *)
(* classroom is enrolled, whichever others are cancelled.                  *)
THEOREM SeriallyStatusFollows == OneAtATime => (Spec => []StatusFollowsEnrollment)
<1>1. TypeInv /\ AloneInv => StatusFollowsEnrollment
  BY DEF AloneInv
<1>2. QED BY <1>1, Alone, PTL

(* With one request at a time startEnrollment makes one enrollment of an   *)
(* enquiry, however often a start was given up half way and whatever       *)
(* enrollments that name the enquiry are created beside it.                *)
THEOREM SeriallyEnquiryStartsOnce == OneAtATime => (Spec => []EnquiryStartsOnce)
<1>1. TypeInv /\ AloneInv => EnquiryStartsOnce
  BY EnquiriesOnceIsEnough DEF AloneInv
<1>2. QED BY <1>1, Alone, PTL

=============================================================================
