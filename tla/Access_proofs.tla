---------------------------- MODULE Access_proofs ----------------------------
(* Proofs about Access for any users, roles, sessions, tokens, lifetimes   *)
(* and number of handlers in flight.                                       *)
EXTENDS Access, FiniteSetTheorems, TLAPS

(* What a handler past its first read names.                               *)
OnUser == {"activateUser", "activateToken", "resetUser", "resetToken", "resetSessions",
           "loginInsert", "slide", "resolve", "resolveRoles", "resolveSet", "assignInsert",
           "assignInvalidate"}
OnToken == {"activateUser", "activateToken", "resetUser", "resetToken"}
OnRole == {"assignInsert", "updateWrite", "deleteRole"}

LocalOK(q) ==
  /\ q \in Locals
  /\ q.pc \in OnUser => q.user \in User
  /\ q.pc \in OnToken => q.token \in Token
  /\ q.pc \in OnRole => q.role \in Role
  /\ q.pc = "slide" => q.session \in Session

SessionOK(x) ==
  /\ x \in SessionRow /\ x.idle <= x.life
  /\ x.life > 0 => x.user \in User

TokenOK(x) == x \in TokenRow /\ (x.kind # "absent" => x.user \in User)

RoleRow == [status : {"absent", "active", "inactive", "deleted"}, permits : BOOLEAN]

CacheRow == [permits : BOOLEAN, left : 0..CacheTTL, missed : BOOLEAN]

(* A deadline that is still to be written lies within its session's life.  *)
SlideOK ==
  \A h \in Request : At(h, "slide") => req[h].next <= sessions[req[h].session].life

(* The rows of the tables and of the cache.                                *)
RowsOK ==
  /\ users \in [User -> {"absent", "invited", "active"}]
  /\ assigned \in [User -> SUBSET Role]
  /\ roles \in [Role -> RoleRow]
  /\ sessions \in [Session -> SessionRow] /\ \A s \in Session : SessionOK(sessions[s])
  /\ tokens \in [Token -> TokenRow] /\ \A k \in Token : TokenOK(tokens[k])
  /\ cache \in [User -> CacheRow]

ReqOK == req \in [Request -> Locals] /\ \A h \in Request : LocalOK(req[h])

(* TypeOK, with what names a row that is there.                            *)
TypeInv == RowsOK /\ ReqOK /\ SlideOK

LEMMA TypeInvImpliesTypeOK == TypeInv => TypeOK
  BY DEF TypeInv, RowsOK, ReqOK, TypeOK, SessionOK, RoleRow, CacheRow

-----------------------------------------------------------------------------
(* Rows.                                                                   *)

LEMMA Lifetimes ==
  /\ IdleTTL \in Nat /\ LifeTTL \in Nat /\ ResetTTL \in Nat /\ ActivationTTL \in Nat
  /\ CacheTTL \in Nat /\ IdleTTL <= LifeTTL /\ None \notin User
  /\ IdleTTL > 0 /\ LifeTTL > 0 /\ SlideThreshold \in Nat /\ MaxLost \in Nat
  BY TtlAssumption

LEMMA Pcs ==
  /\ OnUser \subseteq PC /\ OnToken \subseteq OnUser /\ OnRole \subseteq PC
  /\ "idle" \in PC \ (OnUser \cup OnToken \cup OnRole)
  /\ "invalidateAll" \in PC \ (OnUser \cup OnToken \cup OnRole)
<1>1. OnUser \subseteq PC /\ OnToken \subseteq OnUser /\ OnRole \subseteq PC
  BY DEF PC, OnUser, OnToken, OnRole
<1>2. {"idle", "invalidateAll"} \subseteq PC
  BY DEF PC
<1>3. "idle" \notin OnUser /\ "invalidateAll" \notin OnUser
  BY DEF OnUser
<1>4. "idle" \notin OnRole /\ "invalidateAll" \notin OnRole
  BY DEF OnRole
<1>5. QED BY <1>1, <1>2, <1>3, <1>4

LEMMA IdleOK == LocalOK(Idle) /\ Idle \in Locals /\ Idle.pc = "idle"
<1>1. Idle \in Locals
  BY Pcs, Lifetimes DEF Idle, Locals
<1>2. Idle.pc = "idle"
  BY DEF Idle
<1>3. QED BY <1>1, <1>2, Pcs DEF LocalOK

LEMMA LateOK ==
  ASSUME NEW q, LocalOK(q), NEW late \in BOOLEAN
  PROVE  LocalOK([q EXCEPT !.late = late])
  BY DEF LocalOK, Locals

LEMMA LocalStep ==
  ASSUME TypeInv, NEW h \in Request, NEW q, LocalOK(q), Goto(h, q)
  PROVE  ReqOK' /\ req'[h] = q /\ \A g \in Request \ {h} : req'[g] = req[g]
  BY DEF TypeInv, ReqOK, Goto, LocalOK

-----------------------------------------------------------------------------
(* Every step keeps the types.                                             *)

(* What a user's own request or a session names.                           *)
LEMMA ValidNames ==
  ASSUME TypeInv, NEW s \in Session, Valid(s)
  PROVE  /\ sessions[s].user \in User /\ SessionOK(sessions[s])
         /\ sessions[s].idle \in 0..LifeTTL /\ sessions[s].life \in 0..LifeTTL
<1>1. SessionOK(sessions[s]) /\ sessions[s].idle > 0
  BY DEF TypeInv, ReqOK, RowsOK, Valid
<1>2. sessions[s].idle \in 0..LifeTTL /\ sessions[s].life \in 0..LifeTTL
      /\ sessions[s].idle <= sessions[s].life
  BY <1>1 DEF SessionOK, SessionRow
<1>3. sessions[s].life > 0
  BY <1>1, <1>2, Lifetimes
<1>4. QED BY <1>1, <1>2, <1>3 DEF SessionOK

(* Where a request that begins goes.                                       *)
Began(h, q) ==
  /\ LocalOK(q) /\ Goto(h, q)
  /\ q.pc \notin {"resolveSet", "invalidateAll", "assignInvalidate"}
  /\ q.pc = "slide" => q.next <= sessions[q.session].life

LEMMA AuthenticateGoes ==
  ASSUME TypeInv, NEW h \in Request, NEW s \in Session, Authenticate(h, s)
  PROVE  \E q : Began(h, q) /\ q.pc \notin OnToken
<1> DEFINE next == IF IdleTTL < sessions[s].life THEN IdleTTL ELSE sessions[s].life
           u == sessions[s].user
           x == [Idle EXCEPT !.pc = "slide", !.user = u, !.session = s, !.next = next]
           y == [Idle EXCEPT !.pc = "resolve", !.user = u]
<1>1. u \in User /\ sessions[s].life \in 0..LifeTTL
  BY ValidNames DEF Authenticate
<1>2. next \in 0..LifeTTL /\ next <= sessions[s].life
  BY <1>1, Lifetimes
<1>3. Goto(h, x) \/ Goto(h, y)
  BY DEF Authenticate, SlideOrResolve
<1> HIDE DEF next, u
<1>4. /\ x \in Locals /\ x.pc = "slide" /\ x.user = u /\ x.session = s /\ x.next = next
      /\ y \in Locals /\ y.pc = "resolve" /\ y.user = u
  <2>1. "slide" \in PC /\ "resolve" \in PC
    BY DEF PC
  <2>2. QED BY <1>1, <1>2, <2>1, IdleOK DEF Locals
<1> HIDE DEF x, y
<1>5. /\ LocalOK(x) /\ x.pc \notin OnToken
      /\ LocalOK(y) /\ y.pc \notin OnToken
  BY <1>1, <1>4 DEF LocalOK, OnUser, OnToken, OnRole
<1>6. QED BY <1>2, <1>3, <1>4, <1>5 DEF Began

LEMMA StartGoes ==
  ASSUME TypeInv, NEW h \in Request, Start(h)
  PROVE  \E q : /\ Began(h, q)
                /\ \/ \E k \in Token : ActivateRead(h, k) \/ ResetRead(h, k)
                   \/ q.pc \notin OnToken
<1>0. Idle \in Locals
  BY IdleOK
<1>1. ASSUME NEW q, NEW pc \in {"activateUser", "resetUser", "loginInsert", "updateWrite",
                                "deleteRole", "assignInsert"},
             q \in Locals, q.pc = pc, Goto(h, q),
             pc \in OnUser => q.user \in User, pc \in OnToken => q.token \in Token,
             pc \in OnRole => q.role \in Role
      PROVE  Began(h, q)
  BY <1>1 DEF Began, LocalOK
<1>2. ASSUME NEW k \in Token, ActivateRead(h, k) \/ ResetRead(h, k)
      PROVE  \E q : Began(h, q)
  <2>1. PICK pc \in {"activateUser", "resetUser"} :
          Goto(h, [Idle EXCEPT !.pc = pc, !.token = k, !.user = tokens[k].user])
    BY <1>2 DEF ActivateRead, ResetRead
  <2>2. PICK q : q = [Idle EXCEPT !.pc = pc, !.token = k, !.user = tokens[k].user]
    OBVIOUS
  <2>3. tokens[k].user \in User
    BY <1>2 DEF TypeInv, ReqOK, RowsOK, TokenOK, ActivateRead, ResetRead, Usable
  <2>4. pc \in PC
    BY DEF PC
  <2>5. q \in Locals /\ q.pc = pc /\ q.token = k /\ q.user \in User
    BY <1>0, <2>2, <2>3, <2>4 DEF Locals
  <2>6. pc \notin OnRole
    BY DEF OnRole
  <2>7. QED BY <1>1, <2>1, <2>2, <2>5, <2>6
<1>3. ASSUME NEW u \in User, LoginRead(h, u)
      PROVE  \E q : Began(h, q) /\ q.pc \notin OnToken
  <2>1. PICK q : q = [Idle EXCEPT !.pc = "loginInsert", !.user = u]
    OBVIOUS
  <2>2. q \in Locals /\ q.pc = "loginInsert" /\ q.user = u
    BY <1>0, <2>1 DEF Locals, PC
  <2>3. QED BY <1>1, <1>3, <2>1, <2>2 DEF LoginRead, OnToken, OnRole
<1>4. ASSUME NEW r \in Role, UpdateRead(h, r)
      PROVE  \E q : Began(h, q) /\ q.pc \notin OnToken
  <2>1. PICK st \in {"active", "inactive", None}, permits \in BOOLEAN :
          Goto(h, [Idle EXCEPT !.pc = "updateWrite", !.role = r, !.status = st,
                               !.permits = permits])
    BY <1>4 DEF UpdateRead
  <2>2. PICK q : q = [Idle EXCEPT !.pc = "updateWrite", !.role = r, !.status = st,
                               !.permits = permits]
    OBVIOUS
  <2>3. q \in Locals /\ q.pc = "updateWrite" /\ q.role = r
    BY <1>0, <2>2 DEF Locals, PC
  <2>4. QED BY <1>1, <2>1, <2>2, <2>3 DEF OnToken, OnUser
<1>5. ASSUME NEW r \in Role, DeleteRead(h, r)
      PROVE  \E q : Began(h, q) /\ q.pc \notin OnToken
  <2>1. PICK q : q = [Idle EXCEPT !.pc = "deleteRole", !.role = r]
    OBVIOUS
  <2>2. q \in Locals /\ q.pc = "deleteRole" /\ q.role = r
    BY <1>0, <2>1 DEF Locals, PC
  <2>3. QED BY <1>1, <1>5, <2>1, <2>2 DEF DeleteRead, OnToken, OnUser
<1>6. ASSUME NEW u \in User, NEW r \in Role, AssignRead(h, u, r)
      PROVE  \E q : Began(h, q) /\ q.pc \notin OnToken
  <2>1. PICK q : q = [Idle EXCEPT !.pc = "assignInsert", !.user = u, !.role = r]
    OBVIOUS
  <2>2. q \in Locals /\ q.pc = "assignInsert" /\ q.user = u /\ q.role = r
    BY <1>0, <2>1 DEF Locals, PC
  <2>3. QED BY <1>1, <1>6, <2>1, <2>2 DEF AssignRead, OnToken
<1>7. QED BY <1>2, <1>3, <1>4, <1>5, <1>6, AuthenticateGoes DEF Start

LEMMA StartKeepsLocals ==
  ASSUME TypeInv, NEW h \in Request, Start(h)
  PROVE  /\ ReqOK' /\ \A g \in Request \ {h} : req'[g] = req[g]
         /\ req'[h].pc \notin {"resolveSet", "invalidateAll", "assignInvalidate"}
         /\ req'[h].pc = "slide" => req'[h].next <= sessions[req'[h].session].life
         /\ \/ \E k \in Token : ActivateRead(h, k) \/ ResetRead(h, k)
            \/ req'[h].pc \notin OnToken
  BY StartGoes, LocalStep DEF Began

(* The handlers other than h are not moved; some learn that they are late. *)
SameButLate(p, q) ==
  /\ q.pc = p.pc /\ q.user = p.user /\ q.token = p.token /\ q.permits = p.permits
  /\ q.session = p.session /\ q.next = p.next
  /\ p.late => q.late

OnlyLate(h) == \A g \in Request \ {h} : SameButLate(req[g], req'[g])

LocalsKept(h) == ReqOK' /\ OnlyLate(h)

LEMMA GotoKeepsLocals ==
  ASSUME TypeInv, NEW h \in Request, NEW q, LocalOK(q), Goto(h, q)
  PROVE  LocalsKept(h) /\ req'[h] = q
  BY LocalStep DEF LocalsKept, OnlyLate, SameButLate

LEMMA OvertakeKeepsLocals ==
  ASSUME TypeInv, NEW h \in Request, NEW q, LocalOK(q), Overtake(h, q)
  PROVE  /\ LocalsKept(h) /\ req'[h] = q
         /\ \A g \in Request \ {h} : req[g].pc = "resolveSet" => req'[g].late
<1>1. req' = [g \in Request |-> IF g = h THEN q
                ELSE [req[g] EXCEPT !.late = @ \/ req[g].pc = "resolveSet"]]
  BY DEF Overtake
<1>2. \A g \in Request : req[g] \in Locals /\ LocalOK(req[g])
  BY DEF TypeInv, ReqOK
<1>3. req'[h] = q /\ LocalOK(req'[h])
  BY <1>1
<1>4. ASSUME NEW g \in Request \ {h}
      PROVE  /\ LocalOK(req'[g]) /\ SameButLate(req[g], req'[g])
             /\ req[g].pc = "resolveSet" => req'[g].late
  <2> DEFINE late == req[g].late \/ req[g].pc = "resolveSet"
  <2>1. req'[g] = [req[g] EXCEPT !.late = late]
    BY <1>1
  <2>2. late \in BOOLEAN
    OBVIOUS
  <2>3. LocalOK(req'[g])
    <3> HIDE DEF late
    <3>1. QED BY <1>2, <2>1, <2>2, LateOK
  <2>4. QED BY <1>2, <2>1, <2>3 DEF SameButLate, Locals
<1>5. QED BY <1>1, <1>3, <1>4 DEF LocalsKept, ReqOK, OnlyLate, LocalOK

LEMMA ResetKeepsLocals ==
  ASSUME TypeInv, NEW h \in Request, ResetUser(h)
  PROVE  LocalsKept(h) /\ req'[h] = [req[h] EXCEPT !.pc = "resetToken"]
<1> DEFINE q == [req[h] EXCEPT !.pc = "resetToken"]
<1>1. req' = [g \in Request |-> IF g = h THEN q
                ELSE [req[g] EXCEPT !.late = \/ @
                                             \/ /\ req[g].pc = "loginInsert"
                                                /\ req[g].user = req[h].user]]
  BY DEF ResetUser
<1>2. \A g \in Request : req[g] \in Locals /\ LocalOK(req[g])
  BY DEF TypeInv, ReqOK
<1>3. LocalOK(q)
  BY <1>2 DEF ResetUser, At, LocalOK, Locals, PC, OnUser, OnToken, OnRole
<1> HIDE DEF q
<1>4. req'[h] = q /\ LocalOK(req'[h])
  BY <1>1, <1>3
<1>5. ASSUME NEW g \in Request \ {h}
      PROVE  LocalOK(req'[g]) /\ SameButLate(req[g], req'[g])
  <2> DEFINE late == req[g].late \/ (req[g].pc = "loginInsert" /\ req[g].user = req[h].user)
  <2>1. req'[g] = [req[g] EXCEPT !.late = late]
    BY <1>1
  <2>2. late \in BOOLEAN
    OBVIOUS
  <2>3. LocalOK(req'[g])
    <3> HIDE DEF late
    <3>1. QED BY <1>2, <2>1, <2>2, LateOK
  <2>4. QED BY <1>2, <2>1, <2>3 DEF SameButLate, Locals
<1>6. QED BY <1>1, <1>4, <1>5 DEF LocalsKept, ReqOK, OnlyLate, LocalOK, q

(* None of a handler's own steps brings it to slide.                       *)
LEMMA ContinueKeepsLocals ==
  ASSUME TypeInv, NEW h \in Request, Continue(h)
  PROVE  LocalsKept(h) /\ req'[h].pc # "slide"
<1>1. req[h] \in Locals /\ LocalOK(req[h])
  BY DEF TypeInv, ReqOK
<1>2. ASSUME NEW q, LocalOK(q), q.pc # "slide", Goto(h, q) \/ Overtake(h, q)
      PROVE  LocalsKept(h) /\ req'[h].pc # "slide"
  BY <1>2, GotoKeepsLocals, OvertakeKeepsLocals
<1>3. ASSUME NEW pc \in {"activateToken", "resetSessions", "resolveRoles",
                         "assignInvalidate", "invalidateAll"},
             pc # "invalidateAll" => req[h].pc \in OnUser,
             pc = "activateToken" => req[h].pc \in OnToken
      PROVE  /\ LocalOK([req[h] EXCEPT !.pc = pc])
             /\ [req[h] EXCEPT !.pc = pc].pc # "slide"
  <2>1. PICK q : q = [req[h] EXCEPT !.pc = pc]
    OBVIOUS
  <2>2. pc \in PC
    BY DEF PC
  <2>3. q \in Locals /\ q.pc = pc /\ q.user = req[h].user /\ q.token = req[h].token
    BY <1>1, <2>1, <2>2 DEF Locals
  <2>4. /\ pc \in OnUser => req[h].user \in User
        /\ pc \in OnToken => req[h].token \in Token
        /\ pc \notin OnRole
    BY <1>1, <1>3 DEF LocalOK, OnUser, OnToken, OnRole
  <2>5. QED BY <2>1, <2>3, <2>4 DEF LocalOK
<1>4. ASSUME Goto(h, Idle)
      PROVE  LocalsKept(h) /\ req'[h].pc # "slide"
  BY <1>2, <1>4, IdleOK
<1>5. CASE ResetUser(h)
  <2>1. [req[h] EXCEPT !.pc = "resetToken"].pc = "resetToken"
    BY <1>1 DEF Locals
  <2>2. QED BY <1>5, <2>1, ResetKeepsLocals
<1>6. CASE LoginInsert(h) \/ Slide(h)
  <2>1. req[h].user \in User
    BY <1>1, <1>6 DEF LoginInsert, Slide, At, LocalOK, OnUser
  <2>2. PICK q : q = [Idle EXCEPT !.pc = "resolve", !.user = req[h].user]
    OBVIOUS
  <2>3. q \in Locals /\ q.pc = "resolve" /\ q.user \in User
    BY <2>1, <2>2, IdleOK DEF Locals, PC
  <2>4. LocalOK(q)
    BY <2>3 DEF LocalOK, OnToken, OnRole
  <2>5. QED BY <1>2, <1>6, <2>2, <2>3, <2>4 DEF LoginInsert, Slide
<1>7. CASE ResolveRoles(h)
  <2>1. PICK permits \in BOOLEAN : permits = Permitted(req[h].user)
    BY DEF Permitted
  <2>2. PICK q : q = [req[h] EXCEPT !.pc = "resolveSet", !.permits = permits]
    OBVIOUS
  <2>3. q \in Locals /\ q.pc = "resolveSet" /\ q.user = req[h].user
    BY <1>1, <2>2 DEF Locals, PC
  <2>4. LocalOK(q)
    BY <1>1, <1>7, <2>3 DEF ResolveRoles, At, LocalOK, OnUser, OnToken, OnRole
  <2>5. QED BY <1>2, <1>7, <2>1, <2>2, <2>3, <2>4 DEF ResolveRoles
<1>8. CASE AssignInsert(h)
  BY <1>2, <1>3, <1>4, <1>8 DEF AssignInsert, At, OnUser
<1>9. CASE UpdateWrite(h) \/ DeleteRole(h)
  BY <1>2, <1>3, <1>4, <1>9 DEF UpdateWrite, DeleteRole
<1>10. CASE ActivateUser(h) \/ ResetToken(h)
  BY <1>2, <1>3, <1>10 DEF ActivateUser, ResetToken, Resume, At, OnUser, OnToken
<1>11. CASE ResolveCache(h)
  BY <1>2, <1>3, <1>4, <1>11 DEF ResolveCache, Resume, At, OnUser
<1>12. CASE ActivateToken(h) \/ ResetSessions(h) \/ ResolveSet(h)
  BY <1>4, <1>12 DEF ActivateToken, ResetSessions, ResolveSet
<1>13. CASE AssignInvalidate(h) \/ InvalidateAll(h)
  BY <1>4, <1>13 DEF AssignInvalidate, InvalidateAll
<1>14. QED BY <1>5, <1>6, <1>7, <1>8, <1>9, <1>10, <1>11, <1>12, <1>13 DEF Continue

(* A tick of the clock brings the deadlines nearer that are to be written. *)
LEMMA TickMovesNext ==
  ASSUME TypeInv, Tick, NEW g \in Request
  PROVE  /\ LocalOK(req'[g]) /\ req'[g].next = Down(req[g].next)
         /\ req'[g].pc = req[g].pc /\ req'[g].user = req[g].user
         /\ req'[g].token = req[g].token /\ req'[g].session = req[g].session
         /\ req'[g].permits = req[g].permits /\ req'[g].late = req[g].late
<1>1. LocalOK(req[g]) /\ req[g] \in Locals
  BY DEF TypeInv, ReqOK
<1>2. PICK n \in 0..LifeTTL : n = Down(req[g].next)
  BY <1>1, Lifetimes DEF Locals, Down
<1>3. req'[g] = [req[g] EXCEPT !.next = n]
  BY <1>2 DEF Tick
<1>4. QED BY <1>1, <1>2, <1>3 DEF LocalOK, Locals

(* A row that somebody is about to write is not given to another session.  *)
LEMMA SlideStays ==
  ASSUME TypeInv, ReqOK',
         \A g \in Request : req'[g].pc = "slide" => SameButLate(req[g], req'[g]),
         \A s \in Session : Free(s) \/ sessions'[s].life = sessions[s].life
  PROVE  SlideOK'
<1>1. SUFFICES ASSUME NEW g \in Request, req'[g].pc = "slide"
               PROVE  req'[g].next <= sessions'[req'[g].session].life
  BY DEF SlideOK, At
<1>2. SameButLate(req[g], req'[g]) /\ req[g].pc = "slide"
  BY <1>1 DEF SameButLate
<1>3. req[g].session \in Session /\ req[g].next <= sessions[req[g].session].life
  BY <1>2 DEF TypeInv, ReqOK, LocalOK, SlideOK, At
<1>4. ~ Free(req[g].session)
  BY <1>2 DEF Free, At
<1>5. QED BY <1>2, <1>3, <1>4 DEF SameButLate

LEMMA NewTokenOK ==
  ASSUME TypeInv, NEW k \in Token, NEW kind \in {"activation", "reset"}, NEW u \in User,
         NEW ttl \in Nat, NewToken(k, kind, u, ttl)
  PROVE  tokens' \in [Token -> TokenRow] /\ \A j \in Token : TokenOK(tokens'[j])
<1> DEFINE row == [kind |-> kind, user |-> u, left |-> ttl, used |-> FALSE, uses |-> 0,
                   lost |-> 0]
<1>1. tokens' = [tokens EXCEPT ![k] = row]
  BY DEF NewToken
<1>2. TokenOK(row)
  BY DEF TokenOK, TokenRow
<1> HIDE DEF row
<1>3. QED BY <1>1, <1>2 DEF TypeInv, RowsOK, TokenOK

LEMMA AccountsKeepRows ==
  ASSUME TypeInv, NEW u \in User, Invite(u) \/ RequestReset(u) \/ CreateSession(u)
  PROVE  RowsOK'
<1>1. CASE Invite(u)
  <2>1. users' \in [User -> {"absent", "invited", "active"}]
    BY <1>1 DEF Invite, TypeInv, RowsOK
  <2>2. tokens' \in [Token -> TokenRow] /\ \A j \in Token : TokenOK(tokens'[j])
    <3>1. CASE UNCHANGED tokens
      BY <3>1 DEF TypeInv, RowsOK
    <3>2. CASE \E k \in Token : NewToken(k, "activation", u, ActivationTTL)
      BY <3>2, NewTokenOK, Lifetimes
    <3>3. QED BY <1>1, <3>1, <3>2 DEF Invite
  <2>3. QED BY <1>1, <2>1, <2>2 DEF Invite, TypeInv, ReqOK, RowsOK
<1>2. CASE RequestReset(u)
  <2>1. tokens' \in [Token -> TokenRow] /\ \A j \in Token : TokenOK(tokens'[j])
    BY <1>2, NewTokenOK, Lifetimes DEF RequestReset
  <2>2. QED BY <1>2, <2>1 DEF RequestReset, TypeInv, ReqOK, RowsOK
<1>3. CASE CreateSession(u)
  <2>1. PICK s \in Session, idle \in 1..LifeTTL :
          sessions' = [sessions EXCEPT ![s] = Opened(u, idle, FALSE)]
    BY <1>3 DEF CreateSession
  <2>2. SessionOK(Opened(u, idle, FALSE))
    BY Lifetimes DEF SessionOK, SessionRow, Opened
  <2>3. sessions' \in [Session -> SessionRow] /\ \A t \in Session : SessionOK(sessions'[t])
    BY <2>1, <2>2 DEF TypeInv, RowsOK, SessionOK
  <2>4. QED BY <1>3, <2>3 DEF CreateSession, TypeInv, ReqOK, RowsOK
<1>4. QED BY <1>1, <1>2, <1>3

LEMMA NoSessionOK == SessionOK(NoSession)
  BY Lifetimes DEF SessionOK, SessionRow, NoSession

LEMMA RevokeKeepsSessions ==
  ASSUME TypeInv, NEW revoked, Revoke(revoked)
  PROVE  sessions' \in [Session -> SessionRow] /\ \A t \in Session : SessionOK(sessions'[t])
<1>1. ASSUME NEW s \in Session
      PROVE  SessionOK([sessions[s] EXCEPT !.revoked = TRUE])
  BY DEF TypeInv, RowsOK, SessionOK, SessionRow
<1>2. QED BY <1>1 DEF TypeInv, RowsOK, Revoke, SessionOK

LEMMA TickKeepsRows ==
  ASSUME TypeInv, Tick
  PROVE  RowsOK'
<1>1. sessions' \in [Session -> SessionRow] /\ \A t \in Session : SessionOK(sessions'[t])
  <2>1. ASSUME NEW s \in Session, sessions[s].life > 1
        PROVE  SessionOK([sessions[s] EXCEPT !.idle = Down(@), !.life = @ - 1])
    <3>1. /\ sessions[s] \in SessionRow /\ sessions[s].idle <= sessions[s].life
          /\ sessions[s].user \in User
      BY <2>1, Lifetimes DEF TypeInv, RowsOK, SessionOK, SessionRow
    <3>2. PICK idle, life : idle = Down(sessions[s].idle) /\ life = sessions[s].life - 1
      OBVIOUS
    <3>3. idle \in 0..LifeTTL /\ life \in 0..LifeTTL /\ idle <= life
      BY <2>1, <3>1, <3>2, Lifetimes DEF SessionRow, Down
    <3>4. SessionOK([sessions[s] EXCEPT !.idle = idle, !.life = life])
      BY <3>1, <3>3 DEF SessionOK, SessionRow
    <3>5. QED BY <3>2, <3>4
  <2>2. ASSUME NEW s \in Session
        PROVE  SessionOK(sessions'[s])
    <3>1. sessions[s].life \in Nat
      BY Lifetimes DEF TypeInv, RowsOK, SessionRow
    <3>2. CASE sessions[s].life <= 1
      BY <3>2, NoSessionOK DEF Tick
    <3>3. CASE sessions[s].life > 1
      <4>1. sessions'[s] = IF sessions[s].life <= 1 THEN NoSession
                           ELSE [sessions[s] EXCEPT !.idle = Down(@), !.life = @ - 1]
        BY Zenon DEF Tick
      <4>2. ~ (sessions[s].life <= 1)
        BY <3>1, <3>3
      <4>3. sessions'[s] = [sessions[s] EXCEPT !.idle = Down(@), !.life = @ - 1]
        BY <4>1, <4>2, Zenon
      <4>4. QED BY <2>1, <3>3, <4>3
    <3>4. QED BY <3>1, <3>2, <3>3
  <2>3. QED BY <2>2 DEF Tick, SessionOK
<1>2. tokens' \in [Token -> TokenRow] /\ \A k \in Token : TokenOK(tokens'[k])
  <2>1. ASSUME NEW k \in Token
        PROVE  TokenOK([tokens[k] EXCEPT !.left = Down(@)])
    BY DEF TypeInv, RowsOK, TokenOK, TokenRow, Down
  <2>2. QED BY <2>1 DEF Tick, TokenOK
<1>3. cache' \in [User -> CacheRow]
  <2>1. ASSUME NEW u \in User, ~ (cache[u].left <= 1)
        PROVE  [cache[u] EXCEPT !.left = @ - 1] \in CacheRow
    BY <2>1, Lifetimes DEF TypeInv, RowsOK, CacheRow
  <2>2. NoEntry \in CacheRow
    BY Lifetimes DEF NoEntry, CacheRow
  <2>3. QED BY <2>1, <2>2 DEF Tick
<1>4. QED BY <1>1, <1>2, <1>3 DEF Tick, TypeInv, ReqOK, RowsOK


LEMMA TokensKeepRows ==
  ASSUME TypeInv, NEW h \in Request,
         \/ ActivateUser(h) \/ ActivateToken(h) \/ ResetUser(h) \/ ResetToken(h)
         \/ ResetSessions(h)
  PROVE  RowsOK'
<1>1. LocalOK(req[h]) /\ \A k \in Token : tokens[k] \in TokenRow
  BY DEF TypeInv, RowsOK, ReqOK
<1>2. ASSUME ActivateUser(h) \/ ResetUser(h)
      PROVE  /\ users' \in [User -> {"absent", "invited", "active"}]
             /\ tokens' \in [Token -> TokenRow] /\ \A k \in Token : TokenOK(tokens'[k])
  <2>1. req[h].user \in User /\ req[h].token \in Token
    BY <1>1, <1>2 DEF ActivateUser, ResetUser, At, LocalOK, OnUser, OnToken
  <2>2. SetPassword(req[h].user, req[h].token)
    BY <1>2 DEF ActivateUser, ResetUser
  <2>3. \A k \in Token : TokenOK([tokens[k] EXCEPT !.uses = @ + 1])
    BY <1>1 DEF TypeInv, RowsOK, TokenOK, TokenRow
  <2>4. QED BY <2>1, <2>2, <2>3 DEF SetPassword, TypeInv, RowsOK, TokenOK
<1>3. ASSUME ActivateToken(h) \/ ResetToken(h)
      PROVE  tokens' \in [Token -> TokenRow] /\ \A k \in Token : TokenOK(tokens'[k])
  <2>1. req[h].token \in Token
    BY <1>1, <1>3 DEF ActivateToken, ResetToken, At, LocalOK, OnToken
  <2>2. \A k \in Token : TokenOK([tokens[k] EXCEPT !.used = TRUE])
    BY <1>1 DEF TypeInv, RowsOK, TokenOK, TokenRow
  <2>3. QED BY <1>3, <2>1, <2>2 DEF ActivateToken, ResetToken, TypeInv, RowsOK, TokenOK
<1>4. CASE ResetUser(h)
  <2>1. ASSUME NEW s \in Session
        PROVE  SessionOK([sessions[s] EXCEPT !.old = TRUE, !.spared = FALSE])
    BY DEF TypeInv, RowsOK, SessionOK, SessionRow
  <2>2. sessions' \in [Session -> SessionRow] /\ \A s \in Session : SessionOK(sessions'[s])
    BY <1>4, <2>1 DEF ResetUser, TypeInv, RowsOK, SessionOK
  <2>3. QED BY <1>2, <1>4, <2>2 DEF ResetUser, TypeInv, ReqOK, RowsOK
<1>5. CASE ResetSessions(h)
  BY <1>5, RevokeKeepsSessions DEF ResetSessions, TypeInv, ReqOK, RowsOK
<1>6. CASE ActivateUser(h)
  BY <1>2, <1>6 DEF ActivateUser, TypeInv, ReqOK, RowsOK
<1>7. CASE ActivateToken(h) \/ ResetToken(h)
  BY <1>3, <1>7 DEF ActivateToken, ResetToken, TypeInv, ReqOK, RowsOK
<1>8. QED BY <1>4, <1>5, <1>6, <1>7

LEMMA SessionsKeepRows ==
  ASSUME TypeInv, NEW h \in Request,
         LoginInsert(h) \/ Slide(h)
  PROVE  RowsOK'
<1>1. CASE LoginInsert(h)
  <2>1. PICK s \in Session :
          sessions' = [sessions EXCEPT ![s] = Opened(req[h].user, IdleTTL, req[h].late)]
    BY <1>1 DEF LoginInsert
  <2>2. req[h].user \in User /\ req[h].late \in BOOLEAN
    BY <1>1 DEF LoginInsert, At, TypeInv, ReqOK, LocalOK, OnUser, Locals
  <2>3. SessionOK(Opened(req[h].user, IdleTTL, req[h].late))
    BY <2>2, Lifetimes DEF SessionOK, SessionRow, Opened
  <2>4. sessions' \in [Session -> SessionRow] /\ \A t \in Session : SessionOK(sessions'[t])
    BY <2>1, <2>3 DEF TypeInv, RowsOK, SessionOK
  <2>5. QED BY <1>1, <2>4 DEF LoginInsert, TypeInv, ReqOK, RowsOK
<1>2. CASE Slide(h)
  <2>1. PICK s \in Session, next \in 0..LifeTTL : s = req[h].session /\ next = req[h].next
    BY <1>2 DEF Slide, At, TypeInv, ReqOK, LocalOK, Locals
  <2>2. next <= sessions[s].life
    BY <1>2, <2>1 DEF Slide, TypeInv, ReqOK, SlideOK
  <2>3. SessionOK([sessions[s] EXCEPT !.idle = next])
    BY <2>2 DEF TypeInv, RowsOK, SessionOK, SessionRow
  <2>4. sessions' \in [Session -> SessionRow] /\ \A t \in Session : SessionOK(sessions'[t])
    BY <1>2, <2>1, <2>3 DEF Slide, TypeInv, RowsOK, SessionOK
  <2>5. QED BY <1>2, <2>4 DEF Slide, TypeInv, ReqOK, RowsOK
<1>3. QED BY <1>1, <1>2

LEMMA InvalidatedOK ==
  ASSUME TypeInv, NEW us, Invalidate(us)
  PROVE  cache' \in [User -> CacheRow]
<1>1. NoEntry \in CacheRow
  BY Lifetimes DEF NoEntry, CacheRow
<1>2. QED BY <1>1 DEF Invalidate, TypeInv, RowsOK

LEMMA CacheKeepsRows ==
  ASSUME TypeInv, NEW h \in Request,
         ResolveSet(h) \/ AssignInvalidate(h) \/ InvalidateAll(h)
  PROVE  RowsOK'
<1>1. CASE ResolveSet(h)
  <2>1. req[h] \in Locals /\ CacheTTL \in 0..CacheTTL
    BY Lifetimes DEF TypeInv, ReqOK
  <2>2. [permits |-> req[h].permits, left |-> CacheTTL, missed |-> req[h].late] \in CacheRow
    BY <2>1 DEF CacheRow, Locals
  <2>3. QED BY <1>1, <2>2 DEF ResolveSet, tables, TypeInv, ReqOK, RowsOK
<1>2. CASE AssignInvalidate(h) \/ InvalidateAll(h)
  BY <1>2, InvalidatedOK DEF AssignInvalidate, InvalidateAll, tables, TypeInv, ReqOK, RowsOK
<1>3. QED BY <1>1, <1>2

LEMMA RolesKeepRows ==
  ASSUME TypeInv, NEW h \in Request, AssignInsert(h) \/ UpdateWrite(h) \/ DeleteRole(h)
  PROVE  RowsOK'
<1>1. req[h] \in Locals /\ LocalOK(req[h])
  BY DEF TypeInv, ReqOK
<1>2. CASE AssignInsert(h)
  <2>1. req[h].user \in User /\ req[h].role \in Role
    BY <1>1, <1>2 DEF AssignInsert, At, LocalOK, OnUser, OnRole
  <2>2. assigned' \in [User -> SUBSET Role]
    BY <1>2, <2>1 DEF AssignInsert, TypeInv, RowsOK
  <2>3. QED BY <1>2, <2>2 DEF AssignInsert, TypeInv, ReqOK, RowsOK
<1>3. CASE UpdateWrite(h)
  <2>1. /\ req[h].role \in Role /\ req[h].status \in {"active", "inactive", None}
        /\ req[h].permits \in BOOLEAN
    BY <1>1, <1>3 DEF UpdateWrite, At, LocalOK, Locals, OnRole
  <2>2. ASSUME NEW x \in RoleRow
        PROVE  [status |-> IF req[h].status = None THEN x.status ELSE req[h].status,
                permits |-> req[h].permits] \in RoleRow
    BY <2>1 DEF RoleRow
  <2>3. roles[req[h].role] \in RoleRow
    BY <2>1 DEF TypeInv, RowsOK
  <2>4. roles' \in [Role -> RoleRow]
    <3> DEFINE row == [status |-> IF req[h].status = None THEN roles[req[h].role].status
                                  ELSE req[h].status,
                       permits |-> req[h].permits]
    <3>1. row \in RoleRow
      BY <2>2, <2>3
    <3>2. roles' = roles \/ roles' = [roles EXCEPT ![req[h].role] = row]
      BY <1>3 DEF UpdateWrite
    <3> HIDE DEF row
    <3>3. QED BY <3>1, <3>2 DEF TypeInv, RowsOK
  <2>5. QED BY <1>3, <2>4 DEF UpdateWrite, TypeInv, ReqOK, RowsOK
<1>4. CASE DeleteRole(h)
  <2>1. [status |-> "deleted", permits |-> FALSE] \in RoleRow
    BY DEF RoleRow
  <2>2. roles' \in [Role -> RoleRow]
    BY <1>4, <2>1 DEF DeleteRole, TypeInv, RowsOK
  <2>3. QED BY <1>4, <2>2 DEF DeleteRole, TypeInv, ReqOK, RowsOK
<1>5. QED BY <1>2, <1>3, <1>4

LEMMA FailKeepsRows ==
  ASSUME TypeInv, NEW h \in Request, Fail(h)
  PROVE  RowsOK' /\ \A s \in Session : sessions'[s].life = sessions[s].life
<1>1. ASSUME NEW k \in Token
      PROVE  TokenOK([tokens[k] EXCEPT !.lost = @ + 1])
  BY DEF TypeInv, RowsOK, TokenOK, TokenRow
<1>2. tokens' \in [Token -> TokenRow] /\ \A k \in Token : TokenOK(tokens'[k])
  BY <1>1 DEF Fail, TypeInv, RowsOK, TokenOK
<1>3. ASSUME NEW s \in Session
      PROVE  SessionOK(sessions'[s]) /\ sessions'[s].life = sessions[s].life
  <2>1. sessions[s] \in SessionRow /\ SessionOK(sessions[s])
    BY DEF TypeInv, RowsOK
  <2>2. PICK spared \in BOOLEAN : spared = (sessions[s].spared \/ sessions[s].old)
    OBVIOUS
  <2>3. sessions'[s] \in {[sessions[s] EXCEPT !.spared = spared], sessions[s]}
    BY <2>2 DEF Fail
  <2>4. QED BY <2>1, <2>3 DEF SessionOK, SessionRow
<1>4. sessions' \in [Session -> SessionRow] /\ \A s \in Session : SessionOK(sessions'[s])
  BY <1>3 DEF Fail, SessionOK
<1>5. ASSUME NEW u \in User
      PROVE  [cache[u] EXCEPT !.missed = @ \/ Stale(u)] \in CacheRow
  BY DEF TypeInv, RowsOK, CacheRow
<1>6. cache' \in [User -> CacheRow]
  BY <1>5 DEF Fail, TypeInv, RowsOK
<1>7. QED BY <1>2, <1>3, <1>4, <1>6 DEF Fail, TypeInv, ReqOK, RowsOK

LEMMA NextKeepsTypes == TypeInv /\ [Next]_vars => TypeInv'
<1> SUFFICES ASSUME TypeInv, [Next]_vars PROVE TypeInv'
  OBVIOUS
<1>1. ASSUME RowsOK', ReqOK',
             \A g \in Request : req'[g].pc = "slide" => SameButLate(req[g], req'[g]),
             \A s \in Session : Free(s) \/ sessions'[s].life = sessions[s].life
      PROVE  TypeInv'
  BY <1>1, SlideStays DEF TypeInv, ReqOK
<1>2. ASSUME RowsOK', UNCHANGED req,
             \A s \in Session : Free(s) \/ sessions'[s].life = sessions[s].life
      PROVE  TypeInv'
  <2>1. ReqOK'
    BY <1>2 DEF TypeInv, ReqOK
  <2>2. QED BY <1>1, <1>2, <2>1 DEF SameButLate
<1>3. ASSUME RowsOK', NEW h \in Request, LocalsKept(h), req'[h].pc # "slide",
             \A s \in Session : Free(s) \/ sessions'[s].life = sessions[s].life
      PROVE  TypeInv'
  BY <1>1, <1>3 DEF LocalsKept, OnlyLate
<1>4. RowsOK
  BY DEF TypeInv, ReqOK
<1>5. CASE Tick
  <2>1. RowsOK'
    BY <1>5, TickKeepsRows
  <2>2. ReqOK'
    BY <1>5, TickMovesNext DEF Tick, ReqOK, LocalOK
  <2>3. ASSUME NEW g \in Request, req'[g].pc = "slide"
        PROVE  req'[g].next <= sessions'[req'[g].session].life
    <3>1. PICK s \in Session : s = req[g].session /\ s = req'[g].session
      BY <1>5, <2>3, TickMovesNext DEF LocalOK
    <3>2. /\ req[g].next <= sessions[s].life /\ req'[g].next = Down(req[g].next)
          /\ req[g].next \in Nat /\ sessions[s].life \in Nat
      BY <1>5, <2>3, <3>1, TickMovesNext, Lifetimes
         DEF TypeInv, RowsOK, ReqOK, SlideOK, At, LocalOK, Locals, SessionRow
    <3>3. sessions'[s].life = IF sessions[s].life <= 1 THEN 0 ELSE sessions[s].life - 1
      <4>1. CASE sessions[s].life <= 1
        BY <1>5, <4>1 DEF Tick, NoSession
      <4>2. CASE ~ (sessions[s].life <= 1)
        <5>1. sessions'[s] = [sessions[s] EXCEPT !.idle = Down(@), !.life = @ - 1]
          BY <1>5, <4>2 DEF Tick
        <5>2. QED BY <4>2, <5>1 DEF TypeInv, ReqOK, SessionRow
      <4>3. QED BY <4>1, <4>2
    <3>4. QED BY <3>1, <3>2, <3>3 DEF Down
  <2>4. QED BY <2>1, <2>2, <2>3 DEF TypeInv, ReqOK, SlideOK, At
<1>6. ASSUME NEW u \in User, Invite(u) \/ RequestReset(u) \/ CreateSession(u)
      PROVE  TypeInv'
  <2>1. \A s \in Session : Free(s) \/ sessions'[s].life = sessions[s].life
    BY <1>6 DEF Invite, RequestReset, CreateSession, TypeInv, RowsOK
  <2>2. UNCHANGED req
    BY <1>6 DEF Invite, RequestReset, CreateSession
  <2>3. QED BY <1>2, <1>6, <2>1, <2>2, AccountsKeepRows
<1>7. ASSUME NEW s \in Session, RevokeSession(s)
      PROVE  TypeInv'
  <2>1. \A t \in Session : sessions'[t].life = sessions[t].life
    BY <1>7 DEF RevokeSession, Revoke, TypeInv, ReqOK, SessionRow
  <2>2. RowsOK'
    BY <1>7, RevokeKeepsSessions DEF RevokeSession, TypeInv, ReqOK, RowsOK
  <2>3. QED BY <1>2, <1>7, <2>1, <2>2 DEF RevokeSession
<1>8. ASSUME NEW r \in Role, CreateRole(r)
      PROVE  TypeInv'
  <2>1. roles' \in [Role -> RoleRow]
    BY <1>8 DEF CreateRole, TypeInv, RowsOK, RoleRow
  <2>2. QED BY <1>2, <1>8, <2>1 DEF CreateRole, TypeInv, ReqOK, RowsOK
<1>9. ASSUME NEW h \in Request, Start(h)
      PROVE  TypeInv'
  <2>1. UNCHANGED <<tables, cache>>
    BY <1>9 DEF Start, ActivateRead, ResetRead, LoginRead, Authenticate, UpdateRead,
                DeleteRead, AssignRead
  <2>2. RowsOK' /\ ReqOK' /\ \A s \in Session : sessions'[s].life = sessions[s].life
    BY <1>4, <1>9, <2>1, StartKeepsLocals DEF RowsOK, tables
  <2>3. ASSUME NEW g \in Request, req'[g].pc = "slide"
        PROVE  req'[g].next <= sessions'[req'[g].session].life
    <3>1. CASE g = h
      BY <1>9, <2>1, <2>3, <3>1, StartKeepsLocals DEF tables
    <3>2. CASE g # h
      BY <1>9, <2>1, <2>3, <3>2, StartKeepsLocals DEF tables, TypeInv, ReqOK, SlideOK, At
    <3>3. QED BY <3>1, <3>2
  <2>4. QED BY <2>2, <2>3 DEF TypeInv, ReqOK, SlideOK, At
<1>10. ASSUME NEW h \in Request, Continue(h)
      PROVE  TypeInv'
  <2>1. LocalsKept(h) /\ req'[h].pc # "slide"
    BY <1>10, ContinueKeepsLocals
  <2>2. RowsOK'
    <3>1. CASE ResolveCache(h) \/ ResolveRoles(h)
      BY <1>4, <3>1 DEF ResolveCache, ResolveRoles, RowsOK, tables
    <3>2. QED BY <1>10, <3>1, TokensKeepRows, SessionsKeepRows, CacheKeepsRows,
                 RolesKeepRows DEF Continue
  <2>3. ASSUME NEW s \in Session
        PROVE  Free(s) \/ sessions'[s].life = sessions[s].life
    <3>1. sessions[s] \in SessionRow
      BY DEF TypeInv, RowsOK
    <3>2. CASE ResetUser(h) \/ ResetSessions(h)
      <4>1. sessions'[s] \in {sessions[s], [sessions[s] EXCEPT !.revoked = TRUE],
                              [sessions[s] EXCEPT !.old = TRUE, !.spared = FALSE]}
        BY <3>2 DEF ResetUser, ResetSessions, Revoke
      <4>2. QED BY <3>1, <4>1 DEF SessionRow
    <3>3. CASE LoginInsert(h)
      BY <3>3 DEF LoginInsert, TypeInv, ReqOK
    <3>4. CASE Slide(h)
      <4>1. sessions' = [sessions EXCEPT ![req[h].session].idle = req[h].next]
        BY <3>4 DEF Slide
      <4>2. QED BY <3>1, <4>1 DEF TypeInv, ReqOK, SessionRow
    <3>5. CASE \/ ActivateUser(h) \/ ActivateToken(h) \/ ResetToken(h)
               \/ ResolveCache(h) \/ ResolveRoles(h) \/ ResolveSet(h)
               \/ AssignInsert(h) \/ AssignInvalidate(h)
               \/ UpdateWrite(h) \/ DeleteRole(h) \/ InvalidateAll(h)
      BY <3>5 DEF ActivateUser, ActivateToken, ResetToken, ResolveCache, ResolveRoles,
         ResolveSet, AssignInsert, AssignInvalidate, UpdateWrite, DeleteRole, InvalidateAll,
         tables
    <3>6. QED BY <1>10, <3>2, <3>3, <3>4, <3>5 DEF Continue
  <2>4. QED BY <1>3, <2>1, <2>2, <2>3
<1>11. ASSUME NEW h \in Request, Fail(h)
       PROVE  TypeInv'
  <2>1. LocalsKept(h) /\ req'[h].pc # "slide"
    BY <1>11, IdleOK, GotoKeepsLocals DEF Fail
  <2>2. QED BY <1>3, <1>11, <2>1, FailKeepsRows
<1>12. CASE Restart
  BY <1>2, <1>4, <1>12, InvalidatedOK DEF Restart, tables, RowsOK
<1>13. CASE UNCHANGED vars
  BY <1>2, <1>4, <1>13 DEF vars, tables, RowsOK
<1>14. QED BY <1>5, <1>6, <1>7, <1>8, <1>9, <1>10, <1>11, <1>12, <1>13 DEF Next

LEMMA InitTypes == Init => TypeInv
<1> SUFFICES ASSUME Init PROVE TypeInv
  OBVIOUS
<1>1. TokenOK(NoToken) /\ NoRole \in RoleRow /\ NoEntry \in CacheRow
  BY Lifetimes DEF TokenOK, TokenRow, NoToken, NoRole, RoleRow, NoEntry, CacheRow
<1>2. QED BY <1>1, IdleOK, NoSessionOK
          DEF Init, TypeInv, RowsOK, ReqOK, LocalOK, SessionOK, TokenOK, SlideOK, At

LEMMA TypeInvariant == Spec => []TypeInv
  BY InitTypes, NextKeepsTypes, PTL DEF Spec

(* Every row is well formed and no session is given a deadline past its    *)
(* lifetime, however often it slides and however late the write comes that *)
(* actorFromSessionToken reckoned from an earlier reading.                 *)
THEOREM TypeCorrect == Spec => []TypeOK
  BY TypeInvariant, TypeInvImpliesTypeOK, PTL


-----------------------------------------------------------------------------
(* The cache.                                                              *)

(* Only roles that are stored are assigned: the foreign key.               *)
AssignedStored ==
  \A u \in User : \A r \in assigned[u] : roles[r].status \in {"active", "inactive"}

Pending(u) ==
  \E h \in Request : \/ At(h, "invalidateAll")
                     \/ At(h, "assignInvalidate") /\ req[h].user = u

(* What a handler has resolved is what the roles give, unless it is late.  *)
ResolvedNow(q) ==
  q.pc = "resolveSet" /\ ~ q.late => q.permits = Permitted(q.user)

CacheInv ==
  /\ AssignedStored
  /\ \A h \in Request : ResolvedNow(req[h])
  /\ CacheIsCoherent

(* No invalidation ends and no role is resolved.                           *)
QuietFor(p, q) ==
  /\ p.pc \in {"invalidateAll", "assignInvalidate"} => q.pc = p.pc /\ q.user = p.user
  /\ q.pc = "resolveSet" => /\ p.pc = "resolveSet"
                            /\ q.user = p.user /\ q.permits = p.permits
                            /\ p.late => q.late

CacheNotFilled ==
  \A u \in User : cache'[u].left > 0 =>
    /\ cache[u].left > 0
    /\ cache'[u].permits = cache[u].permits /\ cache'[u].missed = cache[u].missed

LEMMA PermittedKept ==
  ASSUME UNCHANGED <<assigned, roles>>, NEW u
  PROVE  Permitted(u)' = Permitted(u)
  BY DEF Permitted

LEMMA QuietKeepsCache ==
  ASSUME CacheInv, UNCHANGED <<assigned, roles>>, CacheNotFilled,
         \A g \in Request : QuietFor(req[g], req'[g])
  PROVE  CacheInv'
<1>1. AssignedStored'
  BY DEF CacheInv, AssignedStored
<1>2. ASSUME NEW g \in Request
      PROVE  ResolvedNow(req[g])'
  <2>1. PICK u : u = req'[g].user
    OBVIOUS
  <2>2. CASE req'[g].pc = "resolveSet" /\ ~ req'[g].late
    <3>1. /\ req[g].pc = "resolveSet" /\ ~ req[g].late
          /\ req[g].user = u /\ req'[g].permits = req[g].permits
      BY <2>1, <2>2 DEF QuietFor
    <3>2. req'[g].permits = Permitted(u)
      BY <3>1 DEF CacheInv, ResolvedNow
    <3>3. Permitted(u)' = Permitted(u)
      BY PermittedKept
    <3>4. QED BY <2>1, <3>2, <3>3 DEF ResolvedNow, Permitted
  <2>3. QED BY <2>2 DEF ResolvedNow
<1>3. ASSUME NEW u \in User, Stale(u)', ~ cache'[u].missed
      PROVE  Pending(u)'
  <2>1. Stale(u) /\ ~ cache[u].missed
    BY <1>3, PermittedKept DEF Stale, CacheNotFilled
  <2>2. PICK h \in Request : \/ At(h, "invalidateAll")
                             \/ At(h, "assignInvalidate") /\ req[h].user = u
    BY <2>1 DEF CacheInv, CacheIsCoherent
  <2>3. QED BY <2>2 DEF QuietFor, At, Pending
<1>4. QED BY <1>1, <1>2, <1>3 DEF CacheInv, CacheIsCoherent, Pending

(* A change of what is assigned or of a role, on the way to invalidating.  *)
LEMMA ChangeKeepsCache ==
  ASSUME TypeInv, CacheInv, NEW h \in Request, NEW pc \in PC, UNCHANGED cache,
         Overtake(h, [req[h] EXCEPT !.pc = pc]), AssignedStored',
         pc \notin {"resolveSet"}, req[h].pc \notin {"invalidateAll", "assignInvalidate"},
         LocalOK([req[h] EXCEPT !.pc = pc]),
         \A u \in User : \/ Permitted(u)' = Permitted(u)
                         \/ pc = "invalidateAll"
                         \/ pc = "assignInvalidate" /\ u = req[h].user
  PROVE  CacheInv'
<1> DEFINE q == [req[h] EXCEPT !.pc = pc]
<1>1. /\ OnlyLate(h) /\ req'[h] = q /\ q.pc = pc /\ q.user = req[h].user
      /\ \A g \in Request \ {h} : req[g].pc = "resolveSet" => req'[g].late
  BY OvertakeKeepsLocals DEF LocalsKept, TypeInv, ReqOK, Locals
<1> HIDE DEF q
<1>2. ASSUME NEW g \in Request
      PROVE  ResolvedNow(req[g])'
  BY <1>1 DEF ResolvedNow, OnlyLate, SameButLate
<1>3. ASSUME NEW u \in User, Stale(u)', ~ cache'[u].missed
      PROVE  Pending(u)'
  <2>1. CASE Permitted(u)' = Permitted(u)
    <3>1. Stale(u) /\ ~ cache[u].missed
      BY <1>3, <2>1 DEF Stale
    <3>2. PICK g \in Request : \/ At(g, "invalidateAll")
                               \/ At(g, "assignInvalidate") /\ req[g].user = u
      BY <3>1 DEF CacheInv, CacheIsCoherent
    <3>3. g # h
      BY <3>2 DEF At
    <3>4. QED BY <1>1, <3>2, <3>3 DEF OnlyLate, SameButLate, At, Pending
  <2>2. CASE pc = "invalidateAll" \/ (pc = "assignInvalidate" /\ u = req[h].user)
    BY <1>1, <2>2 DEF Pending, At
  <2>3. QED BY <2>1, <2>2
<1>4. QED BY <1>2, <1>3 DEF CacheInv, CacheIsCoherent, Pending

LEMMA RolesKeepCache ==
  ASSUME TypeInv, CacheInv, NEW h \in Request,
         AssignInsert(h) \/ UpdateWrite(h) \/ DeleteRole(h)
  PROVE  CacheInv'
<1>1. req[h] \in Locals /\ LocalOK(req[h])
  BY DEF TypeInv, ReqOK
<1>2. ASSUME Goto(h, Idle), UNCHANGED <<assigned, roles, cache>>,
             req[h].pc \notin {"invalidateAll", "assignInvalidate"}
      PROVE  CacheInv'
  <2>1. \A g \in Request : QuietFor(req[g], req'[g])
    BY <1>2, IdleOK, LocalStep DEF QuietFor, Idle
  <2>2. QED BY <1>2, <2>1, QuietKeepsCache DEF CacheNotFilled
<1>3. CASE AssignInsert(h)
  <2>1. req[h].user \in User /\ req[h].role \in Role /\ req[h].pc = "assignInsert"
    BY <1>1, <1>3 DEF AssignInsert, At, LocalOK, OnUser, OnRole
  <2>2. CASE roles[req[h].role].status \in {"active", "inactive"}
    <3>1. /\ assigned' = [assigned EXCEPT ![req[h].user] = @ \cup {req[h].role}]
          /\ Overtake(h, [req[h] EXCEPT !.pc = "assignInvalidate"])
          /\ UNCHANGED <<roles, cache>>
      BY <1>3, <2>2 DEF AssignInsert
    <3>2. AssignedStored'
      BY <2>1, <2>2, <3>1 DEF CacheInv, AssignedStored, TypeInv, ReqOK
    <3>3. ASSUME NEW u \in User \ {req[h].user}
          PROVE  Permitted(u)' = Permitted(u)
      <4>1. assigned'[u] = assigned[u]
        BY <2>1, <3>1 DEF TypeInv, ReqOK
      <4>2. QED BY <3>1, <4>1 DEF Permitted
    <3>4. LocalOK([req[h] EXCEPT !.pc = "assignInvalidate"])
      BY <1>1, <2>1 DEF LocalOK, Locals, PC, OnUser, OnToken, OnRole
    <3>5. \A u \in User : Permitted(u)' = Permitted(u) \/ u = req[h].user
      BY <3>3
    <3>6. "assignInvalidate" \in PC
      BY DEF PC
    <3>7. QED BY <2>1, <3>1, <3>2, <3>4, <3>5, <3>6, ChangeKeepsCache
  <2>3. CASE ~ roles[req[h].role].status \in {"active", "inactive"}
    BY <1>2, <1>3, <2>1, <2>3 DEF AssignInsert
  <2>4. QED BY <2>2, <2>3
<1>4. LocalOK([req[h] EXCEPT !.pc = "invalidateAll"])
  BY <1>1 DEF LocalOK, Locals, PC, OnUser, OnToken, OnRole
<1>5. CASE UpdateWrite(h)
  <2>1. req[h].role \in Role /\ req[h].pc = "updateWrite"
        /\ req[h].status \in {"active", "inactive", None}
    BY <1>1, <1>5 DEF UpdateWrite, At, LocalOK, Locals, OnRole
  <2>2. CASE roles[req[h].role].status = "deleted"
    BY <1>2, <1>5, <2>1, <2>2 DEF UpdateWrite
  <2>3. CASE roles[req[h].role].status # "deleted"
    <3>1. AssignedStored'
      <4>1. roles'[req[h].role].status \in {roles[req[h].role].status, "active", "inactive"}
        BY <1>5, <2>1, <2>3 DEF UpdateWrite, TypeInv, RowsOK
      <4>2. /\ \A r \in Role \ {req[h].role} : roles'[r] = roles[r]
            /\ assigned' = assigned
        BY <1>5, <2>1, <2>3 DEF UpdateWrite, TypeInv, RowsOK
      <4>3. QED BY <4>1, <4>2, <2>1 DEF CacheInv, AssignedStored, TypeInv, RowsOK
    <3>2. QED BY <1>4, <1>5, <2>1, <2>3, <3>1, ChangeKeepsCache DEF UpdateWrite, PC
  <2>4. QED BY <2>2, <2>3
<1>6. CASE DeleteRole(h)
  <2>1. req[h].role \in Role /\ req[h].pc = "deleteRole"
    BY <1>1, <1>6 DEF DeleteRole, At, LocalOK, OnRole
  <2>2. CASE \E u \in User : req[h].role \in assigned[u]
    BY <1>2, <1>6, <2>1, <2>2 DEF DeleteRole
  <2>3. CASE ~ \E u \in User : req[h].role \in assigned[u]
    <3>1. AssignedStored'
      BY <1>6, <2>1, <2>3 DEF DeleteRole, CacheInv, AssignedStored, TypeInv, RowsOK
    <3>2. QED BY <1>4, <1>6, <2>1, <2>3, <3>1, ChangeKeepsCache DEF DeleteRole, PC
  <2>4. QED BY <2>2, <2>3
<1>7. QED BY <1>3, <1>5, <1>6


LEMMA ResolveKeepsCache ==
  ASSUME TypeInv, CacheInv, NEW h \in Request, ResolveRoles(h) \/ ResolveSet(h)
  PROVE  CacheInv'
<1>1. req[h] \in Locals /\ LocalOK(req[h]) /\ req[h].user \in User
      /\ UNCHANGED <<assigned, roles>>
  BY DEF TypeInv, ReqOK, ResolveRoles, ResolveSet, At, LocalOK, OnUser, tables
<1>2. CASE ResolveRoles(h)
  <2> DEFINE q == [req[h] EXCEPT !.pc = "resolveSet", !.permits = Permitted(req[h].user)]
  <2>1. /\ req' = [req EXCEPT ![h] = q] /\ q.user = req[h].user /\ UNCHANGED cache
        /\ q.permits = Permitted(req[h].user) /\ q.pc = "resolveSet"
        /\ req[h].pc = "resolveRoles"
    BY <1>1, <1>2 DEF ResolveRoles, Goto, At, Locals
  <2> HIDE DEF q
  <2>2. /\ req'[h] = q /\ \A g \in Request \ {h} : req'[g] = req[g]
    BY <2>1 DEF TypeInv, ReqOK
  <2>3. ASSUME NEW g \in Request
        PROVE  ResolvedNow(req[g])'
    <3>1. CASE g = h
      <4>1. PICK u : u = req[h].user
        OBVIOUS
      <4>2. Permitted(u)' = Permitted(u)
        BY <1>1, PermittedKept
      <4>3. QED BY <2>1, <2>2, <3>1, <4>1, <4>2 DEF ResolvedNow, Permitted
    <3>2. CASE g # h
      BY <1>1, <2>2, <3>2 DEF CacheInv, ResolvedNow, Permitted
    <3>3. QED BY <3>1, <3>2
  <2>4. ASSUME NEW u \in User, Stale(u)', ~ cache'[u].missed
        PROVE  Pending(u)'
    <3>1. Stale(u) /\ ~ cache[u].missed
      BY <1>1, <2>1, <2>4, PermittedKept DEF Stale
    <3>2. PICK g \in Request : \/ At(g, "invalidateAll")
                               \/ At(g, "assignInvalidate") /\ req[g].user = u
      BY <3>1 DEF CacheInv, CacheIsCoherent
    <3>3. g # h
      BY <2>1, <3>2 DEF At
    <3>4. QED BY <2>2, <3>2, <3>3 DEF At, Pending
  <2>5. QED BY <1>1, <2>3, <2>4 DEF CacheInv, AssignedStored, CacheIsCoherent, Pending
<1>3. CASE ResolveSet(h)
  <2>1. /\ req'[h] = Idle /\ \A g \in Request \ {h} : req'[g] = req[g]
        /\ req[h].pc = "resolveSet" /\ Idle.pc = "idle"
    BY <1>3 DEF ResolveSet, Goto, At, TypeInv, ReqOK, Idle
  <2>2. ASSUME NEW g \in Request
        PROVE  ResolvedNow(req[g])'
    BY <1>1, <2>1 DEF CacheInv, ResolvedNow, Permitted
  <2>3. ASSUME NEW u \in User, Stale(u)', ~ cache'[u].missed
        PROVE  Pending(u)'
    <3>1. CASE u = req[h].user
      <4>1. cache'[u].permits = req[h].permits /\ cache'[u].missed = req[h].late
        BY <1>3, <3>1 DEF ResolveSet, TypeInv, RowsOK
      <4>2. cache'[u].permits = Permitted(u)
        BY <2>1, <2>3, <3>1, <4>1 DEF CacheInv, ResolvedNow
      <4>3. QED BY <1>1, <2>3, <4>2, PermittedKept DEF Stale
    <3>2. CASE u # req[h].user
      <4>1. cache'[u] = cache[u]
        BY <1>1, <1>3, <3>2 DEF ResolveSet, TypeInv, ReqOK
      <4>2. Stale(u) /\ ~ cache[u].missed
        BY <1>1, <2>3, <4>1, PermittedKept DEF Stale
      <4>3. PICK g \in Request : \/ At(g, "invalidateAll")
                                 \/ At(g, "assignInvalidate") /\ req[g].user = u
        BY <4>2 DEF CacheInv, CacheIsCoherent
      <4>4. QED BY <2>1, <4>3 DEF At, Pending
    <3>3. QED BY <3>1, <3>2
  <2>4. QED BY <1>1, <2>2, <2>3 DEF CacheInv, AssignedStored, CacheIsCoherent, Pending
<1>4. QED BY <1>2, <1>3

LEMMA InvalidateKeepsCache ==
  ASSUME TypeInv, CacheInv, NEW h \in Request, AssignInvalidate(h) \/ InvalidateAll(h)
  PROVE  CacheInv'
<1>1. PICK us : /\ Invalidate(us) /\ \A u \in User : u \notin us =>
                     ~ At(h, "invalidateAll") /\ ~ (At(h, "assignInvalidate") /\ req[h].user = u)
  BY DEF AssignInvalidate, InvalidateAll, At
<1>2. UNCHANGED <<assigned, roles>>
  BY DEF AssignInvalidate, InvalidateAll, tables
<1>3. /\ req'[h] = Idle /\ Idle.pc = "idle" /\ \A g \in Request \ {h} : req'[g] = req[g]
  BY DEF AssignInvalidate, InvalidateAll, Goto, TypeInv, ReqOK, Idle
<1>4. ASSUME NEW g \in Request
      PROVE  ResolvedNow(req[g])'
  BY <1>2, <1>3 DEF CacheInv, ResolvedNow, Permitted
<1>5. ASSUME NEW u \in User, Stale(u)', ~ cache'[u].missed
      PROVE  Pending(u)'
  <2>1. u \notin us
    BY <1>1, <1>5 DEF Invalidate, Stale, NoEntry
  <2>2. cache'[u] = cache[u]
    BY <1>1, <2>1 DEF Invalidate
  <2>3. Stale(u) /\ ~ cache[u].missed
    BY <1>2, <1>5, <2>2, PermittedKept DEF Stale
  <2>4. PICK g \in Request : \/ At(g, "invalidateAll")
                             \/ At(g, "assignInvalidate") /\ req[g].user = u
    BY <2>3 DEF CacheInv, CacheIsCoherent
  <2>5. g # h
    BY <1>1, <2>1, <2>4
  <2>6. QED BY <1>3, <2>4, <2>5 DEF At, Pending
<1>6. QED BY <1>2, <1>4, <1>5 DEF CacheInv, AssignedStored, CacheIsCoherent, Pending

(* Where the steps lead that resolve nothing.                              *)
LEMMA ContinueSetsPc ==
  ASSUME TypeInv, NEW h \in Request,
         \/ ActivateUser(h) \/ ActivateToken(h) \/ ResetUser(h) \/ ResetToken(h)
         \/ ResetSessions(h) \/ LoginInsert(h) \/ Slide(h) \/ ResolveCache(h)
  PROVE  req'[h].pc # "resolveSet"
<1>1. /\ req[h] \in Locals /\ \A q : Goto(h, q) => req'[h] = q
      /\ Idle \in Locals /\ Idle.pc = "idle"
  BY IdleOK DEF TypeInv, ReqOK, Goto, LocalOK, Idle
<1>2. CASE ResetUser(h)
  BY <1>1, <1>2, ResetKeepsLocals DEF Locals
<1>3. CASE ActivateToken(h) \/ ResetSessions(h)
  BY <1>1, <1>3 DEF ActivateToken, ResetSessions
<1>4. CASE LoginInsert(h) \/ Slide(h)
  BY <1>1, <1>4 DEF LoginInsert, Slide, Locals
<1>5. CASE ActivateUser(h) \/ ResetToken(h)
  BY <1>1, <1>5 DEF ActivateUser, ResetToken, Resume, Locals
<1>6. CASE ResolveCache(h)
  BY <1>1, <1>6 DEF ResolveCache, Resume, Locals
<1>7. QED BY <1>2, <1>3, <1>4, <1>5, <1>6

(* A handler that stops leaves what it did not invalidate marked.          *)
LEMMA FailKeepsCache ==
  ASSUME TypeInv, CacheInv, NEW h \in Request, Fail(h)
  PROVE  CacheInv'
<1>1. /\ UNCHANGED <<assigned, roles>> /\ req'[h] = Idle /\ Idle.pc = "idle"
      /\ \A g \in Request \ {h} : req'[g] = req[g]
  BY IdleOK, LocalStep DEF Fail
<1>2. ASSUME NEW g \in Request
      PROVE  ResolvedNow(req[g])'
  BY <1>1 DEF CacheInv, ResolvedNow, Permitted
<1>3. ASSUME NEW u \in User, Stale(u)', ~ cache'[u].missed
      PROVE  Pending(u)'
  <2> DEFINE InScope == At(h, "invalidateAll") \/ (At(h, "assignInvalidate") /\ req[h].user = u)
  <2>1. cache'[u] = IF InScope THEN [cache[u] EXCEPT !.missed = @ \/ Stale(u)] ELSE cache[u]
    BY DEF Fail
  <2>2. PICK missed \in BOOLEAN : missed = (cache[u].missed \/ Stale(u))
    OBVIOUS
  <2> HIDE DEF InScope
  <2>3. cache'[u].left = cache[u].left /\ cache'[u].permits = cache[u].permits
        /\ cache'[u].missed = IF InScope THEN missed ELSE cache[u].missed
    <3>1. cache[u] \in CacheRow
      BY DEF TypeInv, RowsOK
    <3>2. cache'[u] = IF InScope THEN [cache[u] EXCEPT !.missed = missed] ELSE cache[u]
      BY <2>1, <2>2
    <3>3. QED BY <3>1, <3>2 DEF CacheRow
  <2>4. Stale(u) /\ ~ cache[u].missed /\ ~ InScope
    BY <1>1, <1>3, <2>2, <2>3, PermittedKept DEF Stale
  <2>5. PICK g \in Request : \/ At(g, "invalidateAll")
                             \/ At(g, "assignInvalidate") /\ req[g].user = u
    BY <2>4 DEF CacheInv, CacheIsCoherent
  <2>6. g # h
    BY <2>4, <2>5 DEF InScope
  <2>7. QED BY <1>1, <2>5, <2>6 DEF At, Pending
<1>4. QED BY <1>1, <1>2, <1>3 DEF CacheInv, AssignedStored, CacheIsCoherent, Pending

LEMMA NextKeepsCache == TypeInv /\ CacheInv /\ [Next]_vars => CacheInv'
<1> SUFFICES ASSUME TypeInv, CacheInv, [Next]_vars PROVE CacheInv'
  OBVIOUS
<1>1. ASSUME UNCHANGED <<assigned, roles, cache, req>>
      PROVE  CacheInv'
  BY <1>1, QuietKeepsCache DEF CacheNotFilled, QuietFor
<1>2. CASE Tick
  <2>1. CacheNotFilled
    <3>1. ASSUME NEW u \in User, cache'[u].left > 0
          PROVE  /\ cache[u].left > 0 /\ cache'[u].permits = cache[u].permits
                 /\ cache'[u].missed = cache[u].missed
      <4>1. cache[u] \in CacheRow
        BY DEF TypeInv, RowsOK
      <4>2. cache'[u] = IF cache[u].left <= 1 THEN NoEntry ELSE [cache[u] EXCEPT !.left = @ - 1]
        BY <1>2 DEF Tick
      <4>3. ~ (cache[u].left <= 1)
        BY <3>1, <4>2 DEF NoEntry
      <4>4. QED BY <4>1, <4>2, <4>3, Lifetimes DEF CacheRow
    <3>2. QED BY <3>1 DEF CacheNotFilled
  <2>2. \A g \in Request : QuietFor(req[g], req'[g])
    BY <1>2, TickMovesNext DEF QuietFor
  <2>3. QED BY <1>2, <2>1, <2>2, QuietKeepsCache DEF Tick
<1>3. ASSUME NEW u \in User, Invite(u) \/ RequestReset(u) \/ CreateSession(u)
      PROVE  CacheInv'
  BY <1>1, <1>3 DEF Invite, RequestReset, CreateSession
<1>4. ASSUME NEW s \in Session, RevokeSession(s)
      PROVE  CacheInv'
  BY <1>1, <1>4 DEF RevokeSession
<1>5. ASSUME NEW r \in Role, CreateRole(r)
      PROVE  CacheInv'
  <2>1. PICK permits \in BOOLEAN :
          roles' = [roles EXCEPT ![r] = [status |-> "active", permits |-> permits]]
    BY <1>5 DEF CreateRole
  <2>2. roles[r].status = "absent" /\ UNCHANGED <<assigned, cache, req>>
    BY <1>5 DEF CreateRole
  <2>3. \A u \in User : r \notin assigned[u]
    BY <2>2 DEF CacheInv, AssignedStored
  <2>4. ASSUME NEW u \in User
        PROVE  Permitted(u)' = Permitted(u)
    <3>1. \A t \in assigned[u] : t # r /\ t \in Role
      BY <2>3 DEF TypeInv, RowsOK
    <3>2. \A t \in assigned[u] : roles'[t] = roles[t]
      BY <2>1, <3>1 DEF TypeInv, ReqOK
    <3>3. QED BY <2>2, <3>2 DEF Permitted
  <2>5. AssignedStored'
    BY <2>1, <2>2, <2>3 DEF CacheInv, AssignedStored, TypeInv, ReqOK
  <2>6. ASSUME NEW g \in Request
        PROVE  ResolvedNow(req[g])'
    <3>1. CASE req[g].pc = "resolveSet"
      <4>1. PICK u \in User : u = req[g].user
        BY <3>1 DEF TypeInv, ReqOK, LocalOK, OnUser
      <4>2. QED BY <2>2, <2>4, <4>1 DEF CacheInv, ResolvedNow, Permitted
    <3>2. QED BY <2>2, <3>1 DEF ResolvedNow
  <2>7. QED BY <2>2, <2>4, <2>5, <2>6 DEF CacheInv, CacheIsCoherent, Stale, At
<1>6. ASSUME NEW h \in Request, Start(h)
      PROVE  CacheInv'
  <2>1. UNCHANGED <<assigned, roles, cache>> /\ req[h].pc = "idle"
    BY <1>6 DEF Start, ActivateRead, ResetRead, LoginRead, Authenticate, UpdateRead,
                DeleteRead, AssignRead, At, tables
  <2>2. req'[h].pc # "resolveSet"
    BY <1>6, StartKeepsLocals
  <2>3. \A g \in Request : QuietFor(req[g], req'[g])
    BY <1>6, <2>1, <2>2, StartKeepsLocals DEF QuietFor
  <2>4. QED BY <2>1, <2>3, QuietKeepsCache DEF CacheNotFilled
<1>7. ASSUME NEW h \in Request, Continue(h)
      PROVE  CacheInv'
  <2>1. CASE \/ ActivateUser(h) \/ ActivateToken(h) \/ ResetUser(h) \/ ResetToken(h)
             \/ ResetSessions(h) \/ LoginInsert(h) \/ Slide(h) \/ ResolveCache(h)
    <3>1. /\ UNCHANGED <<assigned, roles, cache>>
          /\ req[h].pc \notin {"invalidateAll", "assignInvalidate"}
      BY <2>1 DEF ActivateUser, ActivateToken, ResetUser, ResetToken, ResetSessions,
                  LoginInsert, Slide, ResolveCache, At, tables
    <3>2. req'[h].pc # "resolveSet"
      BY <2>1, ContinueSetsPc
    <3>3. \A g \in Request : QuietFor(req[g], req'[g])
      <4>1. OnlyLate(h)
        BY <1>7, ContinueKeepsLocals DEF LocalsKept
      <4>2. QED BY <3>1, <3>2, <4>1 DEF QuietFor, OnlyLate, SameButLate
    <3>4. QED BY <3>1, <3>3, QuietKeepsCache DEF CacheNotFilled
  <2>2. QED BY <1>7, <2>1, ResolveKeepsCache, InvalidateKeepsCache, RolesKeepCache DEF Continue
<1>8. ASSUME NEW h \in Request, Fail(h)
      PROVE  CacheInv'
  BY <1>8, FailKeepsCache
<1>9. CASE Restart
  <2>1. CacheNotFilled /\ UNCHANGED <<assigned, roles, req>>
    BY <1>9 DEF Restart, Invalidate, CacheNotFilled, NoEntry, tables
  <2>2. QED BY <2>1, QuietKeepsCache DEF QuietFor
<1>10. CASE UNCHANGED vars
  BY <1>1, <1>10 DEF vars, tables
<1>11. QED BY <1>2, <1>3, <1>4, <1>5, <1>6, <1>7, <1>8, <1>9, <1>10 DEF Next

LEMMA InitCache == Init => CacheInv
  BY DEF Init, CacheInv, AssignedStored, ResolvedNow, CacheIsCoherent, Stale, NoEntry, Idle

(* A cached permission the roles do not give was resolved while they were  *)
(* changed, or outlived a change that failed before it invalidated, or its *)
(* invalidation is still to come: assignRole, updateTenantRole and         *)
(* deleteTenantRole write first, record the change and then invalidate,    *)
(* and resolve reads first and stores later.                               *)
THEOREM CacheCoherent == Spec => []CacheIsCoherent
<1>1. Spec => []CacheInv
  BY TypeInvariant, InitCache, NextKeepsCache, PTL DEF Spec
<1>2. CacheInv => CacheIsCoherent
  BY DEF CacheInv
<1>3. QED BY <1>1, <1>2, PTL


-----------------------------------------------------------------------------
(* The revocation on a reset.                                              *)

InReset == {"resetToken", "resetSessions"}

ResetGoesOn(p, q) == p.pc \in InReset => q.pc \in InReset /\ q.user = p.user

(* A session that a reset must have reached, or be about to.               *)
Outdated(s) == ~ sessions[s].revoked /\ sessions[s].old /\ ~ sessions[s].spared

LockInv == \A s \in Session : Outdated(s) => Resetting(sessions[s].user)

(* No session becomes outdated.                                            *)
NoneAges ==
  \A s \in Session : Outdated(s)' =>
    Outdated(s) /\ sessions'[s].user = sessions[s].user

LEMMA QuietKeepsLock ==
  ASSUME LockInv, NoneAges, \A g \in Request : ResetGoesOn(req[g], req'[g])
  PROVE  LockInv'
<1>1. SUFFICES ASSUME NEW s \in Session, Outdated(s)'
               PROVE  \E g \in Request : req'[g].user = sessions'[s].user /\ req'[g].pc \in InReset
  BY DEF LockInv, Resetting, InReset
<1>2. sessions'[s].user = sessions[s].user /\ Resetting(sessions[s].user)
  BY <1>1 DEF NoneAges, LockInv
<1>3. PICK g \in Request : req[g].user = sessions[s].user /\ req[g].pc \in InReset
  BY <1>2 DEF Resetting, InReset
<1>4. QED BY <1>2, <1>3 DEF ResetGoesOn

LEMMA InsertedIsNotOld ==
  ASSUME TypeInv, NEW s \in Session, NEW u, NEW idle, NEW late,
         sessions' = [sessions EXCEPT ![s] = Opened(u, idle, late)]
  PROVE  NoneAges
  BY DEF TypeInv, RowsOK, NoneAges, Outdated, Opened

LEMMA RevokedIsNotOld ==
  ASSUME TypeInv, NEW revoked, Revoke(revoked)
  PROVE  NoneAges
<1>1. ASSUME NEW s \in Session, Outdated(s)'
      PROVE  Outdated(s) /\ sessions'[s].user = sessions[s].user
  <2>1. sessions[s] \in SessionRow
        /\ sessions'[s] \in {sessions[s], [sessions[s] EXCEPT !.revoked = TRUE]}
    BY DEF TypeInv, RowsOK, Revoke
  <2>2. QED BY <1>1, <2>1 DEF Outdated, SessionRow
<1>2. QED BY <1>1 DEF NoneAges

(* Moving a deadline makes no session outdated.                            *)
LEMMA SlidIsNotOld ==
  ASSUME TypeInv, NEW h \in Request, Slide(h)
  PROVE  NoneAges
<1>1. sessions' = [sessions EXCEPT ![req[h].session].idle = req[h].next]
  BY DEF Slide
<1>2. QED BY <1>1 DEF TypeInv, RowsOK, SessionRow, NoneAges, Outdated

LEMMA NextKeepsLock == TypeInv /\ LockInv /\ [Next]_vars => LockInv'
<1> SUFFICES ASSUME TypeInv, LockInv, [Next]_vars PROVE LockInv'
  OBVIOUS
<1>1. ASSUME UNCHANGED req, NoneAges
      PROVE  LockInv'
  BY <1>1, QuietKeepsLock DEF ResetGoesOn
<1>2. UNCHANGED sessions => NoneAges
  BY DEF NoneAges, Outdated
<1>3. CASE Tick
  <2>1. ASSUME NEW s \in Session, Outdated(s)'
        PROVE  Outdated(s) /\ sessions'[s].user = sessions[s].user
    <3>1. sessions[s] \in SessionRow
      BY DEF TypeInv, RowsOK
    <3>2. PICK idle, life : \/ sessions'[s] = NoSession
                            \/ sessions'[s] = [sessions[s] EXCEPT !.idle = idle, !.life = life]
      BY <1>3 DEF Tick
    <3>3. ~ NoSession.old
      BY DEF NoSession
    <3>4. QED BY <2>1, <3>1, <3>2, <3>3 DEF SessionRow, Outdated
  <2>2. NoneAges
    BY <2>1 DEF NoneAges
  <2>3. \A g \in Request : ResetGoesOn(req[g], req'[g])
    BY <1>3, TickMovesNext DEF ResetGoesOn
  <2>4. QED BY <2>2, <2>3, QuietKeepsLock
<1>4. ASSUME NEW u \in User, Invite(u) \/ RequestReset(u)
      PROVE  LockInv'
  BY <1>1, <1>2, <1>4 DEF Invite, RequestReset
<1>5. ASSUME NEW u \in User, CreateSession(u)
      PROVE  LockInv'
  <2>1. PICK s \in Session, idle \in 1..LifeTTL :
          sessions' = [sessions EXCEPT ![s] = Opened(u, idle, FALSE)]
    BY <1>5 DEF CreateSession
  <2>2. NoneAges
    BY <2>1, InsertedIsNotOld
  <2>3. QED BY <1>1, <1>5, <2>2 DEF CreateSession
<1>6. ASSUME NEW s \in Session, RevokeSession(s)
      PROVE  LockInv'
  BY <1>1, <1>6, RevokedIsNotOld DEF RevokeSession
<1>7. ASSUME NEW r \in Role, CreateRole(r)
      PROVE  LockInv'
  BY <1>1, <1>2, <1>7 DEF CreateRole
<1>8. ASSUME NEW h \in Request, req[h].pc \notin InReset, OnlyLate(h), NoneAges
      PROVE  LockInv'
  <2>1. \A g \in Request : ResetGoesOn(req[g], req'[g])
    BY <1>8 DEF ResetGoesOn, OnlyLate, SameButLate
  <2>2. QED BY <1>8, <2>1, QuietKeepsLock
<1>9. ASSUME NEW h \in Request, Start(h)
      PROVE  LockInv'
  <2>1. req[h].pc = "idle"
    BY <1>9 DEF Start, ActivateRead, ResetRead, LoginRead, Authenticate, UpdateRead,
                DeleteRead, AssignRead, At
  <2>2. OnlyLate(h)
    BY <1>9, StartKeepsLocals DEF OnlyLate, SameButLate
  <2>3. NoneAges
    BY <1>2, <1>9 DEF Start, ActivateRead, ResetRead, LoginRead, Authenticate, UpdateRead,
                      DeleteRead, AssignRead, tables
  <2>4. QED BY <1>8, <2>1, <2>2, <2>3 DEF InReset
<1>10. ASSUME NEW h \in Request, Continue(h)
      PROVE  LockInv'
  <2>1. OnlyLate(h)
    BY <1>10, ContinueKeepsLocals DEF LocalsKept
  <2>2. CASE ResetUser(h)
    <3>1. req'[h].pc = "resetToken" /\ req'[h].user = req[h].user /\ req[h].pc = "resetUser"
      <4>1. req'[h] = [req[h] EXCEPT !.pc = "resetToken"]
        BY <2>2, ResetKeepsLocals
      <4>2. req[h] \in Locals
        BY DEF TypeInv, ReqOK
      <4>3. req[h].pc = "resetUser"
        BY <2>2 DEF ResetUser, At
      <4>4. QED BY <4>1, <4>2, <4>3 DEF Locals
    <3>2. ASSUME NEW s \in Session, Outdated(s)'
          PROVE  \E g \in Request : req'[g].user = sessions'[s].user /\ req'[g].pc \in InReset
      <4>1. sessions'[s] = IF sessions[s].user = req[h].user
                           THEN [sessions[s] EXCEPT !.old = TRUE, !.spared = FALSE]
                           ELSE sessions[s]
        BY <2>2 DEF ResetUser
      <4>2. CASE sessions[s].user = req[h].user
        <5>1. sessions'[s].user = sessions[s].user
          BY <4>1, <4>2 DEF TypeInv, RowsOK, SessionRow
        <5>2. QED BY <3>1, <4>2, <5>1 DEF InReset
      <4>3. CASE sessions[s].user # req[h].user
        <5>1. sessions'[s] = sessions[s] /\ Resetting(sessions[s].user)
          BY <3>2, <4>1, <4>3 DEF LockInv, Outdated
        <5>2. PICK g \in Request : req[g].user = sessions[s].user /\ req[g].pc \in InReset
          BY <5>1 DEF Resetting, InReset
        <5>3. req'[g].user = req[g].user /\ req'[g].pc = req[g].pc
          BY <2>1, <3>1, <5>2 DEF OnlyLate, SameButLate, InReset
        <5>4. QED BY <5>1, <5>2, <5>3
      <4>4. QED BY <4>2, <4>3
    <3>3. QED BY <3>2 DEF LockInv, Resetting, InReset
  <2>3. CASE ResetToken(h)
    <3>1. req'[h].pc = "resetSessions" /\ req'[h].user = req[h].user /\ UNCHANGED sessions
      BY <2>3 DEF ResetToken, Resume, Goto, TypeInv, ReqOK, Locals
    <3>2. \A g \in Request : ResetGoesOn(req[g], req'[g])
      BY <2>1, <3>1 DEF ResetGoesOn, OnlyLate, SameButLate, InReset
    <3>3. QED BY <1>2, <3>1, <3>2, QuietKeepsLock
  <2>4. CASE ResetSessions(h)
    <3>1. SUFFICES ASSUME NEW s \in Session, Outdated(s)'
                   PROVE  \E g \in Request : /\ req'[g].user = sessions'[s].user
                                             /\ req'[g].pc \in InReset
      BY DEF LockInv, Resetting, InReset
    <3>2. sessions'[s] = sessions[s] /\ sessions[s].user # req[h].user
      <4>1. sessions'[s] = IF sessions[s].user = req[h].user
                           THEN [sessions[s] EXCEPT !.revoked = TRUE] ELSE sessions[s]
        BY <2>4 DEF ResetSessions, Revoke
      <4>2. CASE sessions[s].user = req[h].user
        BY <3>1, <4>1, <4>2 DEF TypeInv, RowsOK, SessionRow, Outdated
      <4>3. QED BY <4>1, <4>2
    <3>3. PICK g \in Request : req[g].user = sessions[s].user /\ req[g].pc \in InReset
      BY <3>1, <3>2 DEF LockInv, Outdated, Resetting, InReset
    <3>4. QED BY <2>1, <3>2, <3>3 DEF OnlyLate, SameButLate
  <2>5. CASE LoginInsert(h)
    <3>1. req[h].pc \notin InReset
      BY <2>5 DEF LoginInsert, At, InReset
    <3>2. NoneAges
      <4>1. PICK s \in Session :
              sessions' = [sessions EXCEPT ![s] = Opened(req[h].user, IdleTTL, req[h].late)]
        BY <2>5 DEF LoginInsert
      <4>2. QED BY <4>1, InsertedIsNotOld
    <3>3. QED BY <1>8, <2>1, <3>1, <3>2
  <2>6. CASE Slide(h)
    BY <1>8, <2>1, <2>6, SlidIsNotOld DEF Slide, At, InReset
  <2>7. CASE \/ ActivateUser(h) \/ ActivateToken(h) \/ ResolveCache(h) \/ ResolveRoles(h)
             \/ ResolveSet(h)
    <3>1. req[h].pc \notin InReset /\ UNCHANGED sessions
      BY <2>7 DEF ActivateUser, ActivateToken, ResolveCache, ResolveRoles, ResolveSet, At,
                  InReset, tables
    <3>2. QED BY <1>2, <1>8, <2>1, <3>1
  <2>8. CASE \/ AssignInsert(h) \/ AssignInvalidate(h) \/ UpdateWrite(h) \/ DeleteRole(h)
             \/ InvalidateAll(h)
    <3>1. req[h].pc \notin InReset /\ UNCHANGED sessions
      BY <2>8 DEF AssignInsert, AssignInvalidate, UpdateWrite, DeleteRole, InvalidateAll, At,
                  InReset, tables
    <3>2. QED BY <1>2, <1>8, <2>1, <3>1
  <2>9. QED BY <1>10, <2>2, <2>3, <2>4, <2>5, <2>6, <2>7, <2>8 DEF Continue
<1>11. ASSUME NEW h \in Request, Fail(h)
       PROVE  LockInv'
  <2>1. OnlyLate(h)
    BY <1>11, IdleOK, GotoKeepsLocals DEF Fail, LocalsKept
  <2>2. ASSUME NEW s \in Session, Outdated(s)'
        PROVE  \E g \in Request : req'[g].user = sessions'[s].user /\ req'[g].pc \in InReset
    <3> DEFINE Left == req[h].pc \in InReset /\ req[h].user = sessions[s].user
    <3>1. sessions'[s] = IF Left THEN [sessions[s] EXCEPT !.spared = @ \/ sessions[s].old]
                         ELSE sessions[s]
      BY <1>11 DEF Fail, InReset
    <3> HIDE DEF Left
    <3>2. sessions'[s] = sessions[s] /\ ~ Left
      <4>1. CASE Left
        <5>1. PICK spared \in BOOLEAN : spared = (sessions[s].spared \/ sessions[s].old)
          OBVIOUS
        <5>2. sessions'[s] = [sessions[s] EXCEPT !.spared = spared]
          BY <3>1, <4>1, <5>1
        <5>3. QED BY <2>2, <5>1, <5>2 DEF TypeInv, RowsOK, SessionRow, Outdated
      <4>2. QED BY <3>1, <4>1
    <3>3. PICK g \in Request : req[g].user = sessions[s].user /\ req[g].pc \in InReset
      BY <2>2, <3>2 DEF LockInv, Outdated, Resetting, InReset
    <3>4. g # h
      BY <3>2, <3>3 DEF Left
    <3>5. QED BY <2>1, <3>2, <3>3, <3>4 DEF OnlyLate, SameButLate
  <2>3. QED BY <2>2 DEF LockInv, Resetting, InReset
<1>12. CASE Restart
  BY <1>1, <1>2, <1>12 DEF Restart, tables
<1>13. CASE UNCHANGED vars
  BY <1>1, <1>2, <1>13 DEF vars, tables
<1>14. QED BY <1>3, <1>4, <1>5, <1>6, <1>7, <1>9, <1>10, <1>11, <1>12, <1>13 DEF Next

(* confirmPasswordReset sets the password, marks the token and revokes the *)
(* sessions by three statements: no session opened with the replaced       *)
(* password is valid but while one of its resets is between them, not even *)
(* by a deadline moved late.  Excepted are one whose login had verified    *)
(* that password and inserted it after the change, and those that were     *)
(* there when a reset stopped between them.                                *)
THEOREM ResetRevokes == Spec => []ResetLocksOut
<1>1. Init => LockInv
  BY DEF Init, LockInv, Outdated, NoSession
<1>2. Spec => []LockInv
  BY <1>1, TypeInvariant, NextKeepsLock, PTL DEF Spec
<1>3. LockInv => ResetLocksOut
  BY DEF LockInv, Outdated, ResetLocksOut, Valid
<1>4. QED BY <1>2, <1>3, PTL


-----------------------------------------------------------------------------
(* The uses of a token.                                                    *)

Readers(k) ==
  {h \in Request : req[h].pc \in {"activateUser", "resetUser"} /\ req[h].token = k}

Markers(k) ==
  {h \in Request : req[h].pc \in {"activateToken", "resetToken"} /\ req[h].token = k}

(* Who is to set a password with a token may still do so; until the token  *)
(* is marked, each of its uses has a handler that is about to, or that has *)
(* stopped before it did.                                                  *)
UsesCounted(k) ==
  /\ tokens[k].uses + Cardinality(Readers(k)) <= Cardinality(Request) + tokens[k].lost
  /\ ~ tokens[k].used => tokens[k].uses = Cardinality(Markers(k)) + tokens[k].lost

SpentInv == \A k \in Token : UsesCounted(k)

LEMMA HandlersCount ==
  ASSUME NEW A \in SUBSET Request, NEW B \in SUBSET Request, A \cap B = {}
  PROVE  /\ IsFiniteSet(A) /\ IsFiniteSet(B)
         /\ Cardinality(A) \in Nat /\ Cardinality(B) \in Nat /\ Cardinality(Request) \in Nat
         /\ Cardinality(A) + Cardinality(B) <= Cardinality(Request)
<1>1. IsFiniteSet(Request)
  BY TtlAssumption
<1>2. IsFiniteSet(A) /\ IsFiniteSet(B) /\ A \cup B \in SUBSET Request
  BY <1>1, FS_Subset
<1>3. Cardinality(A \cup B) = Cardinality(A) + Cardinality(B) - Cardinality(A \cap B)
  BY <1>2, FS_Union
<1>4. Cardinality(A \cup B) <= Cardinality(Request) /\ Cardinality(A \cap B) = 0
  BY <1>1, <1>2, FS_Subset, FS_EmptySet
<1>5. QED BY <1>1, <1>2, <1>3, <1>4, FS_CardinalityType

(* One handler more, or one less.                                          *)
LEMMA OneMore ==
  ASSUME NEW A \in SUBSET Request, NEW h \in Request \ A
  PROVE  Cardinality(A \cup {h}) = Cardinality(A) + 1
  BY TtlAssumption, FS_Subset, FS_AddElement

LEMMA OneLess ==
  ASSUME NEW A \in SUBSET Request, NEW h \in A
  PROVE  Cardinality(A \ {h}) = Cardinality(A) - 1
  BY TtlAssumption, FS_Subset, FS_RemoveElement

(* A token nobody reads or marks in this step.                             *)
LEMMA UsesKept ==
  ASSUME SpentInv, NEW k \in Token, Readers(k)' = Readers(k), Markers(k)' = Markers(k),
         tokens'[k].uses = tokens[k].uses, tokens'[k].used = tokens[k].used,
         tokens'[k].lost = tokens[k].lost
  PROVE  UsesCounted(k)'
  BY DEF SpentInv, UsesCounted

(* A step of a handler that holds no token, before and after it.           *)
LEMMA OthersKeepUses ==
  ASSUME TypeInv, SpentInv, NEW h \in Request, OnlyLate(h),
         req[h].pc \notin OnToken, req'[h].pc \notin OnToken, UNCHANGED tokens
  PROVE  SpentInv'
<1>1. ASSUME NEW k \in Token
      PROVE  UsesCounted(k)'
  <2>1. Readers(k)' = Readers(k) /\ Markers(k)' = Markers(k)
    BY DEF Readers, Markers, OnToken, OnlyLate, SameButLate
  <2>2. QED BY <2>1, UsesKept
<1>2. QED BY <1>1 DEF SpentInv

LEMMA ReadKeepsUses ==
  ASSUME TypeInv, SpentInv, NEW h \in Request, NEW k \in Token,
         ActivateRead(h, k) \/ ResetRead(h, k)
  PROVE  SpentInv'
<1>1. /\ req[h].pc = "idle" /\ ~ tokens[k].used /\ UNCHANGED tokens
      /\ \A g \in Request \ {h} : req'[g] = req[g]
  BY DEF ActivateRead, ResetRead, At, Usable, tables, Goto, TypeInv, ReqOK
<1>2. req'[h].pc \in {"activateUser", "resetUser"} /\ req'[h].token = k
  <2>1. Idle \in Locals /\ req \in [Request -> Locals]
    BY IdleOK DEF LocalOK, TypeInv, ReqOK
  <2>2. CASE ActivateRead(h, k)
    BY <2>1, <2>2 DEF ActivateRead, Goto, Locals
  <2>3. CASE ResetRead(h, k)
    BY <2>1, <2>3 DEF ResetRead, Goto, Locals
  <2>4. QED BY <2>2, <2>3
<1>3. ASSUME NEW j \in Token, j # k
      PROVE  UsesCounted(j)'
  <2>1. Readers(j)' = Readers(j) /\ Markers(j)' = Markers(j)
    BY <1>1, <1>2, <1>3 DEF Readers, Markers
  <2>2. QED BY <1>1, <2>1, UsesKept
<1>4. UsesCounted(k)'
  <2>1. /\ h \notin Readers(k) /\ h \notin Markers(k)
        /\ Readers(k)' = Readers(k) \cup {h} /\ Markers(k)' = Markers(k)
    BY <1>1, <1>2 DEF Readers, Markers
  <2>2. /\ Readers(k) \cup {h} \in SUBSET Request /\ Markers(k) \in SUBSET Request
        /\ (Readers(k) \cup {h}) \cap Markers(k) = {}
    BY <2>1 DEF Readers, Markers
  <2>3. Cardinality(Readers(k) \cup {h}) + Cardinality(Markers(k)) <= Cardinality(Request)
    BY <2>2, HandlersCount
  <2>4. tokens[k].uses = Cardinality(Markers(k)) + tokens[k].lost
        /\ Cardinality(Markers(k)) \in Nat /\ tokens[k].lost \in Nat
        /\ Cardinality(Readers(k) \cup {h}) \in Nat /\ Cardinality(Request) \in Nat
    BY <1>1, <2>2, HandlersCount DEF SpentInv, UsesCounted, TypeInv, RowsOK, TokenRow
  <2>5. QED BY <1>1, <2>1, <2>3, <2>4 DEF UsesCounted
<1>5. QED BY <1>3, <1>4 DEF SpentInv

LEMMA SetKeepsUses ==
  ASSUME TypeInv, SpentInv, NEW h \in Request, ActivateUser(h) \/ ResetUser(h)
  PROVE  SpentInv'
<1>1. /\ req[h].pc \in {"activateUser", "resetUser"} /\ req[h].token \in Token
      /\ SetPassword(req[h].user, req[h].token) /\ req[h] \in Locals
  BY DEF ActivateUser, ResetUser, At, TypeInv, ReqOK, LocalOK, OnToken
<1>2. OnlyLate(h)
  BY ContinueKeepsLocals DEF Continue, LocalsKept
<1>3. req'[h].pc \in {"activateToken", "resetToken"} /\ req'[h].token = req[h].token
  <2>1. CASE ActivateUser(h)
    BY <1>1, <2>1 DEF ActivateUser, Resume, Goto, TypeInv, ReqOK, Locals
  <2>2. CASE ResetUser(h)
    BY <1>1, <2>2, ResetKeepsLocals DEF Locals
  <2>3. QED BY <2>1, <2>2
<1>4. PICK k \in Token : k = req[h].token
  BY <1>1
<1>5. /\ tokens'[k].uses = tokens[k].uses + 1 /\ tokens'[k].used = tokens[k].used
      /\ tokens'[k].lost = tokens[k].lost
      /\ \A j \in Token \ {k} : tokens'[j] = tokens[j]
      /\ tokens[k].uses \in Nat /\ tokens[k].lost \in Nat
  BY <1>1, <1>4 DEF SetPassword, TypeInv, RowsOK, TokenRow
<1>6. ASSUME NEW j \in Token, j # k
      PROVE  UsesCounted(j)'
  <2>1. Readers(j)' = Readers(j) /\ Markers(j)' = Markers(j)
    BY <1>1, <1>2, <1>3, <1>4, <1>6 DEF Readers, Markers, OnlyLate, SameButLate
  <2>2. QED BY <1>5, <1>6, <2>1, UsesKept
<1>7. UsesCounted(k)'
  <2>1. /\ Readers(k)' = Readers(k) \ {h} /\ Markers(k)' = Markers(k) \cup {h}
        /\ h \in Readers(k) /\ h \notin Markers(k)
    BY <1>1, <1>2, <1>3, <1>4 DEF Readers, Markers, OnlyLate, SameButLate
  <2>2. Readers(k) \in SUBSET Request /\ Markers(k) \in SUBSET Request
        /\ Readers(k) \cap Markers(k) = {}
    BY DEF Readers, Markers
  <2>3. /\ Cardinality(Readers(k)') = Cardinality(Readers(k)) - 1
        /\ Cardinality(Markers(k)') = Cardinality(Markers(k)) + 1
    BY <2>1, <2>2, OneMore, OneLess
  <2>4. Cardinality(Readers(k)) \in Nat /\ Cardinality(Markers(k)) \in Nat
        /\ Cardinality(Request) \in Nat
    BY <2>2, HandlersCount
  <2>5. UsesCounted(k)
    BY DEF SpentInv
  <2>6. QED BY <1>5, <2>3, <2>4, <2>5 DEF UsesCounted
<1>8. QED BY <1>6, <1>7 DEF SpentInv

LEMMA MarkKeepsUses ==
  ASSUME TypeInv, SpentInv, NEW h \in Request, ActivateToken(h) \/ ResetToken(h)
  PROVE  SpentInv'
<1>1. /\ req[h].pc \in {"activateToken", "resetToken"} /\ req[h].token \in Token
      /\ tokens' = [tokens EXCEPT ![req[h].token].used = TRUE] /\ req[h] \in Locals
  BY DEF ActivateToken, ResetToken, At, TypeInv, ReqOK, LocalOK, OnToken
<1>2. \A g \in Request \ {h} : req'[g] = req[g]
  BY DEF ActivateToken, ResetToken, Resume, Goto, TypeInv, ReqOK
<1>3. req'[h].pc \notin OnToken
  <2>1. CASE ActivateToken(h)
    BY <1>1, <2>1 DEF ActivateToken, Goto, TypeInv, ReqOK, Idle, OnToken
  <2>2. CASE ResetToken(h)
    BY <1>1, <2>2 DEF ResetToken, Resume, Goto, TypeInv, ReqOK, Locals, OnToken
  <2>3. QED BY <2>1, <2>2
<1>4. PICK k \in Token : k = req[h].token
  BY <1>1
<1>5. /\ tokens'[k].uses = tokens[k].uses /\ tokens'[k].used
      /\ tokens'[k].lost = tokens[k].lost
      /\ \A j \in Token \ {k} : tokens'[j] = tokens[j]
  BY <1>1, <1>4 DEF TypeInv, RowsOK, TokenRow
<1>6. ASSUME NEW j \in Token
      PROVE  Readers(j)' = Readers(j) /\ (j # k => Markers(j)' = Markers(j))
  BY <1>1, <1>2, <1>3, <1>4 DEF Readers, Markers, OnToken
<1>7. ASSUME NEW j \in Token, j # k
      PROVE  UsesCounted(j)'
  BY <1>5, <1>6, <1>7, UsesKept
<1>8. UsesCounted(k)'
  BY <1>5, <1>6 DEF SpentInv, UsesCounted
<1>9. QED BY <1>7, <1>8 DEF SpentInv

(* The other handlers hold no token and touch none.                        *)
LEMMA ContinueWithoutToken ==
  ASSUME TypeInv, NEW h \in Request, Continue(h),
         ~ (ActivateUser(h) \/ ResetUser(h) \/ ActivateToken(h) \/ ResetToken(h))
  PROVE  req[h].pc \notin OnToken /\ req'[h].pc \notin OnToken /\ UNCHANGED tokens
<1>1. /\ req[h] \in Locals /\ \A q : Goto(h, q) \/ Overtake(h, q) => req'[h] = q
      /\ Idle \in Locals /\ Idle.pc = "idle"
  BY IdleOK DEF TypeInv, ReqOK, Goto, Overtake, LocalOK, Idle
<1>2. CASE ResetSessions(h) \/ ResolveSet(h) \/ AssignInvalidate(h) \/ InvalidateAll(h)
  BY <1>1, <1>2 DEF ResetSessions, ResolveSet, AssignInvalidate, InvalidateAll, At, OnToken,
                    tables
<1>3. CASE LoginInsert(h) \/ Slide(h)
  BY <1>1, <1>3 DEF LoginInsert, Slide, Locals, At, OnToken
<1>4. CASE ResolveCache(h)
  BY <1>1, <1>4 DEF ResolveCache, Resume, Locals, At, OnToken, tables
<1>5. CASE ResolveRoles(h)
  BY <1>1, <1>5 DEF ResolveRoles, Locals, At, OnToken, tables
<1>6. CASE AssignInsert(h)
  BY <1>1, <1>6 DEF AssignInsert, Locals, At, OnToken
<1>7. CASE UpdateWrite(h)
  BY <1>1, <1>7 DEF UpdateWrite, Locals, At, OnToken
<1>8. CASE DeleteRole(h)
  BY <1>1, <1>8 DEF DeleteRole, Locals, At, OnToken
<1>9. QED BY <1>2, <1>3, <1>4, <1>5, <1>6, <1>7, <1>8 DEF Continue

(* A handler that stops reads the token no more; one that had set the      *)
(* password is among the lost.                                             *)
LEMMA FailKeepsUses ==
  ASSUME TypeInv, SpentInv, NEW h \in Request, Fail(h)
  PROVE  SpentInv'
<1>1. /\ req'[h] = Idle /\ Idle.pc = "idle" /\ \A g \in Request \ {h} : req'[g] = req[g]
  BY IdleOK, LocalStep DEF Fail
<1>2. SUFFICES ASSUME NEW k \in Token PROVE UsesCounted(k)'
  BY DEF SpentInv
<1>3. /\ UsesCounted(k) /\ tokens[k] \in TokenRow
      /\ tokens[k].uses \in Nat /\ tokens[k].lost \in Nat
  BY DEF SpentInv, TypeInv, RowsOK, TokenRow
<1>4. Readers(k)' = Readers(k) \ {h} /\ Markers(k)' = Markers(k) \ {h}
  BY <1>1 DEF Readers, Markers
<1>5. /\ Readers(k) \in SUBSET Request /\ Markers(k) \in SUBSET Request
      /\ h \in Markers(k) <=> Marking(h) /\ req[h].token = k
      /\ h \in Markers(k) => h \notin Readers(k)
  BY DEF Readers, Markers, Marking
<1>6. /\ Cardinality(Readers(k)) \in Nat /\ Cardinality(Markers(k)) \in Nat
      /\ Cardinality(Request) \in Nat
      /\ h \in Readers(k) => Cardinality(Readers(k)') = Cardinality(Readers(k)) - 1
      /\ h \in Markers(k) => Cardinality(Markers(k)') = Cardinality(Markers(k)) - 1
      /\ h \notin Readers(k) => Readers(k)' = Readers(k)
      /\ h \notin Markers(k) => Markers(k)' = Markers(k)
  BY <1>4, <1>5, OneLess, TtlAssumption, FS_Subset, FS_CardinalityType
<1>7. tokens'[k] = IF h \in Markers(k) THEN [tokens[k] EXCEPT !.lost = @ + 1] ELSE tokens[k]
  BY <1>5 DEF Fail
<1>8. CASE h \in Markers(k)
  <2>1. /\ tokens'[k].uses = tokens[k].uses /\ tokens'[k].used = tokens[k].used
        /\ tokens'[k].lost = tokens[k].lost + 1
    BY <1>3, <1>7, <1>8 DEF TokenRow
  <2>2. QED BY <1>3, <1>5, <1>6, <1>8, <2>1 DEF UsesCounted
<1>9. CASE h \notin Markers(k)
  BY <1>3, <1>6, <1>7, <1>9 DEF UsesCounted
<1>10. QED BY <1>8, <1>9

LEMMA NextKeepsUses == TypeInv /\ SpentInv /\ [Next]_vars => SpentInv'
<1> SUFFICES ASSUME TypeInv, SpentInv, [Next]_vars PROVE SpentInv'
  OBVIOUS
<1>0. ASSUME \A g \in Request : req'[g].pc = req[g].pc /\ req'[g].token = req[g].token,
             \A k \in Token : /\ tokens'[k].uses = tokens[k].uses
                             /\ tokens'[k].used = tokens[k].used
                             /\ tokens'[k].lost = tokens[k].lost
      PROVE  SpentInv'
  <2>1. \A k \in Token : Readers(k)' = Readers(k) /\ Markers(k)' = Markers(k)
    BY <1>0 DEF Readers, Markers
  <2>2. QED BY <1>0, <2>1, UsesKept DEF SpentInv
<1>1. ASSUME UNCHANGED <<req, tokens>>
      PROVE  SpentInv'
  BY <1>0, <1>1
<1>2. CASE Tick
  <2>1. \A k \in Token : /\ tokens'[k].uses = tokens[k].uses
                         /\ tokens'[k].used = tokens[k].used
                         /\ tokens'[k].lost = tokens[k].lost
    BY <1>2 DEF Tick, TypeInv, RowsOK, TokenRow
  <2>2. \A g \in Request : req'[g].pc = req[g].pc /\ req'[g].token = req[g].token
    BY <1>2, TickMovesNext
  <2>3. QED BY <1>0, <2>1, <2>2
<1>3. ASSUME NEW u \in User, Invite(u) \/ RequestReset(u)
      PROVE  SpentInv'
  <2>1. ASSUME NEW k \in Token, NEW kind, NEW ttl, NewToken(k, kind, u, ttl)
        PROVE  \A j \in Token : /\ tokens'[j].uses = tokens[j].uses
                                /\ tokens'[j].used = tokens[j].used
                                /\ tokens'[j].lost = tokens[j].lost
    <3>1. /\ tokens[k].uses = 0 /\ tokens[k].used = FALSE /\ tokens[k].lost = 0
          /\ tokens' = [tokens EXCEPT ![k] = [kind |-> kind, user |-> u, left |-> ttl,
                                             used |-> FALSE, uses |-> 0, lost |-> 0]]
      BY <2>1 DEF NewToken, NoToken
    <3>2. tokens'[k].uses = 0 /\ tokens'[k].used = FALSE /\ tokens'[k].lost = 0
      BY <3>1 DEF TypeInv, RowsOK
    <3>3. \A j \in Token \ {k} : tokens'[j] = tokens[j]
      BY <3>1 DEF TypeInv, RowsOK
    <3>4. QED BY <3>1, <3>2, <3>3
  <2>2. UNCHANGED tokens \/ \E k \in Token : \E kind, ttl : NewToken(k, kind, u, ttl)
    BY <1>3 DEF Invite, RequestReset
  <2>3. UNCHANGED req
    BY <1>3 DEF Invite, RequestReset
  <2>4. QED BY <1>0, <2>1, <2>2, <2>3
<1>4. ASSUME NEW u \in User, CreateSession(u)
      PROVE  SpentInv'
  BY <1>1, <1>4 DEF CreateSession
<1>5. ASSUME NEW s \in Session, RevokeSession(s)
      PROVE  SpentInv'
  BY <1>1, <1>5 DEF RevokeSession
<1>6. ASSUME NEW r \in Role, CreateRole(r)
      PROVE  SpentInv'
  BY <1>1, <1>6 DEF CreateRole
<1>7. ASSUME NEW h \in Request, Start(h)
      PROVE  SpentInv'
  <2>1. CASE \E k \in Token : ActivateRead(h, k) \/ ResetRead(h, k)
    BY <2>1, ReadKeepsUses
  <2>2. CASE ~ \E k \in Token : ActivateRead(h, k) \/ ResetRead(h, k)
    <3>1. req[h].pc = "idle" /\ UNCHANGED tokens
      BY <1>7, <2>2 DEF Start, LoginRead, Authenticate, UpdateRead, DeleteRead, AssignRead,
                        At, tables
    <3>2. req'[h].pc \notin OnToken
      BY <1>7, <2>2, StartKeepsLocals
    <3>3. OnlyLate(h)
      BY <1>7, StartKeepsLocals DEF OnlyLate, SameButLate
    <3>4. QED BY <3>1, <3>2, <3>3, OthersKeepUses, Pcs
  <2>3. QED BY <2>1, <2>2
<1>8. ASSUME NEW h \in Request, Continue(h)
      PROVE  SpentInv'
  <2>1. CASE ActivateUser(h) \/ ResetUser(h)
    BY <2>1, SetKeepsUses
  <2>2. CASE ActivateToken(h) \/ ResetToken(h)
    BY <2>2, MarkKeepsUses
  <2>3. CASE ~ (ActivateUser(h) \/ ResetUser(h) \/ ActivateToken(h) \/ ResetToken(h))
    <3>1. req[h].pc \notin OnToken /\ req'[h].pc \notin OnToken /\ UNCHANGED tokens
      BY <1>8, <2>3, ContinueWithoutToken
    <3>2. OnlyLate(h)
      BY <1>8, ContinueKeepsLocals DEF LocalsKept
    <3>3. QED BY <3>1, <3>2, OthersKeepUses
  <2>4. QED BY <2>1, <2>2, <2>3
<1>9. ASSUME NEW h \in Request, Fail(h)
      PROVE  SpentInv'
  BY <1>9, FailKeepsUses
<1>10. CASE Restart
  BY <1>1, <1>10 DEF Restart, tables
<1>11. CASE UNCHANGED vars
  BY <1>1, <1>11 DEF vars, tables
<1>12. QED BY <1>2, <1>3, <1>4, <1>5, <1>6, <1>7, <1>8, <1>9, <1>10, <1>11 DEF Next

(* activateAccount and confirmPasswordReset mark a token after they have   *)
(* set the password: it sets as many passwords as handlers may have read   *)
(* it by then, and one more for each handler that stops between the two.   *)
THEOREM TokensAreSpent == Spec => []TokenIsSpent
<1>1. Init => SpentInv
  <2>1. SUFFICES ASSUME Init, NEW k \in Token
                 PROVE  UsesCounted(k)
    BY DEF SpentInv
  <2>2. Readers(k) = {} /\ Markers(k) = {} /\ tokens[k].uses = 0 /\ tokens[k].lost = 0
    BY <2>1 DEF Init, Readers, Markers, Idle, NoToken
  <2>3. QED BY <2>2, TtlAssumption, FS_EmptySet, FS_CardinalityType DEF UsesCounted
<1>2. TypeInv /\ SpentInv => TokenIsSpent
  <2>1. SUFFICES ASSUME TypeInv, SpentInv, NEW k \in Token
                 PROVE  tokens[k].uses <= Cardinality(Request) + tokens[k].lost
    BY DEF TokenIsSpent
  <2>2. /\ Readers(k) \in SUBSET Request
        /\ tokens[k].uses \in Nat /\ tokens[k].lost \in Nat
    BY <2>1 DEF Readers, TypeInv, RowsOK, TokenRow
  <2>3. Cardinality(Readers(k)) \in Nat /\ Cardinality(Request) \in Nat
    BY <2>2, TtlAssumption, FS_Subset, FS_CardinalityType
  <2>4. QED BY <2>1, <2>2, <2>3 DEF SpentInv, UsesCounted
<1>3. QED BY <1>1, <1>2, TypeInvariant, NextKeepsUses, PTL DEF Spec

=============================================================================
