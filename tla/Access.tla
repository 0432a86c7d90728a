------------------------------- MODULE Access -------------------------------
(***************************************************************************)
(* Accounts, sessions, single-use tokens, roles, and the cache of what a   *)
(* user may do: the services of identity/, for one tenant.                 *)
(*                                                                         *)
(* No handler uses a transaction: a check is one step and each later write *)
(* another, and a handler may stop between them.  A password is told apart *)
(* from the one that replaced it, never from a wrong one, and a role       *)
(* either carries the permission asked for or not.  Lifetimes are counted  *)
(* down.  The cache is that of one process of the API.                     *)
(***************************************************************************)
EXTENDS Integers, FiniteSets

CONSTANTS
  User, Role, Session, Token,   \* rows that may be inserted
  None,                         \* null
  IdleTTL, LifeTTL,             \* lifetimes, in clock ticks: of a session unused
                                \* and used, of a token and of a cache entry
  ResetTTL, ActivationTTL, CacheTTL,
  SlideThreshold,               \* the least by which a session's deadline is moved
  Request,                      \* handlers that may be in flight at once
  MaxLost                       \* BOUND: handlers that leave a token unmarked

ASSUME TtlAssumption ==
  /\ {IdleTTL, LifeTTL, ResetTTL, ActivationTTL, CacheTTL, SlideThreshold} \subseteq Nat \ {0}
  /\ IdleTTL <= LifeTTL /\ IsFiniteSet(Request) /\ MaxLost \in Nat
  /\ None \notin User \cup Role \cup Session \cup Token

VARIABLES
  users,       \* users[u]: "absent", "invited" or "active"
  assigned,    \* assigned[u]: the roles of u
  roles,       \* roles[r]: status, and whether it carries the permission
  sessions,    \* sessions[s]: until when it may be used and live, and revoked; old
               \* when a reset has replaced the password it was opened with, spared
               \* when that reset does not reach it
  tokens,      \* tokens[k]: the row k, how often it has set a password, and how
               \* many of those that set one were lost before they marked it
  cache,       \* cache[u]: the permission as last resolved, for how long, and
               \* whether it missed a change of the roles
  req          \* req[h]: where handler h is and what it has read

tables == <<users, assigned, roles, sessions, tokens>>
vars == <<tables, cache, req>>

Idle == [pc |-> "idle", user |-> None, role |-> None, token |-> None, session |-> None,
         next |-> 0, status |-> None, permits |-> FALSE, late |-> FALSE]

At(h, pc) == req[h].pc = pc
Goto(h, locals) == req' = [req EXCEPT ![h] = locals]
Resume(h, pc) == Goto(h, [req[h] EXCEPT !.pc = pc])

NoRole == [status |-> "absent", permits |-> FALSE]
NoSession == [user |-> None, idle |-> 0, life |-> 0, revoked |-> FALSE, old |-> FALSE,
              spared |-> FALSE]
NoToken == [kind |-> "absent", user |-> None, left |-> 0, used |-> FALSE, uses |-> 0, lost |-> 0]
NoEntry == [permits |-> FALSE, left |-> 0, missed |-> FALSE]

Valid(s) == ~ sessions[s].revoked /\ sessions[s].idle > 0
Usable(k, kind) == tokens[k].kind = kind /\ ~ tokens[k].used /\ tokens[k].left > 0

(* What resolve reads: the permissions of the active roles of a user.      *)
Permitted(u) == \E r \in assigned[u] : roles[r].status = "active" /\ roles[r].permits

Stale(u) == cache[u].left > 0 /\ cache[u].permits # Permitted(u)

Init ==
  /\ users = [u \in User |-> "absent"]
  /\ assigned = [u \in User |-> {}]
  /\ roles = [r \in Role |-> NoRole]
  /\ sessions = [s \in Session |-> NoSession]
  /\ tokens = [k \in Token |-> NoToken]
  /\ cache = [u \in User |-> NoEntry]
  /\ req = [h \in Request |-> Idle]

Down(n) == IF n > 0 THEN n - 1 ELSE 0

(* A session past its lifetime is over; one that is past its deadline only *)
(* may have it moved by a request that read it before.                     *)
Tick ==
  /\ sessions' = [s \in Session |->
       IF sessions[s].life <= 1 THEN NoSession
       ELSE [sessions[s] EXCEPT !.idle = Down(@), !.life = @ - 1]]
  /\ tokens' = [k \in Token |-> [tokens[k] EXCEPT !.left = Down(@)]]
  /\ cache' = [u \in User |->
       IF cache[u].left <= 1 THEN NoEntry ELSE [cache[u] EXCEPT !.left = @ - 1]]
  /\ req' = [h \in Request |-> [req[h] EXCEPT !.next = Down(@)]]
  /\ UNCHANGED <<users, assigned, roles>>

-----------------------------------------------------------------------------
(* Accounts and tokens.                                                    *)

NewToken(k, kind, u, ttl) ==
  /\ tokens[k] = NoToken
  /\ tokens' = [tokens EXCEPT ![k] =
       [kind |-> kind, user |-> u, left |-> ttl, used |-> FALSE, uses |-> 0, lost |-> 0]]

(* inviteUser: with an e-mail address, active and with a password sent;    *)
(* without one, invited and given an activation token.                     *)
Invite(u) ==
  /\ users[u] = "absent"
  /\ \/ users' = [users EXCEPT ![u] = "active"] /\ UNCHANGED tokens
     \/ /\ users' = [users EXCEPT ![u] = "invited"]
        /\ \E k \in Token : NewToken(k, "activation", u, ActivationTTL)
  /\ UNCHANGED <<assigned, roles, sessions, cache, req>>

RequestReset(u) ==
  /\ users[u] # "absent"
  /\ \E k \in Token : NewToken(k, "reset", u, ResetTTL)
  /\ UNCHANGED <<users, assigned, roles, sessions, cache, req>>

SetPassword(u, k) ==
  /\ users' = [users EXCEPT ![u] = "active"]
  /\ tokens' = [tokens EXCEPT ![k].uses = @ + 1]

(* activateAccount.                                                        *)
ActivateRead(h, k) ==
  /\ At(h, "idle")
  /\ Usable(k, "activation") /\ users[tokens[k].user] = "invited"
  /\ Goto(h, [Idle EXCEPT !.pc = "activateUser", !.token = k, !.user = tokens[k].user])
  /\ UNCHANGED <<tables, cache>>

ActivateUser(h) ==
  /\ At(h, "activateUser")
  /\ SetPassword(req[h].user, req[h].token)
  /\ Resume(h, "activateToken")
  /\ UNCHANGED <<assigned, roles, sessions, cache>>

ActivateToken(h) ==
  /\ At(h, "activateToken")
  /\ tokens' = [tokens EXCEPT ![req[h].token].used = TRUE]
  /\ Goto(h, Idle)
  /\ UNCHANGED <<users, assigned, roles, sessions, cache>>

(* confirmPasswordReset: sets the password, marks the token, then revokes  *)
(* every session of the user.                                              *)
ResetRead(h, k) ==
  /\ At(h, "idle")
  /\ Usable(k, "reset")
  /\ Goto(h, [Idle EXCEPT !.pc = "resetUser", !.token = k, !.user = tokens[k].user])
  /\ UNCHANGED <<tables, cache>>

(* What was opened with the password of before is old from here on.        *)
ResetUser(h) ==
  /\ At(h, "resetUser")
  /\ SetPassword(req[h].user, req[h].token)
  /\ sessions' = [s \in Session |->
       IF sessions[s].user = req[h].user THEN [sessions[s] EXCEPT !.old = TRUE, !.spared = FALSE]
       ELSE sessions[s]]
  /\ req' = [g \in Request |->
       IF g = h THEN [req[g] EXCEPT !.pc = "resetToken"]
       ELSE [req[g] EXCEPT !.late = \/ @
                                     \/ /\ req[g].pc = "loginInsert"
                                        /\ req[g].user = req[h].user]]
  /\ UNCHANGED <<assigned, roles, cache>>

(* Mutant of ResetToken: the token is not marked.                          *)
ResetTokenUnmarked(h) ==
  /\ At(h, "resetToken")
  /\ Resume(h, "resetSessions")
  /\ UNCHANGED <<tables, cache>>

ResetToken(h) ==
  /\ At(h, "resetToken")
  /\ tokens' = [tokens EXCEPT ![req[h].token].used = TRUE]
  /\ Resume(h, "resetSessions")
  /\ UNCHANGED <<users, assigned, roles, sessions, cache>>

Revoke(revoked) ==
  sessions' = [s \in Session |->
    IF s \in revoked THEN [sessions[s] EXCEPT !.revoked = TRUE] ELSE sessions[s]]

(* Mutant of ResetSessions: sessions past their deadline are left alone.   *)
ResetSessionsInUse(h) ==
  /\ At(h, "resetSessions")
  /\ Revoke({s \in Session : sessions[s].user = req[h].user /\ sessions[s].idle > 0})
  /\ Goto(h, Idle)
  /\ UNCHANGED <<users, assigned, roles, tokens, cache>>

ResetSessions(h) ==
  /\ At(h, "resetSessions")
  /\ Revoke({s \in Session : sessions[s].user = req[h].user})
  /\ Goto(h, Idle)
  /\ UNCHANGED <<users, assigned, roles, tokens, cache>>
-----------------------------------------------------------------------------
(* Sessions.                                                               *)

(* login, with the password of this moment; the session is inserted when   *)
(* the password has been verified.                                         *)
LoginRead(h, u) ==
  /\ At(h, "idle")
  /\ users[u] = "active"
  /\ Goto(h, [Idle EXCEPT !.pc = "loginInsert", !.user = u])
  /\ UNCHANGED <<tables, cache>>

Opened(u, idle, late) ==
  [user |-> u, idle |-> idle, life |-> LifeTTL, revoked |-> FALSE, old |-> late, spared |-> late]

(* A row nobody can use again stands for one not yet inserted.             *)
Free(s) ==
  /\ sessions[s].revoked \/ sessions[s].life = 0
  /\ \A h \in Request : At(h, "slide") => req[h].session # s

(* It answers with what resolve gives.                                     *)
LoginInsert(h) ==
  /\ At(h, "loginInsert")
  /\ \E s \in Session :
       Free(s) /\ sessions' = [sessions EXCEPT ![s] = Opened(req[h].user, IdleTTL, req[h].late)]
  /\ Goto(h, [Idle EXCEPT !.pc = "resolve", !.user = req[h].user])
  /\ UNCHANGED <<users, assigned, roles, tokens, cache>>

(* createSession: the caller gives the deadline; one past the lifetime is  *)
(* as good as one at its end.                                              *)
CreateSession(u) ==
  /\ users[u] # "absent"
  /\ \E s \in Session, idle \in 1..LifeTTL :
       Free(s) /\ sessions' = [sessions EXCEPT ![s] = Opened(u, idle, FALSE)]
  /\ UNCHANGED <<users, assigned, roles, tokens, cache, req>>

(* logout, revokeSession.                                                  *)
RevokeSession(s) ==
  /\ sessions[s].life > 0
  /\ Revoke({s})
  /\ UNCHANGED <<users, assigned, roles, tokens, cache, req>>

(* actorFromSessionToken: reads a session, and goes on to move its         *)
(* deadline to next when that is worth a write.                            *)
SlideOrResolve(h, s, next) ==
  Goto(h, IF next - sessions[s].idle >= SlideThreshold
          THEN [Idle EXCEPT !.pc = "slide", !.user = sessions[s].user, !.session = s,
                            !.next = next]
          ELSE [Idle EXCEPT !.pc = "resolve", !.user = sessions[s].user])

(* Mutant of Authenticate: the deadline is not held within the lifetime.   *)
AuthenticateLonger(h, s) ==
  /\ At(h, "idle")
  /\ Valid(s)
  /\ SlideOrResolve(h, s, IdleTTL)
  /\ UNCHANGED <<tables, cache>>

Authenticate(h, s) ==
  /\ At(h, "idle")
  /\ Valid(s)
  /\ SlideOrResolve(h, s, IF IdleTTL < sessions[s].life THEN IdleTTL ELSE sessions[s].life)
  /\ UNCHANGED <<tables, cache>>

(* The write names the row only: it may have been revoked or have expired  *)
(* since, and its deadline may come out earlier than it was.               *)
Slide(h) ==
  /\ At(h, "slide")
  /\ sessions' = [sessions EXCEPT ![req[h].session].idle = req[h].next]
  /\ Goto(h, [Idle EXCEPT !.pc = "resolve", !.user = req[h].user])
  /\ UNCHANGED <<users, assigned, roles, tokens, cache>>

(* Mutant of ResolveCache: a hit lives on.                                 *)
ResolveCacheRenewed(h) ==
  /\ At(h, "resolve")
  /\ IF cache[req[h].user].left > 0
     THEN Goto(h, Idle) /\ cache' = [cache EXCEPT ![req[h].user].left = CacheTTL]
     ELSE Resume(h, "resolveRoles") /\ UNCHANGED cache
  /\ UNCHANGED tables

(* resolve: what is cached, or what the roles give, cached from then on.   *)
ResolveCache(h) ==
  /\ At(h, "resolve")
  /\ IF cache[req[h].user].left > 0 THEN Goto(h, Idle) ELSE Resume(h, "resolveRoles")
  /\ UNCHANGED <<tables, cache>>

ResolveRoles(h) ==
  /\ At(h, "resolveRoles")
  /\ Goto(h, [req[h] EXCEPT !.pc = "resolveSet", !.permits = Permitted(req[h].user)])
  /\ UNCHANGED <<tables, cache>>

ResolveSet(h) ==
  /\ At(h, "resolveSet")
  /\ cache' = [cache EXCEPT ![req[h].user] =
       [permits |-> req[h].permits, left |-> CacheTTL, missed |-> req[h].late]]
  /\ Goto(h, Idle)
  /\ UNCHANGED tables

-----------------------------------------------------------------------------
(* Roles.  A change and the invalidation of the cache are two steps, with  *)
(* the audit record between them.                                          *)

(* What handler h goes on with; who is resolving has read other roles.     *)
Overtake(h, locals) ==
  req' = [g \in Request |-> IF g = h THEN locals
                            ELSE [req[g] EXCEPT !.late = @ \/ req[g].pc = "resolveSet"]]

Invalidate(us) == cache' = [u \in User |-> IF u \in us THEN NoEntry ELSE cache[u]]

CreateRole(r) ==
  /\ roles[r].status = "absent"
  /\ \E permits \in BOOLEAN :
       roles' = [roles EXCEPT ![r] = [status |-> "active", permits |-> permits]]
  /\ UNCHANGED <<users, assigned, sessions, tokens, cache, req>>

(* assignRole.                                                             *)
AssignRead(h, u, r) ==
  /\ At(h, "idle")
  /\ users[u] # "absent" /\ roles[r].status = "active"
  /\ Goto(h, [Idle EXCEPT !.pc = "assignInsert", !.user = u, !.role = r])
  /\ UNCHANGED <<tables, cache>>

(* A role that was deleted meanwhile is refused by the foreign key.        *)
AssignInsert(h) ==
  /\ At(h, "assignInsert")
  /\ IF roles[req[h].role].status \in {"active", "inactive"}
     THEN /\ assigned' = [assigned EXCEPT ![req[h].user] = @ \cup {req[h].role}]
          /\ Overtake(h, [req[h] EXCEPT !.pc = "assignInvalidate"])
     ELSE UNCHANGED assigned /\ Goto(h, Idle)
  /\ UNCHANGED <<users, roles, sessions, tokens, cache>>

(* Mutant of AssignInvalidate: the cache keeps what it has.                *)
AssignKeepsCache(h) ==
  /\ At(h, "assignInvalidate")
  /\ Goto(h, Idle)
  /\ UNCHANGED <<tables, cache>>

AssignInvalidate(h) ==
  /\ At(h, "assignInvalidate")
  /\ Invalidate({req[h].user})
  /\ Goto(h, Idle)
  /\ UNCHANGED tables

(* updateTenantRole: a role that somebody has is not disabled; a request   *)
(* that names no status leaves it.                                         *)
UpdateRead(h, r) ==
  /\ At(h, "idle")
  /\ roles[r].status \in {"active", "inactive"}
  /\ \E status \in {"active", "inactive", None}, permits \in BOOLEAN :
       /\ status = "inactive" => \A u \in User : r \notin assigned[u]
       /\ Goto(h, [Idle EXCEPT !.pc = "updateWrite", !.role = r, !.status = status,
                               !.permits = permits])
  /\ UNCHANGED <<tables, cache>>

UpdateWrite(h) ==
  /\ At(h, "updateWrite")
  /\ IF roles[req[h].role].status = "deleted"
     THEN UNCHANGED roles /\ Goto(h, Idle)
     ELSE /\ roles' = [roles EXCEPT ![req[h].role] =
                         [status |-> IF req[h].status = None THEN @.status ELSE req[h].status,
                          permits |-> req[h].permits]]
          /\ Overtake(h, [req[h] EXCEPT !.pc = "invalidateAll"])
  /\ UNCHANGED <<users, assigned, sessions, tokens, cache>>

(* deleteTenantRole: a role of the tenant's own that nobody has.           *)
DeleteRead(h, r) ==
  /\ At(h, "idle")
  /\ roles[r].status \in {"active", "inactive"}
  /\ \A u \in User : r \notin assigned[u]
  /\ Goto(h, [Idle EXCEPT !.pc = "deleteRole", !.role = r])
  /\ UNCHANGED <<tables, cache>>

(* The foreign key refuses it when somebody has got it since.              *)
DeleteRole(h) ==
  /\ At(h, "deleteRole")
  /\ IF \E u \in User : req[h].role \in assigned[u]
     THEN UNCHANGED roles /\ Goto(h, Idle)
     ELSE /\ roles' = [roles EXCEPT ![req[h].role] = [status |-> "deleted", permits |-> FALSE]]
          /\ Overtake(h, [req[h] EXCEPT !.pc = "invalidateAll"])
  /\ UNCHANGED <<users, assigned, sessions, tokens, cache>>

InvalidateAll(h) ==
  /\ At(h, "invalidateAll")
  /\ Invalidate(User)
  /\ Goto(h, Idle)
  /\ UNCHANGED tables

Marking(h) == req[h].pc \in {"activateToken", "resetToken"}

(* The error path, wherever a handler is: a statement is refused, its audit *)
(* record above all, or the process ends.  What it had still to do is not  *)
(* done by anybody: a token it used stays unmarked, the sessions of before *)
(* live on, the cache keeps what it has.                                   *)
Fail(h) ==
  /\ ~ At(h, "idle")
  /\ Marking(h) => tokens[req[h].token].lost < MaxLost   \* BOUND
  /\ Goto(h, Idle)
  /\ tokens' = [k \in Token |->
       IF Marking(h) /\ req[h].token = k
       THEN [tokens[k] EXCEPT !.lost = @ + 1] ELSE tokens[k]]
  /\ sessions' = [s \in Session |->
       IF req[h].pc \in {"resetToken", "resetSessions"} /\ req[h].user = sessions[s].user
       THEN [sessions[s] EXCEPT !.spared = @ \/ sessions[s].old] ELSE sessions[s]]
  /\ cache' = [u \in User |->
       IF \/ At(h, "invalidateAll")
          \/ At(h, "assignInvalidate") /\ req[h].user = u
       THEN [cache[u] EXCEPT !.missed = @ \/ Stale(u)] ELSE cache[u]]
  /\ UNCHANGED <<users, assigned, roles>>

(* The process is started again, once its handlers have come to their end: *)
(* the cache is in its memory.                                             *)
Restart ==
  /\ \A h \in Request : At(h, "idle")
  /\ Invalidate(User)
  /\ UNCHANGED <<tables, req>>

Continue(h) ==
  \/ ActivateUser(h) \/ ActivateToken(h)
  \/ ResetUser(h) \/ ResetToken(h) \/ ResetSessions(h)
  \/ LoginInsert(h) \/ Slide(h)
  \/ ResolveCache(h) \/ ResolveRoles(h) \/ ResolveSet(h)
  \/ AssignInsert(h) \/ AssignInvalidate(h)
  \/ UpdateWrite(h) \/ DeleteRole(h) \/ InvalidateAll(h)

Start(h) ==
  \/ \E k \in Token : ActivateRead(h, k) \/ ResetRead(h, k)
  \/ \E u \in User : LoginRead(h, u)
  \/ \E s \in Session : Authenticate(h, s)
  \/ \E r \in Role : UpdateRead(h, r) \/ DeleteRead(h, r)
  \/ \E u \in User, r \in Role : AssignRead(h, u, r)

Next ==
  \/ Tick
  \/ \E u \in User : Invite(u) \/ RequestReset(u) \/ CreateSession(u)
  \/ \E s \in Session : RevokeSession(s)
  \/ \E r \in Role : CreateRole(r)
  \/ \E h \in Request : Start(h) \/ Continue(h) \/ Fail(h)
  \/ Restart

(* Time passes and a handler under way goes on, unless it fails: the event  *)
(* loop resumes it when the database has answered.                         *)
Spec ==
  /\ Init /\ [][Next]_vars
  /\ WF_vars(Tick)
  /\ \A h \in Request : WF_vars(Continue(h))

-----------------------------------------------------------------------------
(* Properties.                                                             *)

PC == {"idle", "activateUser", "activateToken", "resetUser", "resetToken", "resetSessions",
       "loginInsert", "slide", "resolve", "resolveRoles", "resolveSet", "assignInsert",
       "assignInvalidate", "updateWrite", "deleteRole", "invalidateAll"}

Locals ==
  [pc : PC, user : User \cup {None}, role : Role \cup {None}, token : Token \cup {None},
   session : Session \cup {None}, next : 0..LifeTTL,
   status : {"active", "inactive", None}, permits : BOOLEAN, late : BOOLEAN]

SessionRow ==
  [user : User \cup {None}, idle : 0..LifeTTL, life : 0..LifeTTL, revoked : BOOLEAN,
   old : BOOLEAN, spared : BOOLEAN]

TokenRow ==
  [kind : {"absent", "activation", "reset"}, user : User \cup {None},
   left : Nat, used : BOOLEAN, uses : Nat, lost : Nat]

(* Rows are well formed, and no session is given a deadline past its       *)
(* lifetime, however often and from however old a reading it slides.       *)
TypeOK ==
  /\ users \in [User -> {"absent", "invited", "active"}]
  /\ assigned \in [User -> SUBSET Role]
  /\ roles \in [Role -> [status : {"absent", "active", "inactive", "deleted"}, permits : BOOLEAN]]
  /\ sessions \in [Session -> SessionRow]
  /\ tokens \in [Token -> TokenRow]
  /\ cache \in [User -> [permits : BOOLEAN, left : 0..CacheTTL, missed : BOOLEAN]]
  /\ req \in [Request -> Locals]
  /\ \A s \in Session : sessions[s].idle <= sessions[s].life

(* A token is marked after the password is set: it sets a password for     *)
(* every handler that has read it by then, and once more for every one     *)
(* that stops before it marks it.                                          *)
TokenIsSpent ==
  \A k \in Token : tokens[k].uses <= Cardinality(Request) + tokens[k].lost

(* "Session revocation on reset": once a reset is over, no session opened  *)
(* with the password it replaced is valid, not even by a request that read *)
(* it before and moves its deadline now.  But for one of a login that had  *)
(* verified the old password and came to insert after the change, and but  *)
(* for those a reset left when it stopped before it revoked them.          *)
Resetting(u) ==
  \E h \in Request : /\ req[h].user = u
                     /\ req[h].pc \in {"resetToken", "resetSessions"}

ResetLocksOut ==
  \A s \in Session : Valid(s) /\ sessions[s].old /\ ~ sessions[s].spared =>
    Resetting(sessions[s].user)

(* A cached permission that the roles do not give has been resolved while  *)
(* they were changed, or their change failed before it invalidated it, or  *)
(* its invalidation is the next thing to come.                             *)
CacheIsCoherent ==
  \A u \in User : Stale(u) /\ ~ cache[u].missed =>
    \E h \in Request : \/ At(h, "invalidateAll")
                       \/ At(h, "assignInvalidate") /\ req[h].user = u

(* Whatever the cache missed and however often its entry is used, it does  *)
(* not disagree with the roles for ever.                                   *)
PermissionsConverge == \A u \in User : []<>(~ Stale(u))
=============================================================================
