---------------------------- MODULE AccountsProofs ----------------------------
(***************************************************************************)
(* Proofs about Accounts.  For any number of users, tokens and concurrent  *)
(* requests: types, no session without its user, the rotation flag, and    *)
(* that the dead stay dead.  For one request at a time: the last admin is  *)
(* never removed, because then the count of guardNotLastAdmin still holds  *)
(* at the write.                                                           *)
(***************************************************************************)
EXTENDS Accounts, TLAPS

USE AccountsAssumption

\* A session has an owner exactly while its row exists.
SessionInv ==
    \A t \in Tokens : session[t] \in {"live", "expired", "revoked"} <=> owner[t] # None

\* What a request carries at each place.
Carries(r) ==
    /\ r.pc = "ready" => r.self \in Ids /\ r.token \in Tokens
    /\ r.pc \in {"login", "change"} => r.self \in Ids
    /\ r.pc \in {"countRole", "writeRole", "countDelete", "writeDelete", "reset"} =>
         r.target \in Ids
    /\ r.pc \in {"countRole", "writeRole"} => r.want \in Roles

RequestInv == \A q \in Requests : Carries(req[q])

\* Only a running server serves requests; between users.Create and
\* writeInitialCreds nobody has touched the new admin.
ProcessInv ==
    /\ boot # "up" => \A q \in Requests : req[q].pc = "idle"
    /\ boot = "creds" => \A i \in Ids :
         Live(i) /\ email[i] = AdminEmail => secret[i] \notin {"chosen", "kept"}

IInv ==
    /\ TypeOK
    /\ SessionInv
    /\ RequestInv
    /\ ProcessInv
    /\ NoOrphanSession
    /\ FlagFollowsWriter

\* A request record stays one when it moves on.
LEMMA IdleIsRequest == Idle \in Request
BY DEF Idle, Request, Place

\* The record AdminHandler leaves behind.
LEMMA WorkIsRequest ==
    ASSUME NEW p \in Place, NEW i \in Ids \cup {None}, NEW r \in Roles \cup {None}
    PROVE  [Idle EXCEPT !.pc = p, !.target = i, !.want = r] \in Request
BY DEF Idle, Request

\* Where a step takes its request.
LEMMA BecomesIs ==
    ASSUME req \in [Requests -> Request], NEW q \in Requests, NEW r, Becomes(q, r)
    PROVE  req'[q] = r
BY DEF Becomes

\* Where AdminHandler takes its request.
LEMMA HandlerIs ==
    ASSUME req \in [Requests -> Request], NEW q \in Requests, NEW p, NEW i, NEW r,
           AdminHandler(q, p, i, r)
    PROVE  req'[q].pc = p /\ req'[q].target = i /\ req'[q].want = r
BY DEF AdminHandler, Becomes, Idle

-----------------------------------------------------------------------------
(* The invariant, one lemma per group of actions. *)

\* A database that has never been opened.
LEMMA InitInv == Init => IInv
<1> SUFFICES ASSUME Init PROVE IInv
  OBVIOUS
<1>1. TypeOK
  BY IdleIsRequest DEF Init, TypeOK, Secret, Session, Boot
<1>2. SessionInv /\ RequestInv
  BY DEF Init, SessionInv, RequestInv, Carries, Idle
<1>3. NoOrphanSession /\ FlagFollowsWriter /\ ProcessInv
  BY DEF Init, NoOrphanSession, FlagFollowsWriter, ProcessInv, Idle, Live, Roles
<1> QED
  BY <1>1, <1>2, <1>3 DEF IInv

\* RunInit, its failures and a kill.
LEMMA BootInv ==
    ASSUME IInv, BootCheck \/ BootCreate \/ BootFails \/ BootCreds \/ Crash
    PROVE  IInv'
<1> USE DEF IInv, userVars, sessionVars
<1>1. CASE BootCheck \/ BootFails
  <2>1. TypeOK'
    BY <1>1 DEF TypeOK, BootCheck, BootFails, Boot
  <2>2. ProcessInv'
    BY <1>1 DEF ProcessInv, BootCheck, BootFails
  <2> QED
    BY <1>1, <2>1, <2>2 DEF BootCheck, BootFails, SessionInv, RequestInv, NoOrphanSession, FlagFollowsWriter, Live
<1>2. CASE BootCreate
  <2>1. TypeOK'
    BY <1>2 DEF TypeOK, BootCreate, Create, Boot, Secret, Roles
  <2>2. SessionInv' /\ RequestInv'
    BY <1>2 DEF SessionInv, RequestInv, BootCreate
  <2>3. NoOrphanSession' /\ FlagFollowsWriter'
    BY <1>2 DEF TypeOK, BootCreate, Create, NoOrphanSession, FlagFollowsWriter, Live, Roles
  <2>4. ProcessInv'
    BY <1>2 DEF TypeOK, BootCreate, Create, ProcessInv, Taken, Live, Roles
  <2> QED
    BY <2>1, <2>2, <2>3, <2>4
<1>3. CASE BootCreds
  <2>1. TypeOK'
    BY <1>3 DEF TypeOK, BootCreds, Boot, Secret
  <2>2. SessionInv' /\ RequestInv' /\ NoOrphanSession' /\ ProcessInv'
    BY <1>3 DEF SessionInv, RequestInv, NoOrphanSession, ProcessInv, Live, BootCreds
  <2>3. FlagFollowsWriter'
    BY <1>3 DEF TypeOK, BootCreds, FlagFollowsWriter, ProcessInv, Live
  <2> QED
    BY <2>1, <2>2, <2>3
<1>4. CASE Crash
  <2>1. TypeOK'
    BY <1>4, IdleIsRequest DEF TypeOK, Crash, Boot
  <2>2. SessionInv' /\ RequestInv' /\ ProcessInv'
    BY <1>4 DEF SessionInv, RequestInv, Carries, ProcessInv, Crash, Idle
  <2>3. NoOrphanSession' /\ FlagFollowsWriter'
    BY <1>4 DEF NoOrphanSession, FlagFollowsWriter, Live, Crash
  <2> QED
    BY <2>1, <2>2, <2>3
<1> QED
  BY <1>1, <1>2, <1>3, <1>4

\* A step of a request changes its own record only, and only while the server
\* is up.
LEMMA RequestStep ==
    ASSUME IInv, NEW q \in Requests, NEW r \in Request, Carries(r), Becomes(q, r),
           boot' = boot, ~ At(q, "idle") \/ boot = "up"
    PROVE  boot = "up" /\ req' \in [Requests -> Request] /\ RequestInv'
<1>1. boot = "up"
  BY DEF IInv, ProcessInv, At
<1>2. req' \in [Requests -> Request]
  BY DEF IInv, TypeOK, Becomes
<1>3. ASSUME NEW p \in Requests
      PROVE  req'[p] = IF p = q THEN r ELSE req[p]
  BY DEF IInv, TypeOK, Becomes
<1> QED
  BY <1>1, <1>2, <1>3 DEF IInv, RequestInv

\* The step with which a request ends.
LEMMA DoneStep ==
    ASSUME IInv, NEW q \in Requests, Becomes(q, Idle), boot' = boot, ~ At(q, "idle")
    PROVE  boot = "up" /\ req' \in [Requests -> Request] /\ RequestInv'
<1>1. Idle \in Request /\ Carries(Idle)
  BY IdleIsRequest DEF Idle, Carries
<1> QED
  BY <1>1, RequestStep

\* The step with which an admin handler starts to work on user i.
LEMMA HandlerStep ==
    ASSUME IInv, NEW q \in Requests, NEW p \in Place \ {"ready", "login", "change"},
           NEW i \in Ids \cup {None}, NEW r \in Roles \cup {None}, AdminHandler(q, p, i, r),
           boot' = boot, i \in Ids \/ p = "idle", p \in {"countRole", "writeRole"} => r \in Roles
    PROVE  boot = "up" /\ req' \in [Requests -> Request] /\ RequestInv'
<1> DEFINE w == [Idle EXCEPT !.pc = p, !.target = i, !.want = r]
<1>1. w \in Request /\ w.pc = p /\ w.target = i /\ w.want = r
  BY WorkIsRequest DEF Idle
<1>2. Carries(w)
  BY <1>1 DEF Carries, Place
<1>3. Becomes(q, w) /\ ~ At(q, "idle")
  BY DEF AdminHandler, At
<1> HIDE DEF w
<1> QED
  BY <1>1, <1>2, <1>3, RequestStep

\* A step that leaves the tables alone only has to keep the requests in order.
LEMMA ReadStep ==
    ASSUME IInv, UNCHANGED <<userVars, sessionVars, boot>>,
           boot = "up" /\ req' \in [Requests -> Request] /\ RequestInv'
    PROVE  IInv'
BY DEF IInv, TypeOK, SessionInv, ProcessInv, NoOrphanSession, FlagFollowsWriter, Live,
       userVars, sessionVars

\* Login, RequireAuth and a request that returns.
LEMMA AuthInv ==
    ASSUME IInv, NEW q \in Requests,
           \/ \E i \in Ids : Login(q, i)
           \/ \E t \in Tokens : Authenticate(q, t)
           \/ ChangeOwnPassword(q)
           \/ Return(q)
    PROVE  IInv'
<1> USE DEF At
<1>1. CASE \E i \in Ids : Login(q, i)
  <2>0. PICK i \in Ids : Login(q, i)
    BY <1>1
  <2> DEFINE r == [Idle EXCEPT !.pc = "login", !.self = i]
  <2>1. r \in Request /\ Carries(r)
    BY DEF Request, Place, Carries, Idle
  <2>2. Becomes(q, r)
    BY <2>0 DEF Login
  <2> HIDE DEF r
  <2> QED
    BY <2>0, <2>1, <2>2, RequestStep, ReadStep DEF Login
<1>2. CASE \E t \in Tokens : Authenticate(q, t)
  <2>0. PICK t \in Tokens : Authenticate(q, t)
    BY <1>2
  <2> DEFINE r == [Idle EXCEPT !.pc = "ready", !.self = owner[t],
                               !.as = role[owner[t]], !.token = t]
  <2>1. owner[t] \in Ids /\ role[owner[t]] \in Roles
    BY <2>0 DEF Authenticate, Live, IInv, TypeOK, SessionInv
  <2>2. r \in Request /\ Carries(r)
    BY <2>1 DEF Request, Place, Carries, Idle
  <2>3. Becomes(q, r)
    BY <2>0 DEF Authenticate
  <2> HIDE DEF r
  <2> QED
    BY <2>0, <2>2, <2>3, RequestStep, ReadStep DEF Authenticate
<1>3. CASE ChangeOwnPassword(q)
  <2> DEFINE r == [Idle EXCEPT !.pc = "change", !.self = req[q].self]
  <2>1. req[q].self \in Ids
    BY <1>3 DEF ChangeOwnPassword, IInv, RequestInv, Carries
  <2>2. r \in Request /\ Carries(r)
    BY <2>1 DEF Request, Place, Carries, Idle
  <2>3. Becomes(q, r)
    BY <1>3 DEF ChangeOwnPassword
  <2> HIDE DEF r
  <2> QED
    BY <1>3, <2>2, <2>3, RequestStep, ReadStep DEF ChangeOwnPassword
<1>4. CASE Return(q)
  BY <1>4, DoneStep, ReadStep DEF Return
<1> QED
  BY <1>1, <1>2, <1>3, <1>4

\* The steps that only write sessions.
LEMMA SessionWriteInv ==
    ASSUME IInv, NEW q \in Requests, CreateSession(q) \/ Logout(q)
    PROVE  IInv'
<1> USE DEF IInv, At
<1>1. CASE CreateSession(q)
  <2>1. boot = "up" /\ req' \in [Requests -> Request] /\ RequestInv'
    BY <1>1, DoneStep DEF CreateSession
  <2>2. req[q].self \in Ids /\ req[q].self # None
    BY <1>1 DEF CreateSession, RequestInv, Carries
  <2>3. TypeOK' /\ ProcessInv' /\ FlagFollowsWriter'
    BY <1>1, <2>1, <2>2 DEF CreateSession, TypeOK, ProcessInv, FlagFollowsWriter, Live, userVars, Session
  <2>4. SessionInv' /\ NoOrphanSession'
    BY <1>1, <2>2 DEF CreateSession, TypeOK, SessionInv, NoOrphanSession, Live, userVars
  <2> QED
    BY <2>1, <2>3, <2>4
<1>2. CASE Logout(q)
  <2>1. boot = "up" /\ req' \in [Requests -> Request] /\ RequestInv'
    BY <1>2, DoneStep DEF Logout
  <2>2. req[q].token \in Tokens
    BY <1>2 DEF Logout, RequestInv, Carries
  <2>3. TypeOK' /\ ProcessInv' /\ FlagFollowsWriter'
    BY <1>2, <2>1, <2>2 DEF Logout, TypeOK, ProcessInv, FlagFollowsWriter, Live, userVars, Session
  <2>4. SessionInv' /\ NoOrphanSession'
    BY <1>2, <2>2 DEF Logout, TypeOK, SessionInv, NoOrphanSession, Live, userVars
  <2> QED
    BY <2>1, <2>3, <2>4
<1> QED
  BY <1>1, <1>2

\* The end of a session's lifetime.
LEMMA ExpireInv ==
    ASSUME IInv, NEW t \in Tokens, Expire(t)
    PROVE  IInv'
<1> USE DEF IInv, Expire, userVars
<1>1. TypeOK' /\ ProcessInv' /\ FlagFollowsWriter' /\ RequestInv'
  BY DEF TypeOK, ProcessInv, FlagFollowsWriter, RequestInv, Live, Session
<1>2. SessionInv' /\ NoOrphanSession'
  BY DEF TypeOK, SessionInv, NoOrphanSession, Live
<1> QED
  BY <1>1, <1>2

\* The admin handlers up to their write.
LEMMA AdminInv ==
    ASSUME IInv, NEW q \in Requests,
           \/ \E i \in Ids, r \in Roles : UpdateRole(q, i, r)
           \/ \E i \in Ids : DeleteUser(q, i)
           \/ \E i \in Ids : ResetUserPassword(q, i)
           \/ guardNotLastAdmin(q)
    PROVE  IInv'
<1>1. CASE \E i \in Ids, r \in Roles : UpdateRole(q, i, r)
  <2>0. PICK i \in Ids, r \in Roles : UpdateRole(q, i, r)
    BY <1>1
  <2> DEFINE p == IF role[i] = "admin" /\ r # "admin" THEN "countRole" ELSE "writeRole"
  <2>1. p \in Place \ {"ready", "login", "change"}
    BY DEF Place
  <2>2. AdminHandler(q, p, i, r)
    BY <2>0 DEF UpdateRole
  <2> HIDE DEF p
  <2> QED
    BY <2>0, <2>1, <2>2, HandlerStep, ReadStep DEF UpdateRole
<1>2. CASE \E i \in Ids : DeleteUser(q, i)
  <2>0. PICK i \in Ids : DeleteUser(q, i)
    BY <1>2
  <2> DEFINE p == IF role[i] = "admin" THEN "countDelete" ELSE "writeDelete"
  <2>1. p \in Place \ {"ready", "login", "change", "countRole", "writeRole"}
    BY DEF Place
  <2>2. AdminHandler(q, p, i, None)
    BY <2>0 DEF DeleteUser
  <2> HIDE DEF p
  <2> QED
    BY <2>0, <2>1, <2>2, HandlerStep, ReadStep DEF DeleteUser
<1>3. CASE \E i \in Ids : ResetUserPassword(q, i)
  <2>0. PICK i \in Ids : ResetUserPassword(q, i)
    BY <1>3
  <2>1. "reset" \in Place \ {"ready", "login", "change", "countRole", "writeRole"}
    BY DEF Place
  <2> QED
    BY <2>0, <2>1, HandlerStep, ReadStep DEF ResetUserPassword
<1>4. CASE guardNotLastAdmin(q)
  <2>1. PICK p \in {"writeRole", "writeDelete"} :
          /\ Becomes(q, [req[q] EXCEPT !.pc = p])
          /\ At(q, IF p = "writeRole" THEN "countRole" ELSE "countDelete")
    BY <1>4 DEF guardNotLastAdmin
  <2> DEFINE w == [req[q] EXCEPT !.pc = p]
  <2>2. req[q] \in Request /\ Carries(req[q])
    BY DEF IInv, TypeOK, RequestInv
  <2>3. /\ w \in Request
        /\ w.pc = p
        /\ w.target = req[q].target
        /\ w.want = req[q].want
    BY <2>2 DEF Request, Place
  <2>4. Carries(w)
    BY <2>1, <2>2, <2>3 DEF Carries, At
  <2>5. Becomes(q, w) /\ ~ At(q, "idle")
    BY <2>1 DEF At
  <2> HIDE DEF w
  <2> QED
    BY <1>4, <2>3, <2>4, <2>5, RequestStep, ReadStep DEF guardNotLastAdmin
<1> QED
  BY <1>1, <1>2, <1>3, <1>4

\* The steps that write users.
LEMMA UserWriteInv ==
    ASSUME IInv, NEW q \in Requests,
           \/ \E e \in Emails, r \in Roles : CreateUser(q, e, r)
           \/ WriteRole(q)
           \/ WriteDelete(q)
           \/ WriteReset(q)
           \/ WriteChange(q)
    PROVE  IInv'
<1>1. CASE \E e \in Emails, r \in Roles : CreateUser(q, e, r)
  <2>0. PICK e \in Emails, r \in Roles : CreateUser(q, e, r)
    BY <1>1
  <2>1. "idle" \in Place \ {"ready", "login", "change", "countRole", "writeRole"}
    BY DEF Place
  <2>2. boot' = boot /\ AdminHandler(q, "idle", None, None)
    BY <2>0 DEF CreateUser
  <2>3. boot = "up" /\ req' \in [Requests -> Request] /\ RequestInv'
    BY <2>1, <2>2, HandlerStep
  <2>4. PICK s \in {"generated", "unseen"} : Create(e, r, s)
    BY <2>0 DEF CreateUser
  <2>5. TypeOK' /\ ProcessInv'
    <3>1. /\ role' \in [Ids -> Roles \cup {"unused", "deleted"}]
          /\ email' \in [Ids -> Emails \cup {None}]
      BY <2>4 DEF IInv, TypeOK, Create
    <3>2. secret' \in [Ids -> Secret] /\ rotate' \in [Ids -> BOOLEAN]
      BY <2>4 DEF IInv, TypeOK, Create, Secret
    <3>3. UNCHANGED <<session, owner, boot>>
      BY <2>0 DEF CreateUser, sessionVars
    <3> QED
      BY <2>3, <3>1, <3>2, <3>3 DEF IInv, TypeOK, ProcessInv
  <2>6. FlagFollowsWriter'
    BY <2>4 DEF IInv, TypeOK, FlagFollowsWriter, Create, Live
  <2>7. SessionInv' /\ NoOrphanSession'
    <3>1. UNCHANGED <<session, owner>>
      BY <2>0 DEF CreateUser, sessionVars
    <3>2. \A i \in Ids : Live(i) => Live(i)'
      BY <2>4 DEF IInv, TypeOK, Create, Live
    <3> QED
      BY <3>1, <3>2 DEF IInv, TypeOK, SessionInv, NoOrphanSession
  <2> QED
    BY <2>3, <2>5, <2>6, <2>7 DEF IInv
<1>2. CASE WriteRole(q)
  <2>1. boot = "up" /\ req' \in [Requests -> Request] /\ RequestInv'
    BY <1>2, DoneStep DEF WriteRole, At
  <2>2. req[q].target \in Ids /\ req[q].want \in Roles
    BY <1>2 DEF WriteRole, At, IInv, RequestInv, Carries
  <2>3. TypeOK' /\ ProcessInv'
    BY <1>2, <2>1, <2>2 DEF IInv, TypeOK, ProcessInv, WriteRole, sessionVars
  <2>4. \A i \in Ids : Live(i)' <=> Live(i)
    BY <1>2, <2>2 DEF IInv, TypeOK, WriteRole, Live
  <2>5. FlagFollowsWriter'
    BY <1>2, <2>4 DEF IInv, FlagFollowsWriter, WriteRole
  <2>6. SessionInv'
    BY <1>2 DEF IInv, SessionInv, WriteRole, sessionVars
  <2>7. NoOrphanSession'
    BY <1>2, <2>4 DEF IInv, TypeOK, SessionInv, NoOrphanSession, WriteRole, sessionVars
  <2> QED
    BY <2>1, <2>3, <2>5, <2>6, <2>7 DEF IInv
<1>3. CASE WriteDelete(q)
  <2>1. boot = "up" /\ req' \in [Requests -> Request] /\ RequestInv'
    BY <1>3, DoneStep DEF WriteDelete, At
  <2>2. req[q].target \in Ids
    BY <1>3 DEF WriteDelete, At, IInv, RequestInv, Carries
  <2>3. TypeOK' /\ ProcessInv'
    BY <1>3, <2>1, <2>2 DEF IInv, TypeOK, ProcessInv, WriteDelete, Session
  <2>4. \A i \in Ids : Live(i)' <=> Live(i) /\ i # req[q].target
    BY <1>3, <2>2 DEF IInv, TypeOK, WriteDelete, Live, Roles
  <2>5. FlagFollowsWriter'
    BY <1>3, <2>4 DEF IInv, FlagFollowsWriter, WriteDelete
  <2>6. SessionInv'
    BY <1>3, <2>2 DEF IInv, TypeOK, SessionInv, WriteDelete
  <2>7. NoOrphanSession'
    BY <1>3, <2>4 DEF IInv, TypeOK, SessionInv, NoOrphanSession, WriteDelete
  <2> QED
    BY <2>1, <2>3, <2>5, <2>6, <2>7 DEF IInv
<1>4. CASE WriteReset(q) \/ WriteChange(q)
  <2>1. boot = "up" /\ req' \in [Requests -> Request] /\ RequestInv'
    BY <1>4, DoneStep DEF WriteReset, WriteChange, At
  <2>2. PICK i \in Ids, s \in Secret \ {"unwritten"}, m \in BOOLEAN :
          SetPassword(i, s, m) /\ (m <=> s \notin {"chosen", "kept"})
    BY <1>4 DEF WriteReset, WriteChange, At, IInv, RequestInv, Carries, Secret
  <2>3. TypeOK' /\ ProcessInv'
    BY <1>4, <2>1, <2>2 DEF IInv, TypeOK, ProcessInv, WriteReset, WriteChange, SetPassword, sessionVars
  <2>4. FlagFollowsWriter'
    BY <2>2 DEF IInv, TypeOK, FlagFollowsWriter, SetPassword, Live
  <2>5. SessionInv' /\ NoOrphanSession'
    BY <1>4, <2>2 DEF IInv, SessionInv, NoOrphanSession, WriteReset, WriteChange, SetPassword,
                      Live, sessionVars
  <2> QED
    BY <2>1, <2>3, <2>4, <2>5 DEF IInv
<1> QED
  BY <1>1, <1>2, <1>3, <1>4

\* Every step preserves the invariant.
LEMMA NextInv == IInv /\ [Next]_vars => IInv'
<1> SUFFICES ASSUME IInv, [Next]_vars PROVE IInv'
  OBVIOUS
<1>1. CASE Next
  <2>1. CASE BootCheck \/ BootCreate \/ BootFails \/ BootCreds \/ Crash
    BY <2>1, BootInv
  <2>2. CASE \E t \in Tokens : Expire(t)
    BY <2>2, ExpireInv
  <2>3. ASSUME NEW q \in Requests,
               \/ \E i \in Ids :
                    \/ Login(q, i)
                    \/ \E r \in Roles : UpdateRole(q, i, r)
                    \/ DeleteUser(q, i)
                    \/ ResetUserPassword(q, i)
               \/ \E t \in Tokens : Authenticate(q, t)
               \/ \E e \in Emails, r \in Roles : CreateUser(q, e, r)
               \/ CreateSession(q)
               \/ Logout(q)
               \/ Return(q)
               \/ guardNotLastAdmin(q)
               \/ WriteRole(q)
               \/ WriteDelete(q)
               \/ WriteReset(q)
               \/ ChangeOwnPassword(q)
               \/ WriteChange(q)
        PROVE  IInv'
    BY <2>3, AuthInv, SessionWriteInv, AdminInv, UserWriteInv
  <2> QED
    BY <1>1, <2>1, <2>2, <2>3 DEF Next
<1>2. CASE UNCHANGED vars
  BY <1>2 DEF vars, userVars, sessionVars, IInv, TypeOK, SessionInv, RequestInv, ProcessInv,
              NoOrphanSession, FlagFollowsWriter, Live
<1> QED
  BY <1>1, <1>2
-----------------------------------------------------------------------------
(* The theorems about any number of concurrent requests. *)

\* The inductive invariant holds in every reachable state.
THEOREM Invariance == Spec => []IInv
BY InitInv, NextInv, PTL DEF Spec

\* Type correctness of users, sessions, the process and the requests.
THEOREM TypeCorrect == Spec => []TypeOK
<1>1. IInv => TypeOK
  BY DEF IInv
<1> QED
  BY <1>1, Invariance, PTL

\* No session row outlives its user: the cascade removes what exists and the
\* foreign key refuses what a Login under way would add.
THEOREM SessionsFollowUsers == Spec => []NoOrphanSession
<1>1. IInv => NoOrphanSession
  BY DEF IInv
<1> QED
  BY <1>1, Invariance, PTL

\* must_rotate is set exactly while the server's own write of the password is the
\* last one: it goes down with the hash that the account's user set, and with no
\* other.  (That the user chose a new one is more than the code asks.)
THEOREM RotationFlag == Spec => []FlagFollowsWriter
<1>1. IInv => FlagFollowsWriter
  BY DEF IInv
<1> QED
  BY <1>1, Invariance, PTL

\* Deleted users and revoked or removed sessions never come back, whatever a
\* request in flight had read of them.
THEOREM NoRevival == Spec => DeadStaysDead
<1> DEFINE A == /\ \A i \in Ids : role[i] = "deleted" => role'[i] = "deleted"
                /\ \A t \in Tokens : session[t] \in {"revoked", "gone"} =>
                     session'[t] \in {"revoked", "gone"}
<1>1. IInv /\ [Next]_vars => [A]_vars
  <2> SUFFICES ASSUME IInv, Next PROVE A
    OBVIOUS
  <2> USE DEF IInv, TypeOK, userVars, sessionVars
  <2>1. CASE UNCHANGED <<role, session>>
    BY <2>1
  <2>2. CASE BootCreate
    BY <2>2 DEF BootCreate, Create
  <2>3. ASSUME NEW q \in Requests, NEW e \in Emails, NEW r \in Roles, CreateUser(q, e, r)
        PROVE  A
    BY <2>3 DEF CreateUser, Create
  <2>4. ASSUME NEW t \in Tokens, Expire(t)
        PROVE  A
    BY <2>4 DEF Expire
  <2>5. ASSUME NEW q \in Requests, CreateSession(q) \/ Logout(q)
        PROVE  A
    BY <2>5 DEF CreateSession, Logout
  <2>6. ASSUME NEW q \in Requests, WriteRole(q)
        PROVE  A
    BY <2>6 DEF WriteRole, Live, Roles
  <2>7. ASSUME NEW q \in Requests, WriteDelete(q)
        PROVE  A
    BY <2>7 DEF WriteDelete
  <2>8. \/ UNCHANGED <<role, session>>
        \/ BootCreate
        \/ \E q \in Requests, e \in Emails, r \in Roles : CreateUser(q, e, r)
        \/ \E t \in Tokens : Expire(t)
        \/ \E q \in Requests : CreateSession(q) \/ Logout(q) \/ WriteRole(q) \/ WriteDelete(q)
    BY DEF Next, BootCheck, BootFails, BootCreds, Crash, Login, UpdateRole, DeleteUser,
           ResetUserPassword, Authenticate, Return, guardNotLastAdmin, WriteReset,
           ChangeOwnPassword, WriteChange, SetPassword
  <2> QED
    BY <2>1, <2>2, <2>3, <2>4, <2>5, <2>6, <2>7, <2>8
<1> QED
  BY <1>1, Invariance, PTL DEF Spec, DeadStaysDead
-----------------------------------------------------------------------------
(* One request at a time. *)

OneAtATime == \A p, q \in Requests : p = q

\* There is an admin from users.Create on, and at a write that takes a role
\* away there is another one.
SerialInv ==
    /\ boot \in {"creds", "up"} => Admins # {}
    /\ \A q \in Requests :
         LET i == req[q].target
         IN  /\ At(q, "writeRole") =>
                  req[q].want = "admin" \/ role[i] # "admin" \/ Admins \ {i} # {}
             /\ At(q, "writeDelete") => role[i] # "admin" \/ Admins \ {i} # {}

\* The invariant for one request is preserved: nobody demotes or deletes another
\* admin between the count and the write.
LEMMA SerialNext ==
    ASSUME OneAtATime, IInv, IInv', SerialInv, [Next]_vars
    PROVE  SerialInv'
<1> USE DEF userVars, sessionVars
<1>1. TypeOK /\ TypeOK' /\ RequestInv /\ ProcessInv /\ ProcessInv'
  BY DEF IInv
<1>2. CASE UNCHANGED vars
  BY <1>2 DEF vars, SerialInv, Admins, At
<1>3. CASE BootCheck \/ BootFails \/ BootCreds \/ Crash \/ \E t \in Tokens : Expire(t)
  <2>1. UNCHANGED role
    BY <1>3 DEF BootCheck, BootFails, BootCreds, Crash, Expire
  <2>2. \A q \in Requests : At(q, "writeRole")' \/ At(q, "writeDelete")' => req'[q] = req[q]
    BY <1>3, <1>1 DEF BootCheck, BootFails, BootCreds, Crash, Expire, At, Idle
  <2>3. boot' \in {"creds", "up"} => Admins # {}
    BY <1>3 DEF BootCheck, BootFails, BootCreds, Crash, Expire, SerialInv
  <2> QED
    BY <2>1, <2>2, <2>3 DEF SerialInv, Admins, At
<1>4. CASE BootCreate
  <2>1. \A q \in Requests : req'[q].pc = "idle"
    BY <1>4, <1>1 DEF BootCreate, ProcessInv
  <2>2. Admins' # {}
    BY <1>4, <1>1 DEF BootCreate, Create, Admins, TypeOK
  <2> QED
    BY <2>1, <2>2 DEF SerialInv, At
<1>5. ASSUME NEW q \in Requests, ~ At(q, "writeRole")', ~ At(q, "writeDelete")',
             boot' = boot, \A i \in Ids : role[i] = "admin" => role'[i] = "admin"
      PROVE  SerialInv'
  <2>1. \A p \in Requests : ~ At(p, "writeRole")' /\ ~ At(p, "writeDelete")'
    BY <1>5 DEF OneAtATime
  <2>2. Admins # {} => Admins' # {}
    BY <1>5 DEF Admins
  <2> QED
    BY <1>5, <2>1, <2>2 DEF SerialInv
<1>6. ASSUME NEW q \in Requests,
             \/ \E i \in Ids : Login(q, i) \/ ResetUserPassword(q, i)
             \/ \E t \in Tokens : Authenticate(q, t)
             \/ \E e \in Emails, r \in Roles : CreateUser(q, e, r)
             \/ CreateSession(q)
             \/ Logout(q)
             \/ Return(q)
             \/ WriteReset(q)
             \/ ChangeOwnPassword(q)
             \/ WriteChange(q)
      PROVE  SerialInv'
  <2>1. req'[q].pc \in {"idle", "login", "ready", "reset", "change"}
    <3> req \in [Requests -> Request]
      BY <1>1 DEF TypeOK
    <3>1. CASE CreateSession(q) \/ Logout(q) \/ Return(q) \/ WriteReset(q) \/ WriteChange(q)
      <4>1. Becomes(q, Idle)
        BY <3>1 DEF CreateSession, Logout, Return, WriteReset, WriteChange
      <4> QED
        BY <4>1, BecomesIs DEF Idle
    <3>2. CASE \E i \in Ids : Login(q, i) \/ ResetUserPassword(q, i)
      <4>1. PICK i \in Ids : \/ Becomes(q, [Idle EXCEPT !.pc = "login", !.self = i])
                             \/ AdminHandler(q, "reset", i, None)
        BY <3>2 DEF Login, ResetUserPassword
      <4> QED
        BY <4>1, BecomesIs, HandlerIs DEF Idle
    <3>3. CASE (\E t \in Tokens : Authenticate(q, t)) \/ ChangeOwnPassword(q)
      <4>1. \/ \E t \in Tokens : Becomes(q, [Idle EXCEPT !.pc = "ready", !.self = owner[t],
                                              !.as = role[owner[t]], !.token = t])
            \/ Becomes(q, [Idle EXCEPT !.pc = "change", !.self = req[q].self])
        BY <3>3 DEF Authenticate, ChangeOwnPassword
      <4> QED
        BY <4>1, BecomesIs DEF Idle
    <3>4. CASE \E e \in Emails, r \in Roles : CreateUser(q, e, r)
      BY <3>4, HandlerIs DEF CreateUser
    <3> QED
      BY <1>6, <3>1, <3>2, <3>3, <3>4
  <2>2. boot' = boot /\ \A i \in Ids : role[i] = "admin" => role'[i] = "admin"
    BY <1>6, <1>1 DEF TypeOK, Login, ResetUserPassword, Authenticate, CreateUser, CreateSession,
         Logout, Return, WriteReset, ChangeOwnPassword, WriteChange, Create, SetPassword
  <2> QED
    BY <2>1, <2>2, <1>5 DEF At
<1>7. ASSUME NEW q \in Requests,
             \/ \E i \in Ids : (\E r \in Roles : UpdateRole(q, i, r)) \/ DeleteUser(q, i)
             \/ guardNotLastAdmin(q)
      PROVE  SerialInv'
  <2>1. boot' = boot /\ role' = role
    BY <1>7 DEF UpdateRole, DeleteUser, guardNotLastAdmin
  <2>2. LET i == req'[q].target
        IN  /\ At(q, "writeRole")' =>
                 req'[q].want = "admin" \/ role[i] # "admin" \/ Admins \ {i} # {}
            /\ At(q, "writeDelete")' => role[i] # "admin" \/ Admins \ {i} # {}
    <3>1. CASE guardNotLastAdmin(q)
      <4>1. req[q] \in Request
        BY <1>1 DEF TypeOK
      <4>2. req'[q].target = req[q].target
        BY <3>1, <4>1, <1>1 DEF TypeOK, guardNotLastAdmin, Becomes, Request
      <4> QED
        BY <3>1, <4>2 DEF guardNotLastAdmin
    <3>2. ASSUME NEW i \in Ids, NEW r \in Roles, UpdateRole(q, i, r)
          PROVE  /\ req'[q].target = i /\ req'[q].want = r
                 /\ req'[q].pc = IF role[i] = "admin" /\ r # "admin" THEN "countRole" ELSE "writeRole"
      BY <3>2, <1>1 DEF TypeOK, UpdateRole, AdminHandler, Becomes, Idle
    <3>3. ASSUME NEW i \in Ids, DeleteUser(q, i)
          PROVE  /\ req'[q].target = i
                 /\ req'[q].pc = IF role[i] = "admin" THEN "countDelete" ELSE "writeDelete"
      BY <3>3, <1>1 DEF TypeOK, DeleteUser, AdminHandler, Becomes, Idle
    <3>4. CASE \E i \in Ids, r \in Roles : UpdateRole(q, i, r)
      <4>1. PICK i \in Ids, r \in Roles : UpdateRole(q, i, r)
        BY <3>4
      <4> QED
        BY <4>1, <3>2 DEF At
    <3>5. CASE \E i \in Ids : DeleteUser(q, i)
      <4>1. PICK i \in Ids : DeleteUser(q, i)
        BY <3>5
      <4> QED
        BY <4>1, <3>3 DEF At
    <3> QED
      BY <1>7, <3>1, <3>4, <3>5
  <2>3. \A p \in Requests : p = q
    BY DEF OneAtATime
  <2> QED
    BY <2>1, <2>2, <2>3 DEF SerialInv, Admins, At
<1>8. ASSUME NEW q \in Requests, WriteRole(q) \/ WriteDelete(q)
      PROVE  SerialInv'
  <2> DEFINE i == req[q].target
  <2>1. i \in Ids /\ boot = "up" /\ boot' = boot
    BY <1>8, <1>1 DEF WriteRole, WriteDelete, At, RequestInv, Carries, ProcessInv
  <2>2. req'[q].pc = "idle"
    BY <1>8, <1>1 DEF TypeOK, WriteRole, WriteDelete, Becomes, Idle
  <2>3. Admins' # {}
    <3>1. CASE WriteRole(q)
      <4>1. role' = IF Live(i) THEN [role EXCEPT ![i] = req[q].want] ELSE role
        BY <3>1 DEF WriteRole
      <4>2. Admins # {}
        BY <2>1 DEF SerialInv
      <4>3. req[q].want = "admin" \/ role[i] # "admin" \/ Admins \ {i} # {}
        BY <3>1 DEF SerialInv, WriteRole
      <4> HIDE DEF i
      <4> QED
        BY <1>1, <2>1, <4>1, <4>2, <4>3 DEF TypeOK, Admins, Live
    <3>2. CASE WriteDelete(q)
      <4>1. role' = [role EXCEPT ![i] = "deleted"]
        BY <3>2 DEF WriteDelete
      <4>2. Admins # {}
        BY <2>1 DEF SerialInv
      <4>3. role[i] # "admin" \/ Admins \ {i} # {}
        BY <3>2 DEF SerialInv, WriteDelete
      <4> HIDE DEF i
      <4> QED
        BY <1>1, <2>1, <4>1, <4>2, <4>3 DEF TypeOK, Admins
    <3> QED
      BY <1>8, <3>1, <3>2
  <2>4. \A p \in Requests : p = q
    BY DEF OneAtATime
  <2> QED
    BY <2>1, <2>2, <2>3, <2>4 DEF SerialInv, At
<1> QED
  BY <1>2, <1>3, <1>4, <1>6, <1>7, <1>8 DEF Next

\* With one request at a time the last-admin guard keeps its promise, across
\* restarts: a server that is up has an admin.  Two requests at a time break it.
THEOREM SerialAdminRemains ==
    ASSUME OneAtATime
    PROVE  Spec => []AdminRemains
<1>1. Init => SerialInv
  BY DEF Init, SerialInv, At, Idle
<1>2. IInv /\ IInv' /\ SerialInv /\ [Next]_vars => SerialInv'
  BY SerialNext
<1>3. SerialInv => AdminRemains
  BY DEF SerialInv, AdminRemains
<1> QED
  BY <1>1, <1>2, <1>3, Invariance, PTL DEF Spec
=============================================================================
