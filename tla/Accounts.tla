------------------------------- MODULE Accounts -------------------------------
(***************************************************************************)
(* Users, sessions and the first admin: store.UsersRepo and SessionsRepo,  *)
(* the login, logout and user-management handlers on top of them, and the  *)
(* part of bootstrap.RunInit that creates the admin.                       *)
(*                                                                         *)
(* Every repository call is one SQL statement, atomic in SQLite; nothing   *)
(* holds a transaction across two of them.  A handler that reads, counts   *)
(* and then writes is therefore three steps, and the requests of several   *)
(* clients (or of one) interleave between them.  RequireAuth copies the    *)
(* user into the request: a handler works with the role read there.        *)
(***************************************************************************)
EXTENDS Naturals, FiniteSets

CONSTANTS
    Ids,         \* user ids (AUTOINCREMENT: an id is never used again)
    Emails,
    AdminEmail,  \* "admin@local", the account RunInit creates
    Tokens,      \* session tokens; bounds the logins explored
    Requests,    \* HTTP requests in flight
    None

ASSUME AccountsAssumption ==
    /\ AdminEmail \in Emails
    /\ None \notin Ids \cup Emails \cup Tokens

Roles == {"admin", "member", "viewer"}

VARIABLES
    role,     \* users.role of each id, "unused" or "deleted" without a row
    email,    \* users.email; kept for a deleted id
    secret,   \* who may know the password behind users.password_hash
    rotate,   \* users.must_rotate
    session,  \* the sessions row of each token
    owner,    \* sessions.user_id
    boot,     \* the process: "down", inside RunInit, or "up"
    req       \* each request: where it is and what it carries

userVars    == <<role, email, secret, rotate>>
sessionVars == <<session, owner>>
vars        == <<userVars, sessionVars, boot, req>>

\* "unwritten": RunInit's password before it is in initial-credentials.txt;
\* "unseen": a generated one whose response was lost; "kept": a generated one that
\* its user gave as the new password.
Secret  == {"unwritten", "unseen", "generated", "chosen", "kept"}
Session == {"unused", "live", "expired", "revoked", "gone"}
Boot    == {"down", "create", "creds", "up"}
Place   == {"idle", "login", "ready", "countRole", "writeRole",
            "countDelete", "writeDelete", "reset", "change"}

\* self and as are the user RequireAuth (or VerifyPassword) found and its role
\* then; token is the one presented; target and want are what it works on.
Request == [pc : Place, self : Ids \cup {None}, as : Roles \cup {None},
            token : Tokens \cup {None}, target : Ids \cup {None}, want : Roles \cup {None}]

Idle == [pc |-> "idle", self |-> None, as |-> None,
         token |-> None, target |-> None, want |-> None]

TypeOK ==
    /\ role \in [Ids -> Roles \cup {"unused", "deleted"}]
    /\ email \in [Ids -> Emails \cup {None}]
    /\ secret \in [Ids -> Secret]
    /\ rotate \in [Ids -> BOOLEAN]
    /\ session \in [Tokens -> Session]
    /\ owner \in [Tokens -> Ids \cup {None}]
    /\ boot \in Boot
    /\ req \in [Requests -> Request]

Init ==
    /\ role = [i \in Ids |-> "unused"]
    /\ email = [i \in Ids |-> None]
    /\ secret = [i \in Ids |-> "generated"]
    /\ rotate = [i \in Ids |-> TRUE]
    /\ session = [t \in Tokens |-> "unused"]
    /\ owner = [t \in Tokens |-> None]
    /\ boot = "down"
    /\ req = [q \in Requests |-> Idle]

Live(i)  == role[i] \in Roles
Known(i) == secret[i] \in {"generated", "chosen", "kept"}
Admins   == {i \in Ids : role[i] = "admin"}
Taken(e) == \E i \in Ids : Live(i) /\ email[i] = e

\* Request q is at place p; it becomes r.
At(q, p)      == req[q].pc = p
Becomes(q, r) == req' = [req EXCEPT ![q] = r]

\* A handler of the admin-only route group (RequireRole on the copied role)
\* goes on to work on user i.
AdminHandler(q, to, i, r) ==
    /\ At(q, "ready")
    /\ req[q].as = "admin"
    /\ Becomes(q, [Idle EXCEPT !.pc = to, !.target = i, !.want = r])

-----------------------------------------------------------------------------
(* The users table. *)

\* UsersRepo.Create with a generated password; email is UNIQUE.
Create(e, r, s) ==
    /\ ~ Taken(e)
    /\ \E i \in Ids :
         /\ role[i] = "unused"
         /\ role' = [role EXCEPT ![i] = r]
         /\ email' = [email EXCEPT ![i] = e]
         /\ secret' = [secret EXCEPT ![i] = s]
         /\ rotate' = [rotate EXCEPT ![i] = TRUE]

\* Faulty variant: must_rotate is left as it was.
SetPasswordOnly(i, s, mustRotate) ==
    /\ secret' = IF Live(i) THEN [secret EXCEPT ![i] = s] ELSE secret
    /\ UNCHANGED <<role, email, rotate>>

\* SetPassword: one UPDATE of hash and flag, of no row when i is gone.
SetPassword(i, s, mustRotate) ==
    /\ secret' = IF Live(i) THEN [secret EXCEPT ![i] = s] ELSE secret
    /\ rotate' = IF Live(i) THEN [rotate EXCEPT ![i] = mustRotate] ELSE rotate
    /\ UNCHANGED <<role, email>>

-----------------------------------------------------------------------------
(* RunInit, on every `dbil serve`. *)

\* AdminExists: with an admin there is nothing to create.
BootCheck ==
    /\ boot = "down"
    /\ boot' = IF Admins = {} THEN "create" ELSE "up"
    /\ UNCHANGED <<userVars, sessionVars, req>>

\* users.Create of admin@local with a random password.
BootCreate ==
    /\ boot = "create"
    /\ Create(AdminEmail, "admin", "unwritten")
    /\ boot' = "creds"
    /\ UNCHANGED <<sessionVars, req>>

\* ErrUserExists, any other error, or a kill: RunInit and the process end.
BootFails ==
    /\ boot \in {"create", "creds"}
    /\ boot' = "down"
    /\ UNCHANGED <<userVars, sessionVars, req>>

\* writeInitialCreds and the console banner; the server starts.
BootCreds ==
    /\ boot = "creds"
    /\ secret' = [i \in Ids |->
                    IF Live(i) /\ email[i] = AdminEmail THEN "generated" ELSE secret[i]]
    /\ boot' = "up"
    /\ UNCHANGED <<role, email, rotate, sessionVars, req>>

\* The process is killed: requests vanish, the database stays.
Crash ==
    /\ boot = "up"
    /\ boot' = "down"
    /\ req' = [q \in Requests |-> Idle]
    /\ UNCHANGED <<userVars, sessionVars>>

-----------------------------------------------------------------------------
(* Sessions. *)

\* Login: VerifyPassword finds the user, whose password somebody knows.
Login(q, i) ==
    /\ boot = "up"
    /\ At(q, "idle")
    /\ Live(i)
    /\ Known(i)
    /\ Becomes(q, [Idle EXCEPT !.pc = "login", !.self = i])
    /\ UNCHANGED <<userVars, sessionVars, boot>>

\* SessionsRepo.Create: the foreign key refuses a user who is gone (Return).
CreateSession(q) ==
    /\ At(q, "login")
    /\ Live(req[q].self)
    /\ \E t \in Tokens :
         /\ session[t] = "unused"
         /\ session' = [session EXCEPT ![t] = "live"]
         /\ owner' = [owner EXCEPT ![t] = req[q].self]
    /\ Becomes(q, Idle)
    /\ UNCHANGED <<userVars, boot>>

\* RequireAuth: Lookup joins the session with its user, and the request goes on
\* with a copy of that user.
Authenticate(q, t) ==
    /\ boot = "up"
    /\ At(q, "idle")
    /\ session[t] = "live"
    /\ Live(owner[t])
    /\ Becomes(q, [Idle EXCEPT !.pc = "ready", !.self = owner[t],
                               !.as = role[owner[t]], !.token = t])
    /\ UNCHANGED <<userVars, sessionVars, boot>>

\* Logout: Revoke, a no-op unless the row is there and not yet revoked.
Logout(q) ==
    /\ At(q, "ready")
    /\ session' = [session EXCEPT ![req[q].token] =
                     IF @ \in {"live", "expired"} THEN "revoked" ELSE @]
    /\ Becomes(q, Idle)
    /\ UNCHANGED <<userVars, owner, boot>>

\* DefaultSessionTTL passes.
Expire(t) ==
    /\ session[t] = "live"
    /\ session' = [session EXCEPT ![t] = "expired"]
    /\ UNCHANGED <<userVars, owner, boot, req>>

\* The request ends without a further write: a refusal, a read-only handler, an
\* error of the database, a client that went away.
Return(q) ==
    /\ ~ At(q, "idle")
    /\ Becomes(q, Idle)
    /\ UNCHANGED <<userVars, sessionVars, boot>>

-----------------------------------------------------------------------------
(* User management. *)

\* CreateUser; the password is returned once, and the response may be lost.
CreateUser(q, e, r) ==
    /\ AdminHandler(q, "idle", None, None)
    /\ \E s \in {"generated", "unseen"} : Create(e, r, s)
    /\ UNCHANGED <<sessionVars, boot>>

\* UpdateRole: GetByID decides whether the last-admin guard has to run.
UpdateRole(q, i, r) ==
    /\ Live(i)
    /\ AdminHandler(q, IF role[i] = "admin" /\ r # "admin" THEN "countRole" ELSE "writeRole", i, r)
    /\ UNCHANGED <<userVars, sessionVars, boot>>

\* UsersRepo.Delete, likewise; DeleteUser has refused the caller's own id.
DeleteUser(q, i) ==
    /\ Live(i)
    /\ i # req[q].self
    /\ AdminHandler(q, IF role[i] = "admin" THEN "countDelete" ELSE "writeDelete", i, None)
    /\ UNCHANGED <<userVars, sessionVars, boot>>

\* guardNotLastAdmin: a COUNT of the other admins (ErrLastAdmin is Return).
guardNotLastAdmin(q) ==
    /\ Admins \ {req[q].target} # {}
    /\ \/ At(q, "countRole")   /\ Becomes(q, [req[q] EXCEPT !.pc = "writeRole"])
       \/ At(q, "countDelete") /\ Becomes(q, [req[q] EXCEPT !.pc = "writeDelete"])
    /\ UNCHANGED <<userVars, sessionVars, boot>>

\* Faulty variant: the user read by GetByID is written back whole.
WriteRoleUpsert(q) ==
    /\ At(q, "writeRole")
    /\ role' = [role EXCEPT ![req[q].target] = req[q].want]
    /\ Becomes(q, Idle)
    /\ UNCHANGED <<email, secret, rotate, sessionVars, boot>>

\* UPDATE users SET role ... WHERE id = ?
WriteRole(q) ==
    /\ At(q, "writeRole")
    /\ LET i == req[q].target
       IN  role' = IF Live(i) THEN [role EXCEPT ![i] = req[q].want] ELSE role
    /\ Becomes(q, Idle)
    /\ UNCHANGED <<email, secret, rotate, sessionVars, boot>>

\* Faulty variant: no cascade.
WriteDeleteNoCascade(q) ==
    /\ At(q, "writeDelete")
    /\ role' = [role EXCEPT ![req[q].target] = "deleted"]
    /\ Becomes(q, Idle)
    /\ UNCHANGED <<email, secret, rotate, sessionVars, boot>>

\* DELETE FROM users WHERE id = ?, with ON DELETE CASCADE on sessions.
WriteDelete(q) ==
    /\ At(q, "writeDelete")
    /\ role' = [role EXCEPT ![req[q].target] = "deleted"]
    /\ session' = [t \in Tokens |-> IF owner[t] = req[q].target THEN "gone" ELSE session[t]]
    /\ owner' = [t \in Tokens |-> IF owner[t] = req[q].target THEN None ELSE owner[t]]
    /\ Becomes(q, Idle)
    /\ UNCHANGED <<email, secret, rotate, boot>>

\* ResetUserPassword: GetByID first ...
ResetUserPassword(q, i) ==
    /\ Live(i)
    /\ AdminHandler(q, "reset", i, None)
    /\ UNCHANGED <<userVars, sessionVars, boot>>

\* ... then a generated password, returned once.
WriteReset(q) ==
    /\ At(q, "reset")
    /\ \E s \in {"generated", "unseen"} : SetPassword(req[q].target, s, TRUE)
    /\ Becomes(q, Idle)
    /\ UNCHANGED <<sessionVars, boot>>

\* ChangeOwnPassword: VerifyPassword looks the caller up by email ...
ChangeOwnPassword(q) ==
    /\ At(q, "ready")
    /\ \E i \in Ids :
         /\ Live(i)
         /\ email[i] = email[req[q].self]
         /\ Known(i)
    /\ Becomes(q, [Idle EXCEPT !.pc = "change", !.self = req[q].self])
    /\ UNCHANGED <<userVars, sessionVars, boot>>

\* ... and SetPassword writes by id.  The new password has 12 characters or more;
\* nothing asks that it differ from the current one.
WriteChange(q) ==
    /\ At(q, "change")
    /\ \E s \in {"chosen", "kept"} : SetPassword(req[q].self, s, FALSE)
    /\ Becomes(q, Idle)
    /\ UNCHANGED <<sessionVars, boot>>

-----------------------------------------------------------------------------
Next ==
    \/ BootCheck
    \/ BootCreate
    \/ BootFails
    \/ BootCreds
    \/ Crash
    \/ \E t \in Tokens : Expire(t)
    \/ \E q \in Requests :
         \/ \E i \in Ids :
              \/ Login(q, i)
              \/ \E r \in Roles : UpdateRole(q, i, r)
              \/ DeleteUser(q, i)
              \/ ResetUserPassword(q, i)
         \/ \E t \in Tokens : Authenticate(q, t)
         \/ \E e \in Emails, r \in Roles : CreateUser(q, e, r)
         \/ CreateSession(q)
         \/ Logout(q)
         \/ Return(q)
         \/ guardNotLastAdmin(q)
         \/ WriteRole(q)
         \/ WriteDelete(q)
         \/ WriteReset(q)
         \/ ChangeOwnPassword(q)
         \/ WriteChange(q)

Spec == Init /\ [][Next]_vars

-----------------------------------------------------------------------------
(* Properties. *)

\* "Sessions are removed by the ON DELETE CASCADE foreign key" (UsersRepo.Delete):
\* no token of a deleted user is accepted, not even one whose Login had checked
\* the password before the delete.
NoOrphanSession ==
    \A t \in Tokens : session[t] \in {"live", "expired", "revoked"} => Live(owner[t])

\* Whichever of reset and change wrote last, hash and flag are of the same write:
\* the flag is down only over a password the account's own user set.  (FEATURES.md
\* says that a new user chooses a new one; nothing asks that it differ from the
\* generated one, so a password that was "kept" counts as set.)
FlagFollowsWriter ==
    \A i \in Ids : Live(i) => (rotate[i] <=> secret[i] \notin {"chosen", "kept"})

\* A deleted account does not come back under a request that had read it while
\* it existed, and a dead session does not either.
DeadStaysDead ==
    [][/\ \A i \in Ids : role[i] = "deleted" => role'[i] = "deleted"
       /\ \A t \in Tokens : session[t] \in {"revoked", "gone"} =>
            session'[t] \in {"revoked", "gone"}]_vars

\* UpdateRole rejects demoting the last admin "so user management can never be
\* locked out"; Delete does the same.
AdminRemains ==
    boot = "up" => Admins # {}
=============================================================================
