----------------------------- MODULE StatementGate -----------------------------
(***************************************************************************)
(* The way of a write to the target database: Manager.Execute for the SQL  *)
(* editor, ExecuteBatch for the data grid and TerminateBackendHandler for  *)
(* the lock view, each with the tag policy in front of it, the audit entry *)
(* behind it, and the web client that sends the request again when it is   *)
(* told to confirm or to give a passphrase.                                *)
(*                                                                         *)
(* A request has two halves that can part: the goroutine of the handler,   *)
(* whose context ends after 30 s or when the client goes, and the backend  *)
(* session of PostgreSQL, which may go on (and commit) without it.  One    *)
(* connection is modelled; requests meet in its row and its cached pool.   *)
(***************************************************************************)
EXTENDS Naturals, Sequences

CONSTANTS
    Requests,   \* requests, each with the client that sent it
    Edits       \* the batches of statements BuildMutations may return

\* What the lexical check tells apart; "other" is anything it does not know, and
\* "danger" an UPDATE or DELETE it sees no WHERE in.
Statement == {"read", "other", "dml", "danger", "ddl"}

\* BuildMutations writes UPDATE, DELETE and INSERT only, but a value that holds
\* "--" hides the WHERE behind it from IsDangerous.
ASSUME EditsAssumption == Edits \subseteq Seq({"dml", "danger"}) \ {<<>>}

Classify(s)    == IF s = "danger" THEN "dml" ELSE s
IsDangerous(s) == s = "danger"
Writes(s)      == Classify(s) \in {"dml", "ddl"}

Tags == {"local", "dev", "staging", "production"}

\* The gating half of policy.Policy; each of the four tags allows DML.
PolicyFor(t) ==
    [ DMLRequiresConfirm       |-> t \in {"staging", "production"},
      DDLAllowed               |-> t # "production",
      DDLRequiresConfirm       |-> t = "staging",
      DangerousAllowed         |-> t # "production",
      DangerousRequiresConfirm |-> t = "staging" ]

\* Faulty variant: a confirmation is asked for before the bans are looked at.
ConfirmFirst(p, s) ==
    IF \/ IsDangerous(s) /\ p.DangerousRequiresConfirm
       \/ Classify(s) = "ddl" /\ p.DDLRequiresConfirm
       \/ Classify(s) = "dml" /\ p.DMLRequiresConfirm
    THEN "confirm"
    ELSE IF \/ IsDangerous(s) /\ ~p.DangerousAllowed
            \/ Classify(s) = "ddl" /\ ~p.DDLAllowed
         THEN "blocked" ELSE "allowed"

decidePolicy(p, s) ==
    IF \/ IsDangerous(s) /\ ~p.DangerousAllowed
       \/ Classify(s) = "ddl" /\ ~p.DDLAllowed
    THEN "blocked"
    ELSE IF \/ IsDangerous(s) /\ p.DangerousRequiresConfirm
            \/ Classify(s) = "ddl" /\ p.DDLRequiresConfirm
            \/ Classify(s) = "dml" /\ p.DMLRequiresConfirm
         THEN "confirm" ELSE "allowed"

\* A request as the handler reads it: the statements, the X-Confirm and the
\* X-Connection-Passphrase header, and the caller's role.
Job == [ kind       : {"query", "mutate", "terminate"},
         stmts      : Seq(Statement),
         confirm    : BOOLEAN,
         passphrase : BOOLEAN,
         readOnly   : BOOLEAN ]

\* The grid never sends the headers with its first request and is for writers
\* only; the lock view sends no passphrase; pg_terminate_backend is a SELECT.
Queries   == [ kind : {"query"}, stmts : {<<s>> : s \in Statement}, confirm : BOOLEAN,
               passphrase : BOOLEAN, readOnly : BOOLEAN ]
Mutations == [ kind : {"mutate"}, stmts : Edits, confirm : {FALSE},
               passphrase : {FALSE}, readOnly : {FALSE} ]
Kills     == [ kind : {"terminate"}, stmts : {<<"read">>}, confirm : BOOLEAN,
               passphrase : {FALSE}, readOnly : BOOLEAN ]
Jobs      == Queries \cup Mutations \cup Kills

VARIABLES
    tag,        \* the connection's tag,
    locked,     \* whether it has a passphrase,
    row,        \* whether its row is still there,
    pool,       \* and whether its pool is cached
    pc,         \* where each request's goroutine is; then, what its client does
    job,        \* what the client sent
    over,       \* whether the request's context has ended
    answer,     \* what the client was, or is to be, told
    entry,      \* what became of the request's audit entry
    session,    \* the backend that runs the statements
    ran,        \* how many of them it has run in its transaction
    effects     \* how many statements took effect, over all attempts

connVars   == <<tag, locked, row, pool>>
serverVars == <<session, ran, effects>>
vars       == <<connVars, job, serverVars, pc, over, answer, entry>>

Place   == {"idle", "shape", "gate", "refuse", "open", "run", "drain", "audit",
            "answered", "gaveup", "dead"}
Handled == {"shape", "gate", "refuse", "open", "run", "drain", "audit"}
Answer  == {"none", "ok", "cut", "failed", "blocked", "confirm", "passphrase", "error"}
Entry   == {"none", "execute", "failed", "blocked", "late", "refused"}
Session == {"idle", "busy", "tx", "commit", "done", "undone"}

TypeOK ==
    /\ tag \in Tags /\ locked \in BOOLEAN /\ row \in BOOLEAN /\ pool \in BOOLEAN
    /\ pc \in [Requests -> Place]
    /\ job \in [Requests -> Job]
    /\ over \in [Requests -> BOOLEAN]
    /\ answer \in [Requests -> Answer]
    /\ entry \in [Requests -> Entry]
    /\ session \in [Requests -> Session]
    /\ ran \in [Requests -> Nat]
    /\ effects \in [Requests -> Nat]

NoJob == [kind |-> "query", stmts |-> <<>>, confirm |-> FALSE, passphrase |-> FALSE, readOnly |-> FALSE]

Init ==
    /\ tag \in Tags /\ locked \in BOOLEAN /\ row = TRUE /\ pool = FALSE
    /\ pc = [q \in Requests |-> "idle"]
    /\ job = [q \in Requests |-> NoJob]
    /\ over = [q \in Requests |-> FALSE]
    /\ answer = [q \in Requests |-> "none"]
    /\ entry = [q \in Requests |-> "none"]
    /\ session = [q \in Requests |-> "idle"]
    /\ ran = [q \in Requests |-> 0]
    /\ effects = [q \in Requests |-> 0]

Goto(q, from, to) == pc[q] = from /\ pc' = [pc EXCEPT ![q] = to]

\* The handler returns without an audit entry.
Reply(q, from, a) ==
    /\ Goto(q, from, "answered")
    /\ answer' = [answer EXCEPT ![q] = a]
    /\ UNCHANGED <<connVars, job, serverVars, over, entry>>

(***************************************************************************)
(* Requests arrive, and their contexts end.                                *)
(***************************************************************************)

Entrance(k) == IF k = "mutate" THEN "shape" ELSE "gate"

Arrive(q) ==
    /\ \E j \in Jobs : /\ job' = [job EXCEPT ![q] = j]
                       /\ Goto(q, "idle", Entrance(j.kind))
    /\ UNCHANGED <<connVars, serverVars, over, answer, entry>>

\* chi's Timeout(30 s), or the client went away.
ContextEnds(q) ==
    /\ pc[q] \in Handled /\ ~over[q]
    /\ over' = [over EXCEPT ![q] = TRUE]
    /\ UNCHANGED <<connVars, job, serverVars, pc, answer, entry>>

(***************************************************************************)
(* OpenByID: a cached pool is returned whatever passphrase was sent.       *)
(***************************************************************************)

Reveals(q) == row /\ ~over[q] /\ (~locked \/ job[q].passphrase)
AsksFor(q) == row /\ ~over[q] /\ ~pool /\ locked /\ ~job[q].passphrase

OpenFails(q, from) == \/ AsksFor(q) /\ Reply(q, from, "passphrase")
                      \/ Reply(q, from, "error")

\* MutateTableHandler opens the pool to read the table's shape and to build the
\* statements; a failure of any of these is only answered.
Shape(q) ==
    /\ ~over[q] /\ (pool \/ Reveals(q))
    /\ Goto(q, "shape", "gate")
    /\ pool' = TRUE
    /\ UNCHANGED <<tag, locked, row, job, serverVars, over, answer, entry>>

ShapeFails(q) == OpenFails(q, "shape")

Stmts(q) == {job[q].stmts[i] : i \in 1..Len(job[q].stmts)}

\* Read-only callers, then decidePolicy of every statement.
Blocked(q) ==
    \E s \in Stmts(q) : \/ job[q].readOnly /\ Writes(s)
                        \/ decidePolicy(PolicyFor(tag), s) = "blocked"

NeedsConfirm(q) ==
    /\ ~job[q].confirm
    /\ \E s \in Stmts(q) : decidePolicy(PolicyFor(tag), s) = "confirm"

GateBlocks(q) ==
    /\ row /\ ~over[q]
    /\ job[q].kind # "terminate"
    /\ Blocked(q)
    /\ Goto(q, "gate", "refuse")
    /\ UNCHANGED <<connVars, job, serverVars, over, answer, entry>>

GateAsks(q) ==
    /\ row /\ ~over[q]
    /\ IF job[q].kind = "terminate"
       THEN PolicyFor(tag).DangerousRequiresConfirm /\ ~job[q].confirm
       ELSE ~Blocked(q) /\ NeedsConfirm(q)
    /\ Reply(q, "gate", "confirm")

GatePasses(q) ==
    /\ row /\ ~over[q]
    /\ IF job[q].kind = "terminate"
       THEN PolicyFor(tag).DangerousRequiresConfirm => job[q].confirm
       ELSE ~Blocked(q) /\ ~NeedsConfirm(q)
    /\ Goto(q, "gate", "open")
    /\ UNCHANGED <<connVars, job, serverVars, over, answer, entry>>

\* repo.Get: the row is gone, or the context has ended.
GateFails(q) == (~row \/ over[q]) /\ Reply(q, "gate", "error")

Open(q) ==
    /\ pool \/ Reveals(q)
    /\ Goto(q, "open", "run")
    /\ pool' = TRUE
    /\ UNCHANGED <<tag, locked, row, job, serverVars, over, answer, entry>>

OpenRefused(q) == OpenFails(q, "open")

(***************************************************************************)
(* The statements, on the server.                                          *)
(***************************************************************************)

Serve(q, from, to) == session[q] = from /\ session' = [session EXCEPT ![q] = to]

\* pool.Query sends the statement, pool.Begin opens the transaction; until then
\* the goroutine waits for one of the pool's connections.
Start(q) ==
    /\ pc[q] = "run" /\ ~over[q] /\ pool
    /\ Serve(q, "idle", IF job[q].kind = "mutate" THEN "tx" ELSE "busy")
    /\ ran' = [ran EXCEPT ![q] = 0]
    /\ UNCHANGED <<connVars, job, effects, pc, over, answer, entry>>

\* An autocommitted statement ends, whether or not anybody waits for it.
StatementTakesEffect(q) ==
    /\ Serve(q, "busy", "done")
    /\ effects' = [effects EXCEPT ![q] = @ + 1]
    /\ UNCHANGED <<connVars, job, ran, pc, over, answer, entry>>

\* Faulty variant: every statement of the batch commits by itself.
TxExecAlone(q) ==
    /\ pc[q] = "run" /\ session[q] = "tx"
    /\ ran[q] < Len(job[q].stmts)
    /\ ran' = [ran EXCEPT ![q] = @ + 1]
    /\ effects' = [effects EXCEPT ![q] = @ + 1]
    /\ UNCHANGED <<connVars, job, session, pc, over, answer, entry>>

\* The next statement of the batch, in the transaction.
TxExec(q) ==
    /\ pc[q] = "run" /\ session[q] = "tx"
    /\ ran[q] < Len(job[q].stmts)
    /\ ran' = [ran EXCEPT ![q] = @ + 1]
    /\ UNCHANGED <<connVars, job, session, effects, pc, over, answer, entry>>

SendCommit(q) ==
    /\ pc[q] = "run"
    /\ ran[q] = Len(job[q].stmts)
    /\ Serve(q, "tx", "commit")
    /\ UNCHANGED <<connVars, job, ran, effects, pc, over, answer, entry>>

CommitTakesEffect(q) ==
    /\ Serve(q, "commit", "done")
    /\ effects' = [effects EXCEPT ![q] = @ + ran[q]]
    /\ UNCHANGED <<connVars, job, ran, pc, over, answer, entry>>

\* An error, a cancel, a deadlock, a rollback, or the end of the client's
\* connection undoes what is not committed.
ServerUndoes(q) ==
    /\ session[q] \in {"busy", "tx", "commit"}
    /\ session' = [session EXCEPT ![q] = "undone"]
    /\ UNCHANGED <<connVars, job, ran, effects, pc, over, answer, entry>>

(***************************************************************************)
(* The result, back in the goroutine.                                      *)
(***************************************************************************)

ToAudit(q, from, a) ==
    /\ Goto(q, from, "audit")
    /\ answer' = [answer EXCEPT ![q] = a]
    /\ UNCHANGED <<connVars, job, serverVars, over, entry>>

\* Faulty variant: the error of Commit is dropped.
ReturnsUnchecked(q) ==
    /\ session[q] \in {"done", "undone"}
    /\ ToAudit(q, "run", "ok")

Returns(q) ==
    /\ session[q] = "done"
    /\ ToAudit(q, "run", "ok")

ReturnsError(q) ==
    /\ session[q] = "undone"
    /\ ToAudit(q, "run", "failed")


\* Faulty variant: the error is returned before the audit entry is written.
GivesUpUnaudited(q) == Reply(q, "run", "failed")

\* The context or the tag's statement timeout ends, or the connection to the
\* server is lost; the backend goes its own way.
GivesUp(q) == ToAudit(q, "run", "failed")

\* The row cap: the rest of the rows is read only by the deferred rows.Close,
\* and nobody looks at the error it may end with.
Truncates(q) ==
    /\ job[q].kind = "query" /\ session[q] \in {"busy", "done"}
    /\ Goto(q, "run", "drain")
    /\ UNCHANGED <<connVars, job, serverVars, over, answer, entry>>

Drained(q) == ToAudit(q, "drain", "cut")

(***************************************************************************)
(* The audit entry, under the request's own context.                       *)
(***************************************************************************)

\* Append fails when the context has ended, and may fail on a busy database;
\* its error is dropped.
Record(q, from, action) ==
    /\ Goto(q, from, "answered")
    /\ \E e \in IF over[q] THEN {"late"} ELSE {action, "refused"} :
          entry' = [entry EXCEPT ![q] = e]
    /\ UNCHANGED <<connVars, job, serverVars, over>>

Refuse(q) ==
    /\ Record(q, "refuse", "blocked")
    /\ answer' = [answer EXCEPT ![q] = "blocked"]

\* Faulty variant: the error does not change the action.
AuditAsExecuted(q) ==
    /\ Record(q, "audit", "execute")
    /\ UNCHANGED answer

Audit(q) ==
    /\ Record(q, "audit", IF answer[q] = "failed" THEN "failed" ELSE "execute")
    /\ UNCHANGED answer

(***************************************************************************)
(* The web client.                                                         *)
(***************************************************************************)

\* respondExecuteError and respondPoolOpenError.
Status(a) == CASE a \in {"ok", "cut"}             -> 200
               [] a = "blocked"                   -> 403
               [] a \in {"confirm", "passphrase"} -> 428
               [] OTHER                           -> 502

\* The request again, with one more header.
SendsWith(q, header) ==
    /\ ~job[q][header]
    /\ job' = [job EXCEPT ![q][header] = TRUE]
    /\ Goto(q, "answered", Entrance(job[q].kind))
    /\ over' = [over EXCEPT ![q] = FALSE]
    /\ answer' = [answer EXCEPT ![q] = "none"]
    /\ UNCHANGED <<connVars, serverVars, entry>>

\* Faulty variant: an error is answered like a question.
QueryRetries(q) ==
    /\ job[q].kind = "query" /\ Status(answer[q]) \in {428, 502}
    /\ \E header \in {"confirm", "passphrase"} : SendsWith(q, header)

\* QueryPage tells the two questions apart by their text: the user ticks the
\* box or types the passphrase, and runs the statement again.
QueryAgain(q) ==
    /\ job[q].kind = "query" /\ Status(answer[q]) = 428
    /\ SendsWith(q, answer[q])

\* DataPage.onSubmit tells them apart by the status.
GridStatus == [confirm |-> 412, passphrase |-> 428]
GridAsks(q, header) == Status(answer[q]) = GridStatus[header] /\ ~job[q][header]

GridAgain(q) ==
    /\ job[q].kind = "mutate"
    /\ \E header \in {"confirm", "passphrase"} :
          GridAsks(q, header) /\ SendsWith(q, header)

\* "Write failed", after an error or a question the loop does not ask.
GridFails(q) ==
    /\ job[q].kind = "mutate" /\ Status(answer[q]) # 200
    /\ \A header \in {"confirm", "passphrase"} : ~GridAsks(q, header)
    /\ Goto(q, "answered", "gaveup")
    /\ UNCHANGED <<connVars, job, serverVars, over, answer, entry>>

(***************************************************************************)
(* The rest of the system.                                                 *)
(***************************************************************************)

\* DELETE /api/connections/{id}: the row goes, then CloseConn drops the pool,
\* once no statement runs in it any more.
DeleteConnection ==
    /\ row /\ row' = FALSE
    /\ UNCHANGED <<tag, locked, pool, job, serverVars, pc, over, answer, entry>>

CloseConn ==
    /\ ~row /\ pool /\ pool' = FALSE
    /\ \A q \in Requests : pc[q] \notin {"run", "drain"} \/ session[q] = "idle"
    /\ UNCHANGED <<tag, locked, row, job, serverVars, pc, over, answer, entry>>

\* Any other caller of OpenByID: a collector, a read of the schema, ...
OthersOpen ==
    /\ row /\ ~pool /\ pool' = TRUE
    /\ UNCHANGED <<tag, locked, row, job, serverVars, pc, over, answer, entry>>

\* The process ends; the sessions it had open do not know yet.
Crash ==
    /\ \E q \in Requests : pc[q] \in Handled
    /\ pc' = [q \in Requests |-> IF pc[q] \in Handled THEN "dead" ELSE pc[q]]
    /\ pool' = FALSE
    /\ UNCHANGED <<tag, locked, row, job, serverVars, over, answer, entry>>

\* What the handler's goroutine does by itself.
Handle(q) ==
    \/ Shape(q) \/ ShapeFails(q)
    \/ GateBlocks(q) \/ GateAsks(q) \/ GatePasses(q) \/ GateFails(q) \/ Refuse(q)
    \/ Open(q) \/ OpenRefused(q)
    \/ SendCommit(q) \/ Returns(q) \/ ReturnsError(q)
    \/ Audit(q)

\* What the server has a part in, and what ends a wait for it.
Backend(q) == \/ Start(q) \/ TxExec(q) \/ Truncates(q)
              \/ StatementTakesEffect(q) \/ CommitTakesEffect(q) \/ ServerUndoes(q)
Leave(q)   == GivesUp(q) \/ Drained(q)
Client(q)  == Arrive(q) \/ QueryAgain(q) \/ GridAgain(q) \/ GridFails(q)

Next ==
    \/ \E q \in Requests :
          Client(q) \/ ContextEnds(q) \/ Handle(q) \/ Backend(q) \/ Leave(q)
    \/ DeleteConnection \/ CloseConn \/ OthersOpen \/ Crash

Spec == Init /\ [][Next]_vars

(***************************************************************************)
(* What must hold.                                                         *)
(***************************************************************************)

\* Nothing reaches a backend unless the caller's role and the connection's tag
\* allow every statement of the request, and the client confirmed where
\* policy.PolicyFor asks for it, as SECURITY.md, 5, has it.  (Two other texts say
\* more than the code does.  TerminateBackendHandler: X-Confirm on production, too,
\* but PolicyFor sets DangerousRequiresConfirm for staging only.  README.md, "Tags
\* and policies": staging blocks a DELETE or UPDATE without a WHERE, but a
\* confirmation lets it through.)
Allows(t, j) ==
    IF j.kind = "terminate" THEN t = "staging" => j.confirm
    ELSE \A i \in 1..Len(j.stmts) : LET s == j.stmts[i] IN
            /\ j.readOnly => s \in {"read", "other"}
            /\ t = "production" => s \notin {"ddl", "danger"}
            /\ s \in {"dml", "danger"} /\ t \in {"staging", "production"} => j.confirm
            /\ s = "ddl" /\ t = "staging" => j.confirm

Permitted(j) == Allows(tag, j)

NothingPastTheGate == \A q \in Requests : session[q] # "idle" => Permitted(job[q])

All(q) == Len(job[q].stmts)

\* A batch takes effect as a whole or not at all, and once, whatever is lost,
\* cancelled, restarted or sent again.  (ExecuteTx: "all-or-nothing".)
AllOrNothing == \A q \in Requests : effects[q] \in {0, All(q)}

\* What the client is told is what happened: after "ok" everything took effect,
\* and a refusal or a question means that nothing ever did, nor will.
AnswersAreTrue ==
    \A q \in Requests :
        /\ answer[q] = "ok" => effects[q] = All(q)
        /\ answer[q] \in {"blocked", "confirm", "passphrase"} => session[q] = "idle"

\* So is what the log says: query.execute and table.rows.mutate name statements
\* that took effect, unless the rows were cut off at the cap, and query.blocked
\* and table.rows.blocked statements that never ran.
EntriesAreTrue ==
    \A q \in Requests :
        /\ entry[q] = "execute" /\ answer[q] # "cut" => effects[q] = All(q)
        /\ entry[q] = "blocked" => session[q] = "idle"

\* Once its handler is through, a statement that reached a backend is in the
\* log, unless the request's context had ended or the log refused the entry.
RunsAreAudited ==
    \A q \in Requests :
        session[q] # "idle" /\ pc[q] \in {"answered", "gaveup"} =>
            \/ entry[q] \in {"execute", "failed", "refused"}
            \/ entry[q] = "late" /\ over[q]

\* The gate implements GatedWrite: a request that has been sent to a backend is
\* never sent again, nor changed, nor refused, and what its client has been told
\* stands.  (web: only the two questions of a 428 are answered by a new request.)
Size(j) == Len(j.stmts)

FateOf(s) == CASE s = "idle"                     -> "none"
               [] s \in {"busy", "tx", "commit"} -> "running"
               [] s = "done"                     -> "applied"
               [] OTHER                          -> "undone"

WordOf(p, a) ==
    IF p = "idle" THEN "unsent"
    ELSE CASE a = "none"              -> "pending"
           [] a = "ok"                -> "done"
           [] a \in {"cut", "failed"} -> "unknown"
           [] OTHER                   -> "refused"

Fate == [q \in Requests |-> FateOf(session[q])]
Word == [q \in Requests |-> WordOf(pc[q], answer[q])]

Gated == INSTANCE GatedWrite WITH Rules <- Tags, rules <- tag, fate <- Fate, word <- Word
GatesWrites == Gated!Spec

\* q opens the pool, or waits for the one who does.  An SSH bastion that takes the
\* TCP connection and then says nothing holds it here: ssh.NewClientConn has no
\* context and no timeout, and that the request's context ends does not end it.
Dials(q) == pc[q] \in {"shape", "open"} /\ ~pool /\ ~AsksFor(q)

\* The goroutines run, contexts end, and a wait that a context ended is over; that
\* a dial ends is nobody's to promise.
Fairness ==
    \A q \in Requests :
        /\ WF_vars(~Dials(q) /\ Handle(q))
        /\ WF_vars(ContextEnds(q))
        /\ WF_vars(over[q] /\ Leave(q))
FairSpec == Spec /\ Fairness

=============================================================================
