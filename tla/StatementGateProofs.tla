-------------------------- MODULE StatementGateProofs --------------------------
(***************************************************************************)
(* Theorems of StatementGate, for any set of requests and of batches.      *)
(*                                                                         *)
(* The argument relates the two halves of a request: where its goroutine   *)
(* is bounds what its backend session can have done, and a session that    *)
(* has left "idle" never returns to it.                                    *)
(***************************************************************************)
EXTENDS StatementGate, TLAPS

\* No statement has been sent yet, or none ever will be.
Unsent(q) == \/ pc[q] \in {"idle", "shape", "gate", "refuse", "open"}
             \/ answer[q] \in {"blocked", "confirm", "passphrase"}

\* The job is fixed, and has been through the gate.
Passed(q) == pc[q] \in {"open", "run", "drain", "audit"} \/ session[q] # "idle"

SessionInv(q) ==
    /\ Unsent(q) => session[q] = "idle"
    /\ Passed(q) => Permitted(job[q])
    /\ effects[q] = IF session[q] = "done" THEN All(q) ELSE 0
    /\ pc[q] # "idle" /\ job[q].kind # "mutate" => All(q) = 1
    /\ session[q] = "busy" => All(q) = 1
    /\ session[q] = "tx" => ran[q] <= All(q)
    /\ session[q] = "commit" => ran[q] = All(q)

AnswerInv(q) ==
    /\ answer[q] = "ok" => session[q] = "done"
    /\ pc[q] \in (Handled \ {"audit"}) \cup {"idle"} => answer[q] = "none"
    /\ pc[q] = "audit" => answer[q] \in {"ok", "cut", "failed"}
    /\ entry[q] # "none" => pc[q] \in {"answered", "gaveup"} /\ answer[q] \notin {"none", "confirm", "passphrase"}
    /\ entry[q] = "execute" => answer[q] \in {"ok", "cut"}
    /\ entry[q] = "blocked" => answer[q] = "blocked"
    /\ session[q] # "idle" /\ pc[q] \in {"answered", "gaveup"} =>
            \/ entry[q] \in {"execute", "failed", "refused"}
            \/ entry[q] = "late" /\ over[q]

ReqInv(q) == SessionInv(q) /\ AnswerInv(q)

IInv == TypeOK /\ \A q \in Requests : ReqInv(q)

--------------------------------------------------------------------------------
\* The jobs that the clients send are jobs.
LEMMA JobsAreJobs ==
    ASSUME NEW j \in Jobs
    PROVE  /\ j \in Job
           /\ j.kind # "mutate" => Len(j.stmts) = 1
<1>1. CASE j \in Queries
  <2>1. PICK s \in Statement : j.stmts = <<s>>
    BY <1>1 DEF Queries
  <2>2. <<s>> \in Seq(Statement) /\ Len(<<s>>) = 1
    OBVIOUS
  <2>3. j \in [kind : {"query"}, stmts : Seq(Statement), confirm : BOOLEAN,
               passphrase : BOOLEAN, readOnly : BOOLEAN]
    BY <1>1, <2>1, <2>2 DEF Queries
  <2> QED BY <2>1, <2>2, <2>3 DEF Job
<1>2. CASE j \in Mutations
  <2>1. j.stmts \in Seq({"dml", "danger"})
    BY <1>2, EditsAssumption DEF Mutations
  <2>2. j.stmts \in Seq(Statement)
    BY <2>1 DEF Statement
  <2> QED BY <1>2, <2>2 DEF Mutations, Job
<1>3. CASE j \in Kills
  <2>1. <<"read">> \in Seq(Statement) /\ Len(<<"read">>) = 1
    BY DEF Statement
  <2> QED BY <1>3, <2>1 DEF Kills, Job
<1> QED BY <1>1, <1>2, <1>3 DEF Jobs

\* The gate lets pass what the rules of the tag permit.
LEMMA GateIsSound ==
    ASSUME TypeOK, NEW q \in Requests, GatePasses(q)
    PROVE  Permitted(job[q])
<1> DEFINE j == job[q]
<1>1. j \in Job
  BY DEF TypeOK
<1>2. CASE j.kind = "terminate"
  BY <1>2 DEF GatePasses, Permitted, Allows, PolicyFor
<1>3. CASE j.kind # "terminate"
  <2> SUFFICES ASSUME NEW i \in 1..Len(j.stmts)
               PROVE  LET s == j.stmts[i] IN
                        /\ j.readOnly => s \in {"read", "other"}
                        /\ tag = "production" => s \notin {"ddl", "danger"}
                        /\ s \in {"dml", "danger"} /\ tag \in {"staging", "production"} => j.confirm
                        /\ s = "ddl" /\ tag = "staging" => j.confirm
    BY <1>3 DEF Permitted, Allows
  <2> DEFINE s == j.stmts[i]
  <2>1. s \in Statement /\ s \in Stmts(q)
    BY <1>1 DEF Job, Stmts
  <2>2. ~Blocked(q) /\ ~NeedsConfirm(q)
    BY <1>3 DEF GatePasses
  <2>3. ~(j.readOnly /\ Writes(s)) /\ decidePolicy(PolicyFor(tag), s) # "blocked"
    BY <2>1, <2>2 DEF Blocked
  <2>4. j.confirm \/ decidePolicy(PolicyFor(tag), s) # "confirm"
    BY <2>1, <2>2, <1>1 DEF NeedsConfirm, Job
  <2> HIDE DEF s
  <2>5. j.readOnly => s \in {"read", "other"}
    BY <2>1, <2>3 DEF Writes, Classify, Statement
  <2>6. tag = "production" => s \notin {"ddl", "danger"}
    BY <2>1, <2>3 DEF decidePolicy, PolicyFor, Classify, IsDangerous, Statement
  <2>7. s \in {"dml", "danger"} /\ tag \in {"staging", "production"} => j.confirm
    BY <2>1, <2>3, <2>4 DEF decidePolicy, PolicyFor, Classify, IsDangerous, Statement
  <2>8. s = "ddl" /\ tag = "staging" => j.confirm
    BY <2>1, <2>3, <2>4 DEF decidePolicy, PolicyFor, Classify, IsDangerous, Statement
  <2> QED BY <2>5, <2>6, <2>7, <2>8 DEF s
<1> QED BY <1>2, <1>3

\* A request that a step leaves alone keeps its invariant.
LEMMA OthersKeep ==
    ASSUME NEW p \in Requests, ReqInv(p), tag' = tag,
           pc'[p] = pc[p], job'[p] = job[p], over'[p] = over[p], answer'[p] = answer[p],
           entry'[p] = entry[p], session'[p] = session[p], ran'[p] = ran[p],
           effects'[p] = effects[p]
    PROVE  ReqInv(p)'
  BY DEF ReqInv, SessionInv, AnswerInv, Handled, Unsent, Passed, Permitted, All

--------------------------------------------------------------------------------
\* Type correctness, one group of actions at a time.

LEMMA SendTypes ==
    ASSUME TypeOK, NEW q \in Requests, NEW h \in {"confirm", "passphrase"}, SendsWith(q, h)
    PROVE  TypeOK'
<1>1. job[q] \in Job
  BY DEF TypeOK
<1>2. job' = [job EXCEPT ![q] = [job[q] EXCEPT ![h] = TRUE]]
  BY DEF SendsWith
<1>3. [job[q] EXCEPT ![h] = TRUE] \in Job
  BY <1>1 DEF Job
<1>4. job' \in [Requests -> Job]
  BY <1>2, <1>3 DEF TypeOK
<1>5. Entrance(job[q].kind) \in Place
  BY DEF Entrance, Place
<1> QED
  BY <1>4, <1>5 DEF TypeOK, SendsWith, Goto, connVars, serverVars, Answer

LEMMA TypeStep ==
    ASSUME TypeOK, [Next]_vars
    PROVE  TypeOK'
<1> USE DEF connVars, serverVars
<1>1. ASSUME NEW q \in Requests, Client(q) PROVE TypeOK'
  <2>1. CASE Arrive(q)
    <3>1. PICK j \in Jobs : job' = [job EXCEPT ![q] = j] /\ Goto(q, "idle", Entrance(j.kind))
      BY <2>1 DEF Arrive
    <3>2. job' \in [Requests -> Job] /\ pc' \in [Requests -> Place]
      BY <3>1, JobsAreJobs DEF TypeOK, Goto, Entrance, Place
    <3> QED BY <2>1, <3>2 DEF Arrive, TypeOK
  <2>2. CASE QueryAgain(q)
    <3>1. answer[q] \in {"confirm", "passphrase"}
      BY <2>2 DEF QueryAgain, Status
    <3> QED BY <2>2, <3>1, SendTypes DEF QueryAgain
  <2>3. CASE GridAgain(q)
    BY <2>3, SendTypes DEF GridAgain
  <2>4. CASE GridFails(q)
    BY <2>4 DEF GridFails, Goto, TypeOK, Place
  <2> QED BY <1>1, <2>1, <2>2, <2>3, <2>4 DEF Client
<1>2. ASSUME NEW q \in Requests, Handle(q) PROVE TypeOK'
  <2>1. CASE ShapeFails(q) \/ OpenRefused(q)
    BY <2>1 DEF ShapeFails, OpenRefused, OpenFails, Reply, Goto, TypeOK, Place, Answer
  <2>2. CASE GateAsks(q) \/ GateFails(q)
    BY <2>2 DEF GateAsks, GateFails, Reply, Goto, TypeOK, Place, Answer
  <2>3. CASE Shape(q) \/ GateBlocks(q) \/ GatePasses(q) \/ Open(q)
    BY <2>3 DEF Shape, GateBlocks, GatePasses, Open, Goto, TypeOK, Place
  <2>4. CASE Refuse(q)
    BY <2>4 DEF Refuse, Record, Goto, TypeOK, Place, Answer, Entry
  <2>5. CASE SendCommit(q)
    BY <2>5 DEF SendCommit, Serve, TypeOK, Session
  <2>6. CASE Returns(q) \/ ReturnsError(q)
    BY <2>6 DEF Returns, ReturnsError, ToAudit, Goto, TypeOK, Place, Answer
  <2>7. CASE Audit(q)
    BY <2>7 DEF Audit, Record, Goto, TypeOK, Place, Entry
  <2> QED BY <1>2, <2>1, <2>2, <2>3, <2>4, <2>5, <2>6, <2>7 DEF Handle
<1>3. ASSUME NEW q \in Requests, Backend(q) PROVE TypeOK'
  <2>1. CASE Start(q)
    <3>1. (IF job[q].kind = "mutate" THEN "tx" ELSE "busy") \in Session
      BY DEF Session
    <3> QED BY <2>1, <3>1 DEF Start, Serve, TypeOK
  <2>4. CASE TxExec(q)
    BY <2>4 DEF TxExec, TypeOK
  <2>2. CASE Truncates(q)
    BY <2>2 DEF Truncates, Goto, TypeOK, Place
  <2>3. CASE StatementTakesEffect(q) \/ CommitTakesEffect(q) \/ ServerUndoes(q)
    BY <2>3 DEF StatementTakesEffect, CommitTakesEffect, ServerUndoes, Serve, TypeOK, Session
  <2> QED BY <1>3, <2>1, <2>2, <2>3, <2>4 DEF Backend
<1>4. ASSUME NEW q \in Requests, Leave(q) PROVE TypeOK'
  BY <1>4 DEF Leave, GivesUp, Drained, ToAudit, Goto, TypeOK, Place, Answer
<1>5. ASSUME NEW q \in Requests, ContextEnds(q) PROVE TypeOK'
  BY <1>5 DEF ContextEnds, TypeOK
<1>6. CASE DeleteConnection \/ CloseConn \/ OthersOpen
  BY <1>6 DEF DeleteConnection, CloseConn, OthersOpen, TypeOK
<1>7. CASE Crash
  BY <1>7 DEF Crash, TypeOK, Place
<1>8. CASE UNCHANGED vars
  BY <1>8 DEF vars, TypeOK
<1> QED
  BY <1>1, <1>2, <1>3, <1>4, <1>5, <1>6, <1>7, <1>8 DEF Next

--------------------------------------------------------------------------------
\* The request that steps keeps its invariant, one group of actions at a time.

LEMMA SendKeeps ==
    ASSUME TypeOK, NEW q \in Requests, ReqInv(q), NEW h \in {"confirm", "passphrase"},
           answer[q] \in {"confirm", "passphrase"}, SendsWith(q, h)
    PROVE  ReqInv(q)'
<1>1. job[q] \in Job /\ job' = [job EXCEPT ![q] = [job[q] EXCEPT ![h] = TRUE]]
  BY DEF TypeOK, SendsWith
<1>2. job'[q].kind = job[q].kind /\ job'[q].stmts = job[q].stmts
  BY <1>1 DEF Job, TypeOK
<1>3. session[q] = "idle" /\ entry[q] = "none"
  BY DEF ReqInv, SessionInv, AnswerInv, Handled, Unsent
<1>4. /\ pc[q] = "answered" /\ pc'[q] \in {"shape", "gate"} /\ answer'[q] = "none"
      /\ session'[q] = "idle" /\ entry'[q] = "none" /\ effects'[q] = effects[q]
  BY <1>3 DEF SendsWith, Goto, Entrance, serverVars, TypeOK
<1> QED
  BY <1>2, <1>3, <1>4 DEF ReqInv, SessionInv, AnswerInv, Handled, Unsent, Passed, All

LEMMA ClientKeeps ==
    ASSUME TypeOK, NEW q \in Requests, ReqInv(q), Client(q)
    PROVE  ReqInv(q)'
<1>1. CASE Arrive(q)
  <2>1. PICK j \in Jobs : job' = [job EXCEPT ![q] = j] /\ Goto(q, "idle", Entrance(j.kind))
    BY <1>1 DEF Arrive
  <2>2. job'[q] = j /\ (j.kind # "mutate" => Len(j.stmts) = 1)
    BY <2>1, JobsAreJobs DEF TypeOK
  <2>3. pc[q] = "idle" /\ pc'[q] \in {"shape", "gate"} /\ session[q] = "idle"
    BY <2>1 DEF Goto, Entrance, TypeOK, ReqInv, SessionInv, Unsent
  <2> QED
    BY <1>1, <2>2, <2>3 DEF Arrive, serverVars, ReqInv, SessionInv, AnswerInv, Handled, Unsent, Passed, All
<1>2. CASE QueryAgain(q)
  <2>1. answer[q] \in {"confirm", "passphrase"}
    BY <1>2 DEF QueryAgain, Status
  <2> QED BY <1>2, <2>1, SendKeeps DEF QueryAgain
<1>3. CASE GridAgain(q)
  <2>1. PICK h \in {"confirm", "passphrase"} : GridAsks(q, h) /\ SendsWith(q, h)
    BY <1>3 DEF GridAgain
  <2>2. GridStatus[h] \in {412, 428}
    BY DEF GridStatus
  <2>3. answer[q] \in {"confirm", "passphrase"}
    BY <2>1, <2>2 DEF GridAsks, Status
  <2> QED BY <2>1, <2>3, SendKeeps
<1>4. CASE GridFails(q)
  BY <1>4 DEF GridFails, Goto, connVars, serverVars, TypeOK, ReqInv, SessionInv, AnswerInv, Handled, Unsent,
              Passed, Permitted, All
<1> QED BY <1>1, <1>2, <1>3, <1>4 DEF Client

LEMMA HandleKeeps ==
    ASSUME TypeOK, NEW q \in Requests, ReqInv(q), Handle(q)
    PROVE  ReqInv(q)'
<1> USE DEF connVars, serverVars, ReqInv, SessionInv, AnswerInv, Handled, Unsent, Passed, All
<1>1. CASE ShapeFails(q) \/ OpenRefused(q)
  BY <1>1 DEF ShapeFails, OpenRefused, OpenFails, Reply, Goto, TypeOK
<1>2. CASE GateAsks(q) \/ GateFails(q)
  BY <1>2 DEF GateAsks, GateFails, Reply, Goto, TypeOK
<1>3. CASE Shape(q) \/ GateBlocks(q)
  BY <1>3 DEF Shape, GateBlocks, Goto, TypeOK
<1>4. CASE GatePasses(q)
  <2>1. Permitted(job[q])'
    BY <1>4, GateIsSound DEF GatePasses, Permitted
  <2> QED BY <1>4, <2>1 DEF GatePasses, Goto, TypeOK
<1>5. CASE Open(q)
  <2>1. Permitted(job[q])'
    BY <1>5 DEF Open, Goto, Permitted
  <2> QED BY <1>5, <2>1 DEF Open, Goto, TypeOK
<1>6. CASE Refuse(q)
  BY <1>6 DEF Refuse, Record, Goto, TypeOK
<1>7. CASE SendCommit(q)
  <2>1. Permitted(job[q])'
    BY <1>7 DEF SendCommit, Permitted
  <2> QED BY <1>7, <2>1 DEF SendCommit, Serve, TypeOK
<1>8. CASE Returns(q) \/ ReturnsError(q)
  <2>1. Permitted(job[q])'
    BY <1>8 DEF Returns, ReturnsError, ToAudit, Goto, Permitted
  <2> QED BY <1>8, <2>1 DEF Returns, ReturnsError, ToAudit, Goto, TypeOK
<1>9. CASE Audit(q)
  <2>1. Permitted(job[q])'
    BY <1>9 DEF Audit, Record, Goto, Permitted
  <2> QED BY <1>9, <2>1 DEF Audit, Record, Goto, TypeOK
<1> QED
  BY <1>1, <1>2, <1>3, <1>4, <1>5, <1>6, <1>7, <1>8, <1>9 DEF Handle

LEMMA BackendKeeps ==
    ASSUME TypeOK, NEW q \in Requests, ReqInv(q), Backend(q) \/ Leave(q) \/ ContextEnds(q)
    PROVE  ReqInv(q)'
<1> USE DEF connVars, serverVars, ReqInv, SessionInv, AnswerInv, Handled, Unsent, Passed, All
<1>1. job' = job /\ tag' = tag
  BY DEF Backend, Leave, ContextEnds, Start, TxExec, Truncates, StatementTakesEffect, CommitTakesEffect,
         ServerUndoes, GivesUp, Drained, ToAudit
<1>2. Permitted(job[q])' <=> Permitted(job[q])
  BY <1>1 DEF Permitted
<1> HIDE DEF Permitted
<1>3. CASE Start(q)
  <2>1. Len(job[q].stmts) \in Nat
    BY DEF TypeOK, Job
  <2>2. pc[q] # "idle" /\ (job[q].kind # "mutate" => Len(job[q].stmts) = 1)
    BY <1>3 DEF Start
  <2> QED BY <1>1, <1>2, <1>3, <2>1, <2>2 DEF Start, Serve, TypeOK
<1>4. CASE TxExec(q)
  <2>1. Len(job[q].stmts) \in Nat
    BY DEF TypeOK, Job
  <2> QED BY <1>1, <1>2, <1>4, <2>1 DEF TxExec, TypeOK
<1>5. CASE Truncates(q)
  BY <1>1, <1>2, <1>5 DEF Truncates, Goto, TypeOK
<1>6. CASE StatementTakesEffect(q)
  BY <1>1, <1>2, <1>6 DEF StatementTakesEffect, Serve, TypeOK
<1>7. CASE CommitTakesEffect(q)
  BY <1>1, <1>2, <1>7 DEF CommitTakesEffect, Serve, TypeOK
<1>8. CASE ServerUndoes(q)
  BY <1>1, <1>2, <1>8 DEF ServerUndoes, TypeOK
<1>9. CASE GivesUp(q) \/ Drained(q)
  BY <1>1, <1>2, <1>9 DEF GivesUp, Drained, ToAudit, Goto, TypeOK
<1>10. CASE ContextEnds(q)
  BY <1>1, <1>2, <1>10 DEF ContextEnds, TypeOK
<1> QED
  BY <1>3, <1>4, <1>5, <1>6, <1>7, <1>8, <1>9, <1>10 DEF Backend, Leave

\* A step of one request changes nothing of another.
LEMMA Apart ==
    ASSUME TypeOK, NEW q \in Requests, NEW p \in Requests, p # q,
           Client(q) \/ ContextEnds(q) \/ Handle(q) \/ Backend(q) \/ Leave(q)
    PROVE  /\ tag' = tag
           /\ pc'[p] = pc[p] /\ job'[p] = job[p] /\ over'[p] = over[p] /\ answer'[p] = answer[p]
           /\ entry'[p] = entry[p] /\ session'[p] = session[p] /\ ran'[p] = ran[p]
           /\ effects'[p] = effects[p]
<1> USE DEF connVars, serverVars, TypeOK, Goto
<1>1. CASE Client(q)
  BY <1>1 DEF Client, Arrive, QueryAgain, GridAgain, GridFails, SendsWith
<1>2. CASE Handle(q)
  BY <1>2 DEF Handle, Shape, ShapeFails, GateBlocks, GateAsks, GatePasses, GateFails, Refuse, Open,
              OpenRefused, OpenFails, Reply, SendCommit, Serve, Returns, ReturnsError, ToAudit, Audit, Record
<1>3. CASE Backend(q) \/ Leave(q) \/ ContextEnds(q)
  BY <1>3 DEF Backend, Leave, ContextEnds, Start, TxExec, Truncates, StatementTakesEffect,
              CommitTakesEffect, ServerUndoes, GivesUp, Drained, ToAudit, Serve
<1> QED BY <1>1, <1>2, <1>3

LEMMA InductiveStep == IInv /\ [Next]_vars => IInv'
<1> SUFFICES ASSUME IInv, [Next]_vars PROVE IInv'
  OBVIOUS
<1> SUFFICES ASSUME NEW p \in Requests PROVE TypeOK' /\ ReqInv(p)'
  <2>1. TypeOK'
    BY TypeStep DEF IInv
  <2> QED BY <2>1 DEF IInv
<1>1. TypeOK /\ ReqInv(p)
  BY DEF IInv
<1>2. TypeOK'
  BY <1>1, TypeStep
<1>3. ASSUME NEW q \in Requests, Client(q) \/ ContextEnds(q) \/ Handle(q) \/ Backend(q) \/ Leave(q)
      PROVE  ReqInv(p)'
  <2>1. CASE p = q
    BY <1>1, <1>3, <2>1, ClientKeeps, HandleKeeps, BackendKeeps
  <2>2. CASE p # q
    BY <1>1, <1>3, <2>2, Apart, OthersKeep
  <2> QED BY <2>1, <2>2
<1>4. CASE DeleteConnection \/ CloseConn \/ OthersOpen \/ UNCHANGED vars
  <2>1. /\ pc'[p] = pc[p]
        /\ tag' = tag /\ job'[p] = job[p] /\ over'[p] = over[p] /\ answer'[p] = answer[p]
        /\ entry'[p] = entry[p] /\ session'[p] = session[p] /\ ran'[p] = ran[p]
        /\ effects'[p] = effects[p]
    BY <1>4 DEF DeleteConnection, CloseConn, OthersOpen, vars, connVars, serverVars
  <2> QED BY <1>1, <1>2, <2>1, OthersKeep
<1>5. CASE Crash
  <2>1. /\ tag' = tag /\ job'[p] = job[p] /\ over'[p] = over[p] /\ answer'[p] = answer[p]
        /\ entry'[p] = entry[p] /\ session'[p] = session[p] /\ ran'[p] = ran[p]
        /\ effects'[p] = effects[p]
    BY <1>5 DEF Crash, serverVars
  <2>2. pc'[p] = pc[p] \/ (pc'[p] = "dead" /\ pc[p] \in Handled)
    BY <1>5 DEF Crash
  <2>3. CASE pc'[p] = pc[p]
    BY <1>1, <1>2, <2>1, <2>3, OthersKeep
  <2>4. CASE pc'[p] = "dead" /\ pc[p] \in Handled
    BY <1>1, <1>2, <2>1, <2>4 DEF Handled, ReqInv, SessionInv, AnswerInv, Unsent, Passed, Permitted, All
  <2> QED BY <2>2, <2>3, <2>4
<1> QED BY <1>2, <1>3, <1>4, <1>5 DEF Next

LEMMA InitInv == Init => IInv
<1> SUFFICES ASSUME Init PROVE IInv
  OBVIOUS
<1>1. NoJob \in Job
  BY DEF NoJob, Job
<1>2. TypeOK
  BY <1>1 DEF Init, TypeOK, Place, Answer, Entry, Session
<1>3. ASSUME NEW q \in Requests PROVE ReqInv(q)
  BY DEF Init, ReqInv, SessionInv, AnswerInv, Handled, Unsent, Passed
<1> QED BY <1>2, <1>3 DEF IInv

LEMMA Inductive == Spec => []IInv
  BY InitInv, InductiveStep, PTL DEF Spec

--------------------------------------------------------------------------------
\* Every variable keeps its type.
THEOREM TypeCorrect == Spec => []TypeOK
<1>1. IInv => TypeOK
  BY DEF IInv
<1> QED BY <1>1, Inductive, PTL

\* No request reaches a backend unless role, tag and confirmation allow it: the
\* gate is passed before the session starts, and the job is not changed after.
THEOREM GateHolds == Spec => []NothingPastTheGate
<1>1. IInv => NothingPastTheGate
  BY DEF IInv, ReqInv, SessionInv, Passed, NothingPastTheGate
<1> QED BY <1>1, Inductive, PTL

\* A batch takes effect as a whole or not at all, and once: ExecuteTx's commit
\* is the only step that applies it, and only a question is ever answered again.
THEOREM BatchesAreAtomic == Spec => []AllOrNothing
<1>1. IInv => AllOrNothing
  BY DEF IInv, ReqInv, SessionInv, AllOrNothing
<1> QED BY <1>1, Inductive, PTL

\* The client is told what happened.
THEOREM ClientsAreToldTheTruth == Spec => []AnswersAreTrue
<1>1. IInv => AnswersAreTrue
  BY DEF IInv, ReqInv, SessionInv, AnswerInv, Handled, Unsent, AnswersAreTrue
<1> QED BY <1>1, Inductive, PTL

\* The audit log says what happened.
THEOREM EntriesTellTheTruth == Spec => []EntriesAreTrue
<1>1. IInv => EntriesAreTrue
  BY DEF IInv, ReqInv, SessionInv, AnswerInv, Handled, Unsent, EntriesAreTrue
<1> QED BY <1>1, Inductive, PTL

\* What ran is in the log once its handler is through, unless its context had
\* ended or the log refused the entry.
THEOREM RunsReachTheLog == Spec => []RunsAreAudited
<1>1. IInv => RunsAreAudited
  BY DEF IInv, ReqInv, AnswerInv, RunsAreAudited
<1> QED BY <1>1, Inductive, PTL

--------------------------------------------------------------------------------
\* The refinement of GatedWrite.

\* The tuple of GatedWrite, as this module maps it.
MappedVars == <<tag, job, Fate, effects, Word>>

\* A session that goes from one state to another takes its fate along.
LEMMA FateMoves ==
    ASSUME TypeOK, NEW q \in Requests, NEW s, session' = [session EXCEPT ![q] = s]
    PROVE  /\ Fate[q] = FateOf(session[q])
           /\ Fate' = [Fate EXCEPT ![q] = FateOf(s)]
           /\ FateOf(s) = FateOf(session[q]) => Fate' = Fate
  BY DEF TypeOK, Fate

\* A request that moves and is told something knows it.
LEMMA WordMoves ==
    ASSUME TypeOK, NEW q \in Requests, NEW to, NEW a,
           pc' = [pc EXCEPT ![q] = to], answer' = [answer EXCEPT ![q] = a]
    PROVE  Word[q] = WordOf(pc[q], answer[q]) /\ Word' = [Word EXCEPT ![q] = WordOf(to, a)]
  BY DEF TypeOK, Word

\* Nobody's word changes while the answers stay and no request begins.
LEMMA WordStays ==
    ASSUME TypeOK, answer' = answer,
           \A q \in Requests : pc'[q] = pc[q] \/ (pc[q] # "idle" /\ pc'[q] # "idle")
    PROVE  Word' = Word
  BY DEF Word, WordOf

\* A request that has been sent and not been answered yet is pending.
LEMMA PendingWord ==
    ASSUME TypeOK, NEW q \in Requests, ReqInv(q), pc[q] \in Handled \ {"audit"}
    PROVE  Word[q] = "pending" /\ answer[q] = "none"
  BY DEF ReqInv, AnswerInv, Handled, Word, WordOf

\* The client's steps submit a request or repeat a refused one.
LEMMA ClientRefines ==
    ASSUME TypeOK, NEW q \in Requests, ReqInv(q), Client(q)
    PROVE  Gated!Next \/ UNCHANGED MappedVars
<1> USE DEF connVars, serverVars
<1>1. ASSUME NEW h \in {"confirm", "passphrase"}, SendsWith(q, h),
             answer[q] \in {"confirm", "passphrase"}
      PROVE  Gated!Repeat(q)
  <2>1. session[q] = "idle"
    BY <1>1 DEF ReqInv, SessionInv, Unsent
  <2>2. Fate[q] = "none" /\ Fate' = Fate
    BY <1>1, <2>1 DEF Fate, FateOf, SendsWith
  <2>3. Word[q] = "refused"
    BY <1>1 DEF Word, WordOf, SendsWith, Goto
  <2>4. Word' = [Word EXCEPT ![q] = "pending"]
    <3>1. WordOf(Entrance(job[q].kind), "none") = "pending"
      BY DEF Entrance, WordOf
    <3>2. /\ pc' = [pc EXCEPT ![q] = Entrance(job[q].kind)]
          /\ answer' = [answer EXCEPT ![q] = "none"]
      BY <1>1 DEF SendsWith, Goto
    <3> HIDE DEF Entrance
    <3>3. Word' = [Word EXCEPT ![q] = WordOf(Entrance(job[q].kind), "none")]
      BY <3>2 DEF Word, TypeOK
    <3> QED BY ONLY <3>1, <3>3
  <2> QED BY <1>1, <2>2, <2>3, <2>4 DEF Gated!Repeat, Gated!Tell, SendsWith
<1>2. CASE Arrive(q)
  <2>1. PICK j \in Jobs : job' = [job EXCEPT ![q] = j] /\ Goto(q, "idle", Entrance(j.kind))
    BY <1>2 DEF Arrive
  <2>2. answer[q] = "none"
    BY <2>1 DEF Goto, ReqInv, AnswerInv
  <2>3. Word[q] = "unsent" /\ Word' = [Word EXCEPT ![q] = "pending"]
    <3>1. WordOf(Entrance(j.kind), "none") = "pending" /\ WordOf("idle", "none") = "unsent"
      BY DEF Entrance, WordOf
    <3>2. answer' = [answer EXCEPT ![q] = "none"] /\ pc[q] = "idle"
      BY <1>2, <2>1, <2>2 DEF Arrive, Goto, TypeOK
    <3>3. pc' = [pc EXCEPT ![q] = Entrance(j.kind)]
      BY <2>1 DEF Goto
    <3> HIDE DEF Entrance
    <3>4. Word[q] = WordOf("idle", "none")
      BY <2>2, <3>2 DEF Word
    <3>5. Word' = [Word EXCEPT ![q] = WordOf(Entrance(j.kind), "none")]
      BY <3>2, <3>3 DEF Word, TypeOK
    <3> QED BY ONLY <3>1, <3>4, <3>5
  <2>4. Fate' = Fate
    BY <1>2 DEF Arrive, Fate
  <2> QED BY <1>2, <2>1, <2>3, <2>4 DEF Gated!Next, Gated!Submit, Gated!Tell, Arrive
<1>3. CASE QueryAgain(q)
  <2>1. answer[q] \in {"confirm", "passphrase"}
    BY <1>3 DEF QueryAgain, Status
  <2> QED BY <1>1, <1>3, <2>1 DEF QueryAgain, Gated!Next
<1>4. CASE GridAgain(q)
  <2>1. PICK h \in {"confirm", "passphrase"} : GridAsks(q, h) /\ SendsWith(q, h)
    BY <1>4 DEF GridAgain
  <2>2. GridStatus[h] \in {412, 428}
    BY DEF GridStatus
  <2>3. answer[q] \in {"confirm", "passphrase"}
    BY <2>1, <2>2 DEF GridAsks, Status
  <2> QED BY <1>1, <2>1, <2>3 DEF Gated!Next
<1>5. CASE GridFails(q)
  <2>1. Word' = Word
    BY <1>5, WordStays DEF GridFails, Goto, TypeOK
  <2>2. Fate' = Fate
    BY <1>5 DEF GridFails, Fate
  <2> QED BY <1>5, <2>1, <2>2 DEF GridFails, MappedVars
<1> QED BY <1>2, <1>3, <1>4, <1>5 DEF Client

\* The handler's steps refuse, report, leave in doubt, or change nothing outside.
LEMMA HandleRefines ==
    ASSUME TypeOK, NEW q \in Requests, ReqInv(q), Handle(q) \/ Leave(q) \/ ContextEnds(q)
    PROVE  Gated!Next \/ UNCHANGED MappedVars
<1> USE DEF connVars, serverVars
<1>1. ASSUME NEW from \in {"shape", "gate", "open"}, NEW a \in {"passphrase", "confirm", "error"},
             Reply(q, from, a)
      PROVE  Gated!Next
  <2>1. pc[q] = from /\ session[q] = "idle" /\ Fate[q] = "none" /\ Fate' = Fate
    BY <1>1 DEF Reply, Goto, ReqInv, SessionInv, Unsent, Fate, FateOf
  <2>2. Word[q] = "pending"
    BY <2>1, PendingWord DEF Handled
  <2>3. Word' = [Word EXCEPT ![q] = "refused"]
    <3>1. WordOf("answered", a) = "refused"
      BY DEF WordOf
    <3>2. pc' = [pc EXCEPT ![q] = "answered"] /\ answer' = [answer EXCEPT ![q] = a]
      BY <1>1 DEF Reply, Goto
    <3>3. Word' = [Word EXCEPT ![q] = WordOf("answered", a)]
      BY <3>2 DEF Word, TypeOK
    <3> QED BY ONLY <3>1, <3>3
  <2> QED BY <1>1, <2>1, <2>2, <2>3 DEF Gated!Next, Gated!Refuse, Gated!Tell, Reply
<1>2. CASE ShapeFails(q) \/ OpenRefused(q) \/ GateAsks(q) \/ GateFails(q)
  BY <1>1, <1>2 DEF ShapeFails, OpenRefused, OpenFails, GateAsks, GateFails
<1>3. CASE Shape(q) \/ GateBlocks(q) \/ GatePasses(q) \/ Open(q) \/ Audit(q) \/ ContextEnds(q)
  <2>1. /\ answer' = answer /\ session' = session
        /\ tag' = tag /\ job' = job /\ effects' = effects
    BY <1>3 DEF Shape, GateBlocks, GatePasses, Open, Audit, Record, ContextEnds
  <2>2. \A p \in Requests : pc'[p] = pc[p] \/ (pc[p] # "idle" /\ pc'[p] # "idle")
    BY <1>3 DEF Shape, GateBlocks, GatePasses, Open, Audit, Record, ContextEnds, Goto, TypeOK
  <2>3. Word' = Word /\ Fate' = Fate
    BY <2>1, <2>2, WordStays DEF Fate
  <2> QED BY <2>1, <2>3 DEF MappedVars
<1>4. CASE Refuse(q)
  <2>1. pc[q] = "refuse" /\ session[q] = "idle" /\ Fate[q] = "none" /\ Fate' = Fate
    BY <1>4 DEF Refuse, Record, Goto, ReqInv, SessionInv, Unsent, Fate, FateOf
  <2>2. Word[q] = "pending"
    BY <2>1, PendingWord DEF Handled
  <2>3. Word' = [Word EXCEPT ![q] = "refused"]
    <3>1. WordOf("answered", "blocked") = "refused"
      BY DEF WordOf
    <3>2. pc' = [pc EXCEPT ![q] = "answered"] /\ answer' = [answer EXCEPT ![q] = "blocked"]
      BY <1>4 DEF Refuse, Record, Goto
    <3>3. Word' = [Word EXCEPT ![q] = WordOf("answered", "blocked")]
      BY <3>2, WordMoves
    <3> QED BY ONLY <3>1, <3>3
  <2> QED BY <1>4, <2>1, <2>2, <2>3 DEF Gated!Next, Gated!Refuse, Gated!Tell, Refuse, Record
<1>5. CASE SendCommit(q)
  <2>1. session[q] = "tx" /\ session' = [session EXCEPT ![q] = "commit"]
    BY <1>5 DEF SendCommit, Serve
  <2>2. FateOf("tx") = FateOf("commit")
    BY DEF FateOf
  <2>3. Fate' = Fate
    BY <2>1, <2>2, FateMoves
  <2>4. Word' = Word
    BY <1>5 DEF SendCommit, Word
  <2> QED BY <1>5, <2>3, <2>4 DEF SendCommit, MappedVars
<1>6. ASSUME NEW from \in {"run", "drain"}, NEW a, ToAudit(q, from, a)
      PROVE  /\ tag' = tag /\ job' = job /\ effects' = effects /\ Fate' = Fate
             /\ Word[q] = "pending"
             /\ Word' = [Word EXCEPT ![q] = WordOf("audit", a)]
  <2>1. pc' = [pc EXCEPT ![q] = "audit"] /\ answer' = [answer EXCEPT ![q] = a]
    BY <1>6 DEF ToAudit, Goto
  <2>2. Word[q] = "pending"
    BY <1>6, PendingWord DEF ToAudit, Goto, Handled
  <2>3. Word' = [Word EXCEPT ![q] = WordOf("audit", a)]
    BY <2>1, WordMoves
  <2> QED BY <1>6, <2>2, <2>3 DEF ToAudit, Fate
<1>7. CASE Returns(q)
  <2>1. session[q] = "done" /\ ToAudit(q, "run", "ok")
    BY <1>7 DEF Returns
  <2>2. Fate[q] = "applied" /\ WordOf("audit", "ok") = "done"
    BY <2>1 DEF Fate, FateOf, WordOf
  <2> QED BY <1>6, <2>1, <2>2 DEF Gated!Next, Gated!Report, Gated!Tell
<1>8. CASE ReturnsError(q) \/ GivesUp(q) \/ Drained(q)
  <2>1. PICK from \in {"run", "drain"}, a \in {"failed", "cut"} : ToAudit(q, from, a)
    BY <1>8 DEF ReturnsError, GivesUp, Drained
  <2>2. WordOf("audit", a) = "unknown"
    BY DEF WordOf
  <2> QED BY <1>6, <2>1, <2>2 DEF Gated!Next, Gated!Doubt, Gated!Tell
<1> QED
  BY <1>2, <1>3, <1>4, <1>5, <1>7, <1>8 DEF Handle, Leave

\* The server's steps execute a pending request that the rules allow, apply it
\* once and as a whole, or undo it.
LEMMA BackendRefines ==
    ASSUME TypeOK, NEW q \in Requests, ReqInv(q), Backend(q)
    PROVE  Gated!Next \/ UNCHANGED MappedVars
<1> USE DEF connVars, serverVars
<1>1. CASE Start(q)
  <2> DEFINE s == IF job[q].kind = "mutate" THEN "tx" ELSE "busy"
  <2>1. pc[q] = "run" /\ session[q] = "idle" /\ session' = [session EXCEPT ![q] = s]
    BY <1>1 DEF Start, Serve
  <2>2. Allows(tag, job[q])
    BY <2>1 DEF ReqInv, SessionInv, Passed, Permitted
  <2>3. Word[q] = "pending" /\ Word' = Word
    BY <1>1, <2>1, PendingWord DEF Start, Handled, Word
  <2>4. FateOf("idle") = "none" /\ FateOf(s) = "running"
    BY DEF FateOf
  <2>5. Fate[q] = "none" /\ Fate' = [Fate EXCEPT ![q] = "running"]
    <3> HIDE DEF s
    <3>1. Fate[q] = FateOf(session[q]) /\ Fate' = [Fate EXCEPT ![q] = FateOf(s)]
      BY <2>1, FateMoves
    <3> QED BY <2>1, <2>4, <3>1
  <2> QED BY <1>1, <2>2, <2>3, <2>5 DEF Gated!Next, Gated!Execute, Gated!Become, Start
<1>2. CASE TxExec(q) \/ Truncates(q)
  <2>1. Word' = Word
    BY <1>2, WordStays DEF TxExec, Truncates, Goto, TypeOK
  <2> QED BY <1>2, <2>1 DEF TxExec, Truncates, Fate, MappedVars
<1>3. CASE StatementTakesEffect(q) \/ CommitTakesEffect(q)
  <2>1. session[q] \in {"busy", "commit"} /\ session' = [session EXCEPT ![q] = "done"]
    BY <1>3 DEF StatementTakesEffect, CommitTakesEffect, Serve
  <2>2. FateOf(session[q]) = "running" /\ FateOf("done") = "applied"
    BY <2>1 DEF FateOf
  <2>3. Fate[q] = "running" /\ Fate' = [Fate EXCEPT ![q] = "applied"]
    BY <2>1, <2>2, FateMoves
  <2>4. effects' = [effects EXCEPT ![q] = Size(job[q])]
    <3>1. effects[q] = 0 /\ ran[q] \in Nat
      BY <2>1 DEF ReqInv, SessionInv, TypeOK
    <3>2. CASE StatementTakesEffect(q)
      <4>1. Len(job[q].stmts) = 1
        BY <3>2 DEF StatementTakesEffect, Serve, ReqInv, SessionInv, All
      <4> QED BY <3>1, <3>2, <4>1 DEF StatementTakesEffect, Size
    <3>3. CASE CommitTakesEffect(q)
      <4>1. Len(job[q].stmts) = ran[q]
        BY <3>3 DEF CommitTakesEffect, Serve, ReqInv, SessionInv, All
      <4>2. effects[q] + ran[q] = Size(job[q])
        BY <3>1, <4>1 DEF Size
      <4>3. effects' = [effects EXCEPT ![q] = effects[q] + ran[q]]
        BY <3>3 DEF CommitTakesEffect
      <4> QED BY ONLY <4>2, <4>3
    <3> QED BY <1>3, <3>2, <3>3
  <2>5. Word' = Word
    BY <1>3 DEF StatementTakesEffect, CommitTakesEffect, Word
  <2> QED
    BY <1>3, <2>3, <2>4, <2>5 DEF Gated!Next, Gated!Apply, Gated!Become, StatementTakesEffect, CommitTakesEffect
<1>4. CASE ServerUndoes(q)
  <2>1. session[q] \in {"busy", "tx", "commit"} /\ session' = [session EXCEPT ![q] = "undone"]
    BY <1>4 DEF ServerUndoes
  <2>2. FateOf(session[q]) = "running" /\ FateOf("undone") = "undone"
    BY <2>1 DEF FateOf
  <2>3. Fate[q] = "running" /\ Fate' = [Fate EXCEPT ![q] = "undone"]
    BY <2>1, <2>2, FateMoves
  <2> QED BY <1>4, <2>3 DEF Gated!Next, Gated!Undo, Gated!Become, ServerUndoes, Word
<1> QED BY <1>1, <1>2, <1>3, <1>4 DEF Backend

\* The gate implements GatedWrite: what is sent to a backend is allowed by the
\* rules of the connection, takes effect once and as a whole or not at all, is
\* never sent again, and only what was refused is asked for a second time.
THEOREM GateImplementsGatedWrite == Spec => GatesWrites
<1>1. Init => Gated!Init
  <2>1. FateOf("idle") = "none" /\ WordOf("idle", "none") = "unsent"
    BY DEF FateOf, WordOf
  <2> QED BY <2>1 DEF Init, Gated!Init, Fate, Word
<1>2. ASSUME IInv, [Next]_vars
      PROVE  [Gated!Next]_(Gated!vars)
  <2>1. TypeOK /\ \A q \in Requests : ReqInv(q)
    BY <1>2 DEF IInv
  <2>2. CASE DeleteConnection \/ CloseConn \/ OthersOpen \/ UNCHANGED vars
    BY <2>2 DEF DeleteConnection, CloseConn, OthersOpen, vars, connVars, serverVars, Gated!vars, Fate, Word
  <2>3. CASE Crash
    <3>1. Word' = Word
      BY <2>1, <2>3, WordStays DEF Crash, Handled, TypeOK
    <3> QED BY <2>3, <3>1 DEF Crash, serverVars, Gated!vars, Fate
  <2>4. ASSUME NEW q \in Requests, Client(q) \/ ContextEnds(q) \/ Handle(q) \/ Backend(q) \/ Leave(q)
        PROVE  Gated!Next \/ UNCHANGED MappedVars
    BY <2>1, <2>4, ClientRefines, HandleRefines, BackendRefines
  <2> QED BY <1>2, <2>2, <2>3, <2>4 DEF Next, MappedVars, Gated!vars
<1> QED BY <1>1, <1>2, Inductive, PTL DEF Spec, GatesWrites, Gated!Spec
================================================================================
