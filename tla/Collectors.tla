------------------------------ MODULE Collectors ------------------------------
(***************************************************************************)
(* observ.Manager composed with postgres.Manager: one collector goroutine  *)
(* (a runner) per connection, which opens the connection's pool on every   *)
(* tick, and the handlers that start and stop runners around the life of a *)
(* connection: CreateConnection, DeleteConnection and the shutdown         *)
(* goroutine of `dbil serve`.                                              *)
(*                                                                         *)
(* The runners are callers of PoolManager; every step is a step of         *)
(* PoolManager with more guards, or leaves its variables alone.            *)
(***************************************************************************)
EXTENDS PoolManager

CONSTANT Runners    \* the callers that are collector goroutines

ASSUME RunnerAssumption ==
    /\ Runners \subseteq Callers
    /\ Runners \cap Keyed = {}        \* OpenByID(ctx, id, "")
    /\ None \notin Runners

Handlers == Callers \ Runners

VARIABLES
    runs,       \* observ.Manager.runs
    life,       \* each runner's goroutine
    watches,    \* runner.connID
    cancelled,  \* the runners whose cancel was called
    stage,      \* where a handler is between its calls into the two managers
    target,     \* the id it starts or stops the runner of
    joins       \* the runners it took out of runs and has to wait for

runnerVars == <<runs, life, watches, cancelled>>
stageVars  == <<stage, target, joins>>
allVars    == <<vars, runnerVars, stageVars>>

Life  == {"unused", "new", "running", "done"}
Stage == {"none", "start", "stop", "cancel", "join", "pools"}

CollectorsTypeOK ==
    /\ TypeOK
    /\ runs \in [Conns -> Runners \cup {None}]
    /\ life \in [Runners -> Life]
    /\ watches \in [Runners -> Conns \cup {None}]
    /\ cancelled \subseteq Runners
    /\ stage \in [Handlers -> Stage]
    /\ target \in [Handlers -> Conns \cup {None}]
    /\ joins \in [Handlers -> SUBSET Runners]

CollectorsInit ==
    /\ Init
    /\ runs = [i \in Conns |-> None]
    /\ life = [r \in Runners |-> "unused"]
    /\ watches = [r \in Runners |-> None]
    /\ cancelled = {}
    /\ stage = [c \in Handlers |-> "none"]
    /\ target = [c \in Handlers |-> None]
    /\ joins = [c \in Handlers |-> {}]

ToStage(c, from, to) ==
    /\ stage[c] = from
    /\ stage' = [stage EXCEPT ![c] = to]

-----------------------------------------------------------------------------
(* The handlers. *)

\* Faulty variant: the id of a deleted connection is used again.
CreateConnectionReuses(c, i) ==
    /\ pc[c] = "idle"
    /\ rows' = [rows EXCEPT ![i] = "live"]
    /\ UNCHANGED <<cacheVars, handleVars, pc, ownVars>>
    /\ ToStage(c, "none", IF i \in Protected THEN "none" ELSE "start")
    /\ target' = [target EXCEPT ![c] = i]
    /\ UNCHANGED <<runnerVars, joins>>

\* CreateConnection: the row is committed, and visible, before Start runs; a
\* passphrase-protected connection gets no collector.
CreateConnection(c, i) ==
    /\ pc[c] = "idle"
    /\ CreateRow(i)
    /\ ToStage(c, "none", IF i \in Protected THEN "none" ELSE "start")
    /\ target' = [target EXCEPT ![c] = i]
    /\ UNCHANGED <<runnerVars, joins>>

\* observ.Manager.Start: a no-op when the id has a runner.
StartRunner(c) ==
    /\ ToStage(c, "start", "none")
    /\ IF runs[target[c]] # None
       THEN UNCHANGED <<runs, life, watches>>
       ELSE \E r \in Runners :
              /\ life[r] = "unused"
              /\ runs' = [runs EXCEPT ![target[c]] = r]
              /\ life' = [life EXCEPT ![r] = "new"]
              /\ watches' = [watches EXCEPT ![r] = target[c]]
    /\ UNCHANGED <<vars, cancelled, target, joins>>

\* DeleteConnection: the row first, then Stop, then CloseConn.
DeleteConnection(c, i) ==
    /\ DeleteRow(c, i)
    /\ ToStage(c, "none", "stop")
    /\ target' = [target EXCEPT ![c] = i]
    /\ UNCHANGED <<runnerVars, joins>>

\* Faulty variant: Stop forgets the runner it takes out of the map.
StopRunnerForgets(c) ==
    /\ ToStage(c, "stop", "none")
    /\ runs' = [runs EXCEPT ![target[c]] = None]
    /\ UNCHANGED <<vars, life, watches, cancelled, target, joins>>

\* Faulty variant: Stop joins the nil runner of an id that has none.
StopRunnerNil(c) ==
    /\ ToStage(c, "stop", IF runs[target[c]] = None THEN "none" ELSE "cancel")
    /\ joins' = [joins EXCEPT ![c] = {runs[target[c]]}]
    /\ runs' = [runs EXCEPT ![target[c]] = None]
    /\ UNCHANGED <<vars, life, watches, cancelled, target>>

\* observ.Manager.Stop's critical section; without a runner it returns.
StopRunner(c) ==
    /\ ToStage(c, "stop", IF runs[target[c]] = None THEN "none" ELSE "cancel")
    /\ joins' = [joins EXCEPT ![c] = {runs[target[c]]} \ {None}]
    /\ runs' = [runs EXCEPT ![target[c]] = None]
    /\ UNCHANGED <<vars, life, watches, cancelled, target>>

\* The shutdown goroutine: observ.Manager.Shutdown's critical section.
ShutdownRunners(c) ==
    /\ pc[c] = "idle"
    /\ ToStage(c, "none", "cancel")
    /\ joins' = [joins EXCEPT ![c] = {runs[i] : i \in Conns} \ {None}]
    /\ runs' = [i \in Conns |-> None]
    /\ UNCHANGED <<vars, life, watches, cancelled, target>>


\* r.cancel() for every runner taken out, outside the lock.
CancelRunners(c) ==
    /\ ToStage(c, "cancel", "join")
    /\ cancelled' = cancelled \cup joins[c]
    /\ UNCHANGED <<vars, runs, life, watches, target, joins>>

\* Faulty variant: Stop returns without waiting for the goroutine.
JoinRunnersNot(c) ==
    /\ ToStage(c, "join", IF pc[c] = "purge" THEN "none" ELSE "pools")
    /\ joins' = [joins EXCEPT ![c] = {}]
    /\ UNCHANGED <<vars, runnerVars, target>>

\* <-r.done for every one of them.  DeleteConnection goes on to CloseConn, the
\* shutdown goroutine to postgres.Manager.Shutdown.
JoinRunners(c) ==
    /\ \A r \in joins[c] : life[r] = "done"
    /\ ToStage(c, "join", IF pc[c] = "purge" THEN "none" ELSE "pools")
    /\ joins' = [joins EXCEPT ![c] = {}]
    /\ UNCHANGED <<vars, runnerVars, target>>

ShutdownPools(c) ==
    /\ Shutdown(c)
    /\ ToStage(c, "pools", "none")
    /\ UNCHANGED <<runnerVars, target, joins>>

\* Everything else a handler does is PoolManager's: a request that opens and
\* uses a pool, and the closing half of DeleteConnection and Shutdown.
HandlerPoolStep(c) ==
    /\ stage[c] = "none"
    /\ \/ \E i \in Conns : OpenHit(c, i) \/ OpenMiss(c, i)
       \/ OpenStep(c)
       \/ Acquire(c)
       \/ Release(c)
       \/ Finish(c)
       \/ CloseStep(c)
    /\ UNCHANGED <<runnerVars, stageVars>>

-----------------------------------------------------------------------------
(* The collector goroutine. *)

\* tickAll opens the pool: at once when the goroutine starts, and then whenever
\* the ticker wins the select, which it may even after cancel.
Tick(r) ==
    /\ life[r] \in {"new", "running"}
    /\ OpenHit(r, watches[r]) \/ OpenMiss(r, watches[r])
    /\ life' = [life EXCEPT ![r] = "running"]
    /\ UNCHANGED <<runs, watches, cancelled, stageVars>>

\* The rest of tickAll.  Once the context is cancelled Reveal fails and no
\* connection is checked out; dialling and publishing go on.
RunnerPoolStep(r) ==
    /\ \/ OpenStep(r) /\ (r \in cancelled /\ pc[r] = "reveal" => pc'[r] = "idle")
       \/ Acquire(r) /\ r \notin cancelled
       \/ Release(r)
       \/ Finish(r)
       \/ CloseStep(r)
    /\ UNCHANGED <<runnerVars, stageVars>>

\* ctx.Done wins the select.
Exit(r) ==
    /\ life[r] = "running"
    /\ pc[r] = "idle"
    /\ r \in cancelled
    /\ life' = [life EXCEPT ![r] = "done"]
    /\ UNCHANGED <<vars, runs, watches, cancelled, stageVars>>

-----------------------------------------------------------------------------
StageStep(c) ==
    \/ StartRunner(c)
    \/ StopRunner(c)
    \/ CancelRunners(c)
    \/ JoinRunners(c)
    \/ ShutdownPools(c)

CollectorsNext ==
    \/ \E c \in Handlers :
         \/ \E i \in Conns : CreateConnection(c, i) \/ DeleteConnection(c, i)
         \/ ShutdownRunners(c)
         \/ StageStep(c)
         \/ HandlerPoolStep(c)
    \/ \E r \in Runners : Tick(r) \/ RunnerPoolStep(r) \/ Exit(r)

CollectorsSpec == CollectorsInit /\ [][CollectorsNext]_allVars

-----------------------------------------------------------------------------
(* Properties. *)

Alive(r) == life[r] \in {"new", "running"}

\* A live runner nobody can reach any more could not be stopped: it is in runs,
\* or a handler that took it out still has to cancel or to join it.
NoLostRunner ==
    \A r \in Runners : Alive(r) =>
        \/ runs[watches[r]] = r
        \/ \E c \in Handlers : r \in joins[c] /\ stage[c] \in {"cancel", "join"}

\* The shutdown goroutine has taken runner r and has not yet closed the pools.
ShuttingDown(r) ==
    \E c \in Handlers : r \in joins[c] /\ pc[c] = "idle"

\* DeleteConnection closes the pool only after the collector is gone: no tick
\* publishes a pool for a connection whose CloseConn has already run, except
\* under the shutdown goroutine, which closes every pool after its join.
CollectorNeverRevives ==
    [][\A r \in Runners, i \in Conns :
         /\ rows[i] = "deleted"
         /\ \A c \in Handlers : ~ (pc[c] = "purge" /\ conn[c] = i)
         /\ pools[i] = None
         /\ ~ ShuttingDown(r)
         => pools'[i] = None \/ pools'[i] # mine[r]]_allVars

\* The composition does to the pools only what PoolManager allows.
PoolManagerSpec == Spec

\* An OpenByID, a statement, a CloseConn, a DELETE or a shutdown is under way.
InCall(c) ==
    \/ pc[c] \notin {"idle", "hold"}
    \/ c \in Handlers /\ stage[c] # "none"
===============================================================================
