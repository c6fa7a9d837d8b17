------------------------------ MODULE ServeProofs ------------------------------
(***************************************************************************)
(* Proofs about Collectors and Serve, for any number of connections,       *)
(* collectors, requests and open attempts.  Serve implements Collectors,   *)
(* Collectors implements PoolManager, so what is proved of the one holds   *)
(* of the other.  The new part is the life of a runner: it is in runs,     *)
(* then on the list of the one handler that took it out, until it ends.    *)
(***************************************************************************)
EXTENDS Serve, PoolManagerProofs

\* What the handlers' places imply about the runners they took out.
HandlerInv ==
    \A c \in Handlers :
        /\ stage[c] \notin {"cancel", "join"} => joins[c] = {}
        /\ stage[c] # "none" => pc[c] \in {"idle", "purge"}
        /\ stage[c] \in {"start", "stop"} => target[c] \in Conns
        /\ stage[c] = "stop" => pc[c] = "purge" /\ target[c] = conn[c]
        /\ stage[c] = "start" => pc[c] = "idle"
        /\ pc[c] = "purge" => rows[conn[c]] = "deleted"
        /\ \A r \in joins[c] :
             /\ life[r] # "unused"
             /\ runs[watches[r]] # r
             /\ pc[c] = "purge" => watches[r] = conn[c]

\* A runner in the map is alive, watches its own connection, and is not cancelled.
MapInv ==
    /\ \A i \in Conns : runs[i] # None =>
         /\ watches[runs[i]] = i
         /\ Alive(runs[i])
    /\ \A r \in cancelled : life[r] # "unused" /\ runs[watches[r]] # r

LifeInv ==
    \A r \in Runners :
        /\ life[r] # "running" => pc[r] = "idle"
        /\ life[r] # "unused" => watches[r] \in Conns
        /\ pc[r] # "idle" => conn[r] = watches[r]
        /\ pc[r] # "purge"

PastReveal(r) == pc[r] \in {"tunnel", "open", "store"}

\* A runner that read the row before it was deleted is on somebody's list, or
\* the DELETE is about to put it there.
DeletedInv ==
    \A r \in Runners : PastReveal(r) /\ rows[watches[r]] = "deleted" =>
        \/ \E c \in Handlers : r \in joins[c] /\ pc[c] = "idle"
        \/ \E c \in Handlers :
             /\ pc[c] = "purge" /\ conn[c] = watches[r]
             /\ r \in joins[c] \/ (stage[c] = "stop" /\ runs[watches[r]] = r)

RunnerInv ==
    /\ CollectorsTypeOK
    /\ HandlerInv
    /\ MapInv
    /\ LifeInv
    /\ NoLostRunner
    /\ DeletedInv

USE RunnerAssumption

-----------------------------------------------------------------------------
(* Collectors implements PoolManager. *)

\* The steps of a caller that stay within the pool manager.
PoolStep(c) ==
    \/ \E i \in Conns : OpenHit(c, i) \/ OpenMiss(c, i)
    \/ OpenStep(c)
    \/ Acquire(c)
    \/ Release(c)
    \/ Finish(c)
    \/ CloseStep(c)

LEMMA RunnerIsCaller == ASSUME NEW r \in Runners PROVE r \in Callers /\ r \notin Handlers
  BY DEF Handlers

LEMMA HandlerIsCaller == ASSUME NEW c \in Handlers PROVE c \in Callers /\ c \notin Runners
  BY DEF Handlers

LEMMA CollectorsInitIsInit == CollectorsInit => Init
  BY DEF CollectorsInit

\* Every step of Collectors is one of PoolManager, or leaves it alone.
LEMMA CollectorsStep ==
    ASSUME RunnerInv, [CollectorsNext]_allVars
    PROVE  [Next]_vars
<1>1. CASE UNCHANGED allVars
  BY <1>1 DEF allVars
<1>2. ASSUME NEW c \in Handlers, NEW i \in Conns, CreateConnection(c, i) PROVE Next
  BY <1>2 DEF CreateConnection, Next
<1>3. ASSUME NEW c \in Handlers, NEW i \in Conns, DeleteConnection(c, i) PROVE Next
  BY <1>3, HandlerIsCaller DEF DeleteConnection, Next
<1>4. ASSUME NEW c \in Handlers, ShutdownRunners(c) PROVE UNCHANGED vars
  BY <1>4 DEF ShutdownRunners
<1>5. ASSUME NEW c \in Handlers, StageStep(c) PROVE Next \/ UNCHANGED vars
  BY <1>5, HandlerIsCaller DEF StageStep, StartRunner, StopRunner, CancelRunners, JoinRunners,
     ShutdownPools, Next
<1>6. ASSUME NEW c \in Handlers, HandlerPoolStep(c) PROVE Next
  BY <1>6, HandlerIsCaller DEF HandlerPoolStep, Next
<1>7. ASSUME NEW r \in Runners, Tick(r) PROVE Next
  BY <1>7, RunnerIsCaller DEF RunnerInv, LifeInv, Tick, Next
<1>8. ASSUME NEW r \in Runners, RunnerPoolStep(r) PROVE Next
  BY <1>8, RunnerIsCaller DEF RunnerPoolStep, Next
<1>9. ASSUME NEW r \in Runners, Exit(r) PROVE UNCHANGED vars
  BY <1>9 DEF Exit
<1> QED
  BY <1>1, <1>2, <1>3, <1>4, <1>5, <1>6, <1>7, <1>8, <1>9 DEF CollectorsNext

-----------------------------------------------------------------------------
(* What a caller's step in the pool manager leaves alone. *)

LEMMA PoolStepFrame ==
    ASSUME IInv, NEW c \in Callers, PoolStep(c)
    PROVE  /\ rows' = rows
           /\ \A d \in Callers \ {c} : pc'[d] = pc[d] /\ conn'[d] = conn[d]
           /\ pc[c] # "idle" => conn'[c] = conn[c]
           /\ pc'[c] # "purge"
           /\ PastReveal(c)' => PastReveal(c) \/ (pc[c] = "reveal" /\ rows[conn[c]] = "live")
<1> USE DEF IInv, TypeOK, Goto, PastReveal
<1>1. CASE \E i \in Conns : OpenHit(c, i) \/ OpenMiss(c, i)
  BY <1>1 DEF OpenHit, OpenMiss
<1>2. CASE OpenStep(c)
  <2>1. CASE Reveal(c) \/ RevealFails(c)
    BY <2>1 DEF Reveal, RevealFails, ownVars
  <2>2. CASE OpenTunnel(c) \/ OpenTunnelFails(c)
    BY <2>2 DEF OpenTunnel, OpenTunnelFails, ownVars
  <2>3. CASE OpenPool(c) \/ OpenPoolFails(c)
    BY <2>3 DEF OpenPool, OpenPoolFails, ownVars
  <2>4. CASE Store(c) \/ StoreLost(c)
    BY <2>4 DEF Store, StoreLost
  <2> QED
    BY <1>2, <2>1, <2>2, <2>3, <2>4 DEF OpenStep
<1>3. CASE Acquire(c) \/ Release(c) \/ Finish(c)
  BY <1>3 DEF Acquire, Release, Finish, ownVars
<1>4. CASE CloseStep(c)
  BY <1>4 DEF CloseStep, CloseConn, BeginClosePool, EndClosePool, CloseTunnel, CloseDone, ownVars
<1> QED
  BY <1>1, <1>2, <1>3, <1>4 DEF PoolStep

-----------------------------------------------------------------------------
(* One lemma per action: it preserves RunnerInv. *)

LEMMA InitRunnerInv == CollectorsInit => RunnerInv /\ IInv
<1> SUFFICES ASSUME CollectorsInit PROVE RunnerInv /\ IInv
  OBVIOUS
<1>1. IInv
  BY CollectorsInitIsInit, InitInv
<1>2. CollectorsTypeOK
  BY <1>1 DEF IInv, CollectorsInit, CollectorsTypeOK, Life, Stage
<1>3. HandlerInv
  BY HandlerIsCaller DEF CollectorsInit, Init, HandlerInv
<1>4. MapInv /\ LifeInv /\ NoLostRunner /\ DeletedInv
  BY RunnerIsCaller DEF CollectorsInit, Init, MapInv, LifeInv, NoLostRunner, DeletedInv,
     PastReveal, Alive
<1> QED
  BY <1>1, <1>2, <1>3, <1>4 DEF RunnerInv

\* The pool manager's steps of a handler leave the runners alone.
LEMMA HandlerPoolStepInv ==
    ASSUME RunnerInv, IInv, CollectorsTypeOK', NEW c \in Handlers, HandlerPoolStep(c)
    PROVE  RunnerInv'
<1> USE DEF RunnerInv
<1>1. PoolStep(c) /\ UNCHANGED <<runnerVars, stageVars>> /\ stage[c] = "none"
  BY DEF HandlerPoolStep, PoolStep
<1>2. c \in Callers
  BY HandlerIsCaller
<1>3. /\ rows' = rows
      /\ \A d \in Callers \ {c} : pc'[d] = pc[d] /\ conn'[d] = conn[d]
      /\ pc'[c] # "purge"
  BY <1>1, <1>2, PoolStepFrame
<1>4. HandlerInv'
  BY <1>1, <1>3, HandlerIsCaller DEF HandlerInv, runnerVars, stageVars
<1>5. MapInv' /\ NoLostRunner'
  BY <1>1 DEF MapInv, NoLostRunner, Alive, runnerVars, stageVars
<1>6. LifeInv'
  BY <1>1, <1>3, RunnerIsCaller DEF LifeInv, runnerVars, stageVars
<1>7. DeletedInv'
  BY <1>1, <1>3, RunnerIsCaller, HandlerIsCaller
  DEF DeletedInv, HandlerInv, PastReveal, runnerVars, stageVars
<1> QED
  BY <1>4, <1>5, <1>6, <1>7

\* A runner's own steps in the pool manager: it gets past Reveal only while the
\* row is live.
LEMMA RunnerStepInv ==
    ASSUME RunnerInv, IInv, CollectorsTypeOK', NEW r \in Runners, Tick(r) \/ RunnerPoolStep(r)
    PROVE  RunnerInv'
<1> USE DEF RunnerInv
<1>0. r \in Callers
  BY RunnerIsCaller
<1>1. /\ PoolStep(r) /\ UNCHANGED <<runs, watches, cancelled, stageVars>>
      /\ life[r] # "unused"
      /\ life' = [life EXCEPT ![r] = "running"]
      /\ pc[r] = "idle" => conn'[r] = watches[r]
      /\ Alive(r)
  <2>1. CASE Tick(r)
    BY <2>1, <1>0 DEF Tick, PoolStep, OpenHit, OpenMiss, Goto, LifeInv, Alive, IInv, TypeOK
  <2>2. CASE RunnerPoolStep(r)
    <3>1. PoolStep(r)
      BY <2>2 DEF RunnerPoolStep, PoolStep
    <3>2. pc[r] # "idle"
      BY <2>2 DEF RunnerPoolStep, OpenStep, CloseStep, Goto, Reveal, RevealFails, OpenTunnel,
         OpenTunnelFails, OpenPool, OpenPoolFails, Store, StoreLost, Acquire, Release, Finish,
         CloseConn, BeginClosePool, EndClosePool, CloseTunnel, CloseDone
    <3>3. life[r] = "running"
      BY <3>2 DEF LifeInv
    <3> QED
      BY <2>2, <3>1, <3>2, <3>3 DEF RunnerPoolStep, runnerVars, CollectorsTypeOK, Alive
  <2> QED
    BY <2>1, <2>2
<1>2. /\ rows' = rows
      /\ \A d \in Callers \ {r} : pc'[d] = pc[d] /\ conn'[d] = conn[d]
      /\ pc[r] # "idle" => conn'[r] = conn[r]
      /\ pc'[r] # "purge"
      /\ PastReveal(r)' => PastReveal(r) \/ (pc[r] = "reveal" /\ rows[conn[r]] = "live")
  BY <1>0, <1>1, PoolStepFrame
<1>3. HandlerInv'
  BY <1>1, <1>2, HandlerIsCaller DEF HandlerInv, stageVars, CollectorsTypeOK
<1>4. MapInv' /\ NoLostRunner'
  BY <1>1 DEF MapInv, NoLostRunner, Alive, stageVars, CollectorsTypeOK
<1>5. LifeInv'
  BY <1>1, <1>2, RunnerIsCaller DEF LifeInv, CollectorsTypeOK
<1>6. DeletedInv'
  BY <1>1, <1>2, RunnerIsCaller, HandlerIsCaller DEF DeletedInv, LifeInv, PastReveal, stageVars
<1> QED
  BY <1>3, <1>4, <1>5, <1>6

\* A runner that ends was cancelled, and so is not in the map.
LEMMA ExitInv ==
    ASSUME RunnerInv, IInv, CollectorsTypeOK', NEW r \in Runners, Exit(r)
    PROVE  RunnerInv'
<1> USE DEF RunnerInv, Exit
<1>1. HandlerInv' /\ MapInv' /\ LifeInv' /\ NoLostRunner' /\ DeletedInv'
  BY DEF HandlerInv, MapInv, LifeInv, NoLostRunner, DeletedInv, PastReveal, Alive,
     CollectorsTypeOK, vars, cacheVars, ownVars, stageVars
<1> QED
  BY <1>1

LEMMA CreateConnectionInv ==
    ASSUME RunnerInv, IInv, CollectorsTypeOK', NEW c \in Handlers, NEW i \in Conns,
           CreateConnection(c, i)
    PROVE  RunnerInv'
<1> USE DEF RunnerInv, CreateConnection, CreateRow, ToStage
<1>1. HandlerInv'
  BY HandlerIsCaller DEF HandlerInv, CollectorsTypeOK, IInv, TypeOK, PlaceInv, runnerVars, ownVars
<1>2. MapInv' /\ LifeInv'
  BY DEF MapInv, LifeInv, Alive, runnerVars, ownVars
<1>3. NoLostRunner'
  BY DEF NoLostRunner, HandlerInv, Alive, runnerVars, CollectorsTypeOK
<1>4. DeletedInv'
  BY DEF DeletedInv, HandlerInv, LifeInv, PastReveal, runnerVars, ownVars, CollectorsTypeOK, IInv, TypeOK
<1> QED
  BY <1>1, <1>2, <1>3, <1>4

LEMMA StartRunnerInv ==
    ASSUME RunnerInv, IInv, CollectorsTypeOK', NEW c \in Handlers, StartRunner(c)
    PROVE  RunnerInv'
<1> USE DEF RunnerInv, ToStage
<1>1. CASE runs[target[c]] # None
  <2>1. HandlerInv' /\ MapInv' /\ LifeInv' /\ NoLostRunner' /\ DeletedInv'
    BY <1>1 DEF StartRunner, HandlerInv, MapInv, LifeInv, NoLostRunner, DeletedInv, PastReveal,
       Alive, CollectorsTypeOK, vars, cacheVars, ownVars
  <2> QED
    BY <2>1
<1>2. CASE runs[target[c]] = None
  <2>1. PICK r \in Runners :
          /\ life[r] = "unused"
          /\ runs' = [runs EXCEPT ![target[c]] = r]
          /\ life' = [life EXCEPT ![r] = "new"]
          /\ watches' = [watches EXCEPT ![r] = target[c]]
    BY <1>2 DEF StartRunner
  <2>2. /\ UNCHANGED <<rows, pc, conn, cancelled, target, joins>>
        /\ stage[c] = "start" /\ stage' = [stage EXCEPT ![c] = "none"]
    BY DEF StartRunner, vars, ownVars
  <2>3. target[c] \in Conns /\ pc[r] = "idle" /\ r # None
    BY <2>1, <2>2 DEF HandlerInv, LifeInv
  <2>4. HandlerInv'
    BY <2>1, <2>2, <2>3 DEF HandlerInv, CollectorsTypeOK
  <2>5. MapInv'
    BY <2>1, <2>2, <2>3 DEF MapInv, LifeInv, Alive, CollectorsTypeOK
  <2>6. LifeInv'
    BY <2>1, <2>2, <2>3 DEF LifeInv, CollectorsTypeOK
  <2>7. NoLostRunner'
    BY <1>2, <2>1, <2>2, <2>3 DEF NoLostRunner, HandlerInv, LifeInv, Alive, CollectorsTypeOK
  <2>8. DeletedInv'
    BY <1>2, <2>1, <2>2, <2>3 DEF DeletedInv, HandlerInv, LifeInv, PastReveal, CollectorsTypeOK
  <2> QED
    BY <2>4, <2>5, <2>6, <2>7, <2>8
<1> QED
  BY <1>1, <1>2

\* The runner of the row that goes is still in the map, or the shutdown
\* goroutine has it.
LEMMA DeleteConnectionInv ==
    ASSUME RunnerInv, IInv, CollectorsTypeOK', NEW c \in Handlers, NEW i \in Conns,
           DeleteConnection(c, i)
    PROVE  RunnerInv'
<1> USE DEF RunnerInv, DeleteConnection, DeleteRow, ToStage, Goto
<1>0. c \in Callers
  BY HandlerIsCaller
<1>1. HandlerInv'
  BY <1>0, HandlerIsCaller
  DEF HandlerInv, CollectorsTypeOK, IInv, TypeOK, PlaceInv, runnerVars
<1>2. MapInv' /\ LifeInv'
  BY <1>0, RunnerIsCaller DEF MapInv, LifeInv, Alive, runnerVars, IInv, TypeOK
<1>3. NoLostRunner'
  BY DEF NoLostRunner, HandlerInv, Alive, runnerVars, CollectorsTypeOK
<1>4. DeletedInv'
  <2> SUFFICES ASSUME NEW r \in Runners, (PastReveal(r) /\ rows[watches[r]] = "deleted")'
               PROVE  \/ \E d \in Handlers : (r \in joins[d] /\ pc[d] = "idle")'
                      \/ \E d \in Handlers :
                           (/\ pc[d] = "purge" /\ conn[d] = watches[r]
                            /\ r \in joins[d] \/ (stage[d] = "stop" /\ runs[watches[r]] = r))'
    BY DEF DeletedInv
  <2>1. /\ PastReveal(r) /\ watches[r] \in Conns /\ Alive(r)
        /\ watches'[r] = watches[r] /\ runs' = runs /\ joins' = joins
        /\ joins[c] = {} /\ pc[c] = "idle"
        /\ pc' = [pc EXCEPT ![c] = "purge"] /\ conn' = [conn EXCEPT ![c] = i]
        /\ stage' = [stage EXCEPT ![c] = "stop"]
        /\ rows' = [rows EXCEPT ![i] = "deleted"]
    BY <1>0, RunnerIsCaller DEF PastReveal, LifeInv, Alive, HandlerInv, runnerVars, IInv, TypeOK,
       CollectorsTypeOK, Life
  <2>2. CASE rows[watches[r]] = "deleted"
    <3>1. PICK d \in Handlers :
            \/ r \in joins[d] /\ pc[d] = "idle"
            \/ /\ pc[d] = "purge" /\ conn[d] = watches[r]
               /\ r \in joins[d] \/ (stage[d] = "stop" /\ runs[watches[r]] = r)
      BY <2>1, <2>2 DEF DeletedInv
    <3>2. d # c
      BY <2>1, <3>1
    <3>3. pc'[d] = pc[d] /\ conn'[d] = conn[d] /\ stage'[d] = stage[d]
      BY <2>1, <3>2, HandlerIsCaller DEF CollectorsTypeOK, IInv, TypeOK
    <3> QED
      BY <2>1, <3>1, <3>3
  <2>3. CASE rows[watches[r]] # "deleted"
    <3>1. watches[r] = i
      BY <2>1, <2>3 DEF IInv, TypeOK
    <3>2. CASE runs[i] = r
      BY <2>1, <3>1, <3>2, HandlerIsCaller DEF CollectorsTypeOK, IInv, TypeOK
    <3>3. CASE runs[i] # r
      <4>1. PICK d \in Handlers : r \in joins[d] /\ stage[d] \in {"cancel", "join"}
        BY <2>1, <3>1, <3>3 DEF NoLostRunner
      <4>2. pc[d] = "idle" /\ d # c
        BY <2>1, <2>3, <3>1, <4>1 DEF HandlerInv
      <4> QED
        BY <2>1, <4>1, <4>2, HandlerIsCaller DEF IInv, TypeOK
    <3> QED
      BY <3>2, <3>3
  <2> QED
    BY <2>2, <2>3
<1> QED
  BY <1>1, <1>2, <1>3, <1>4

\* Stop moves the runner of its own connection from the map to its own list.
LEMMA StopRunnerInv ==
    ASSUME RunnerInv, IInv, CollectorsTypeOK', NEW c \in Handlers, StopRunner(c)
    PROVE  RunnerInv'
<1> USE DEF RunnerInv
<1>1. /\ UNCHANGED <<rows, pc, conn, life, watches, cancelled, target>>
      /\ stage[c] = "stop" /\ joins[c] = {}
      /\ pc[c] = "purge" /\ target[c] = conn[c] /\ conn[c] \in Conns
      /\ stage' = [stage EXCEPT ![c] = IF runs[conn[c]] = None THEN "none" ELSE "cancel"]
      /\ joins' = [joins EXCEPT ![c] = {runs[conn[c]]} \ {None}]
      /\ runs' = [runs EXCEPT ![conn[c]] = None]
  BY DEF StopRunner, ToStage, HandlerInv, vars, ownVars
<1>2. runs[conn[c]] # None =>
        /\ runs[conn[c]] \in Runners /\ watches[runs[conn[c]]] = conn[c]
        /\ Alive(runs[conn[c]])
  BY <1>1 DEF MapInv, CollectorsTypeOK
<1>3. HandlerInv'
  BY <1>1, <1>2 DEF HandlerInv, CollectorsTypeOK, Alive
<1>4. MapInv' /\ LifeInv'
  BY <1>1, <1>2 DEF MapInv, LifeInv, Alive, CollectorsTypeOK
<1>5. NoLostRunner'
  BY <1>1, <1>2 DEF NoLostRunner, Alive, CollectorsTypeOK, HandlerInv
<1>6. DeletedInv'
  BY <1>1, <1>2 DEF DeletedInv, PastReveal, CollectorsTypeOK
<1> QED
  BY <1>3, <1>4, <1>5, <1>6

\* Shutdown moves every runner in the map to its list, from a handler that
\* deletes nothing.
LEMMA ShutdownRunnersInv ==
    ASSUME RunnerInv, IInv, CollectorsTypeOK', NEW c \in Handlers, ShutdownRunners(c)
    PROVE  RunnerInv'
<1> USE DEF RunnerInv
<1>1. /\ UNCHANGED <<rows, pc, conn, life, watches, cancelled, target>>
      /\ stage[c] = "none" /\ joins[c] = {} /\ pc[c] = "idle"
      /\ stage' = [stage EXCEPT ![c] = "cancel"]
      /\ joins' = [joins EXCEPT ![c] = {runs[i] : i \in Conns} \ {None}]
      /\ runs' = [i \in Conns |-> None]
  BY DEF ShutdownRunners, ToStage, HandlerInv, vars, ownVars
<1>2. \A i \in Conns : runs[i] # None =>
        runs[i] \in Runners /\ watches[runs[i]] = i /\ Alive(runs[i]) /\ runs[i] \in joins'[c]
  BY <1>1 DEF MapInv, CollectorsTypeOK
<1>3. HandlerInv'
  BY <1>1, <1>2 DEF HandlerInv, CollectorsTypeOK, Alive, LifeInv
<1>4. MapInv' /\ LifeInv'
  BY <1>1 DEF MapInv, LifeInv, Alive, CollectorsTypeOK
<1>5. NoLostRunner'
  <2> SUFFICES ASSUME NEW r \in Runners, Alive(r)
               PROVE  \E d \in Handlers : (r \in joins[d] /\ stage[d] \in {"cancel", "join"})'
    BY <1>1 DEF NoLostRunner, Alive
  <2>1. CASE runs[watches[r]] = r
    <3>1. watches[r] \in Conns
      BY DEF LifeInv, Alive
    <3> QED
      BY <1>1, <1>2, <2>1, <3>1 DEF CollectorsTypeOK
  <2>2. CASE runs[watches[r]] # r
    <3>1. PICK d \in Handlers : r \in joins[d] /\ stage[d] \in {"cancel", "join"}
      BY <2>2 DEF NoLostRunner
    <3> QED
      BY <1>1, <3>1 DEF CollectorsTypeOK
  <2> QED
    BY <2>1, <2>2
<1>6. DeletedInv'
  BY <1>1, <1>2, RunnerIsCaller DEF DeletedInv, PastReveal, CollectorsTypeOK, LifeInv
<1> QED
  BY <1>3, <1>4, <1>5, <1>6

\* Cancelling, and waiting until every runner on the list has ended.
LEMMA CancelJoinInv ==
    ASSUME RunnerInv, IInv, CollectorsTypeOK', NEW c \in Handlers,
           CancelRunners(c) \/ JoinRunners(c)
    PROVE  RunnerInv'
<1> USE DEF RunnerInv
<1>1. /\ UNCHANGED <<rows, pc, conn, life, watches, runs, target>>
      /\ stage[c] \in {"cancel", "join"} /\ pc[c] \in {"idle", "purge"}
  <2>1. CASE CancelRunners(c)
    BY <2>1 DEF CancelRunners, ToStage, HandlerInv, vars, ownVars
  <2>2. CASE JoinRunners(c)
    BY <2>2 DEF JoinRunners, ToStage, HandlerInv, vars, ownVars, runnerVars
  <2> QED
    BY <2>1, <2>2
<1>2. CASE CancelRunners(c)
  <2>1. stage' = [stage EXCEPT ![c] = "join"] /\ cancelled' = cancelled \cup joins[c] /\ joins' = joins
    BY <1>2 DEF CancelRunners, ToStage
  <2>2. HandlerInv' /\ LifeInv'
    BY <1>1, <2>1 DEF HandlerInv, LifeInv, CollectorsTypeOK
  <2>3. NoLostRunner'
    BY <1>1, <2>1 DEF NoLostRunner, Alive, CollectorsTypeOK
  <2>4. DeletedInv'
    BY <1>1, <2>1 DEF DeletedInv, PastReveal, CollectorsTypeOK
  <2>5. MapInv'
    BY <1>1, <2>1 DEF HandlerInv, MapInv, Alive
  <2> QED
    BY <2>2, <2>3, <2>4, <2>5
<1>3. CASE JoinRunners(c)
  <2>1. /\ \A r \in joins[c] : life[r] = "done"
        /\ stage[c] = "join" /\ cancelled' = cancelled
        /\ stage' = [stage EXCEPT ![c] = IF pc[c] = "purge" THEN "none" ELSE "pools"]
        /\ joins' = [joins EXCEPT ![c] = {}]
    BY <1>3 DEF JoinRunners, ToStage, runnerVars
  <2>2. HandlerInv' /\ MapInv' /\ LifeInv' /\ NoLostRunner'
    BY <1>1, <2>1 DEF HandlerInv, MapInv, LifeInv, NoLostRunner, Alive, CollectorsTypeOK
  <2>3. DeletedInv'
    BY <1>1, <2>1 DEF DeletedInv, LifeInv, PastReveal, CollectorsTypeOK
  <2> QED
    BY <2>2, <2>3
<1> QED
  BY <1>2, <1>3

LEMMA ShutdownPoolsInv ==
    ASSUME RunnerInv, IInv, CollectorsTypeOK', NEW c \in Handlers, ShutdownPools(c)
    PROVE  RunnerInv'
<1> USE DEF RunnerInv
<1>1. /\ UNCHANGED <<rows, conn, runs, life, watches, cancelled, target, joins>>
      /\ stage[c] = "pools" /\ stage' = [stage EXCEPT ![c] = "none"]
      /\ pc[c] = "idle" /\ pc' = [pc EXCEPT ![c] = "close"]
      /\ joins[c] = {}
  BY DEF ShutdownPools, Shutdown, ToStage, Goto, runnerVars, HandlerInv
<1>2. HandlerInv'
  BY <1>1, HandlerIsCaller DEF HandlerInv, CollectorsTypeOK, IInv, TypeOK
<1>3. MapInv' /\ NoLostRunner'
  BY <1>1 DEF MapInv, NoLostRunner, Alive, CollectorsTypeOK
<1>4. LifeInv'
  BY <1>1, RunnerIsCaller, HandlerIsCaller DEF LifeInv, IInv, TypeOK
<1>5. DeletedInv'
  <2>1. c \in Callers /\ \A d \in Callers : d # c => pc'[d] = pc[d]
    BY <1>1, HandlerIsCaller DEF IInv, TypeOK
  <2>2. \A r \in Runners : PastReveal(r)' => PastReveal(r)
    BY <2>1, RunnerIsCaller, HandlerIsCaller DEF PastReveal
  <2>3. \A d \in Handlers, r \in Runners : r \in joins[d] => d # c
    BY <1>1
  <2>4. \A d \in Handlers : pc[d] = "purge" => d # c
    BY <1>1
  <2>5. \A d \in Handlers : d # c => stage'[d] = stage[d]
    BY <1>1 DEF CollectorsTypeOK
  <2> QED
    BY <1>1, <2>1, <2>2, <2>3, <2>4, <2>5, HandlerIsCaller DEF DeletedInv
<1> QED
  BY <1>2, <1>3, <1>4, <1>5

-----------------------------------------------------------------------------
(* The theorems about Collectors. *)

LEMMA CollectorsTypes ==
    ASSUME RunnerInv, TypeOK', [CollectorsNext]_allVars
    PROVE  CollectorsTypeOK'
<1> USE DEF RunnerInv, CollectorsTypeOK, Life, Stage
<1>1. CASE UNCHANGED allVars
  BY <1>1 DEF allVars, runnerVars, stageVars
<1>2. ASSUME NEW c \in Handlers, NEW i \in Conns, CreateConnection(c, i) \/ DeleteConnection(c, i)
      PROVE  CollectorsTypeOK'
  BY <1>2 DEF CreateConnection, DeleteConnection, ToStage, runnerVars
<1>3. ASSUME NEW c \in Handlers, StartRunner(c) PROVE CollectorsTypeOK'
  BY <1>3 DEF StartRunner, ToStage, HandlerInv
<1>4. ASSUME NEW c \in Handlers, StopRunner(c) \/ ShutdownRunners(c) PROVE CollectorsTypeOK'
  BY <1>4 DEF StopRunner, ShutdownRunners, ToStage, HandlerInv
<1>5. ASSUME NEW c \in Handlers, CancelRunners(c) \/ JoinRunners(c) \/ ShutdownPools(c)
      PROVE  CollectorsTypeOK'
  BY <1>5 DEF CancelRunners, JoinRunners, ShutdownPools, ToStage, runnerVars
<1>6. ASSUME NEW c \in Handlers, HandlerPoolStep(c) PROVE CollectorsTypeOK'
  BY <1>6 DEF HandlerPoolStep, runnerVars, stageVars
<1>7. ASSUME NEW r \in Runners, Tick(r) \/ RunnerPoolStep(r) \/ Exit(r) PROVE CollectorsTypeOK'
  BY <1>7 DEF Tick, RunnerPoolStep, Exit, runnerVars, stageVars
<1> QED
  BY <1>1, <1>2, <1>3, <1>4, <1>5, <1>6, <1>7 DEF CollectorsNext, StageStep

LEMMA CollectorsNextInv ==
    ASSUME RunnerInv, IInv, [CollectorsNext]_allVars
    PROVE  RunnerInv' /\ IInv' /\ [Next]_vars
<1>1. [Next]_vars
  BY CollectorsStep
<1>2. IInv'
  BY <1>1, NextInv
<1>3. CollectorsTypeOK'
  BY <1>2, CollectorsTypes DEF IInv
<1>4. RunnerInv'
  <2>1. CASE UNCHANGED allVars
    BY <1>3, <2>1 DEF allVars, vars, cacheVars, ownVars, runnerVars, stageVars, RunnerInv, HandlerInv,
       MapInv, LifeInv, NoLostRunner, DeletedInv, PastReveal, Alive
  <2> QED
    BY <1>3, <2>1, CreateConnectionInv, DeleteConnectionInv, ShutdownRunnersInv, StartRunnerInv,
       StopRunnerInv, CancelJoinInv, ShutdownPoolsInv, HandlerPoolStepInv, RunnerStepInv, ExitInv
    DEF CollectorsNext, StageStep
<1> QED
  BY <1>1, <1>2, <1>4

THEOREM CollectorsInvariance == CollectorsSpec => [](RunnerInv /\ IInv)
<1> QED
  BY InitRunnerInv, CollectorsNextInv, PTL DEF CollectorsSpec

\* The composition of the managers does to the pools only what PoolManager allows.
THEOREM CollectorsImplementPoolManager == CollectorsSpec => PoolManagerSpec
<1>1. CollectorsInit => Init
  BY CollectorsInitIsInit
<1>2. RunnerInv /\ IInv /\ [CollectorsNext]_allVars => [Next]_vars
  BY CollectorsNextInv
<1> QED
  BY <1>1, <1>2, CollectorsInvariance, PTL DEF CollectorsSpec, PoolManagerSpec, Spec

\* A pool appears in the cache where there was none only when its opener stores it.
LEMMA OnlyStoreCaches ==
    ASSUME IInv, [Next]_vars, NEW i \in Conns, pools[i] = None, pools'[i] # None
    PROVE  \E c \in Callers : pc[c] = "store" /\ conn[c] = i /\ pools'[i] = mine[c] /\ mine[c] # None
<1>1. CASE UNCHANGED pools
  BY <1>1
<1>2. ASSUME NEW c \in Callers, Store(c)
      PROVE  pc[c] = "store" /\ conn[c] = i /\ pools'[i] = mine[c] /\ mine[c] # None
  BY <1>2 DEF IInv, TypeOK, Store, Goto
<1>3. ASSUME NEW c \in Callers, CloseConn(c) \/ Shutdown(c) PROVE FALSE
  BY <1>3 DEF IInv, TypeOK, CloseConn, Shutdown
<1> QED
  BY <1>1, <1>2, <1>3
  DEF Next, vars, cacheVars, OpenStep, CloseStep, CreateRow, OpenHit, OpenMiss,
      DeleteRow, Reveal, RevealFails, OpenTunnel, OpenTunnelFails, OpenPool,
      OpenPoolFails, StoreLost, Acquire, Release, Finish, BeginClosePool,
      EndClosePool, CloseTunnel, CloseDone

\* Once CloseConn has run, no collector brings the pool of the connection back.
THEOREM CollectorsNeverRevive == CollectorsSpec => CollectorNeverRevives
<1> DEFINE Revives(r, i) ==
      /\ rows[i] = "deleted"
      /\ \A c \in Handlers : ~ (pc[c] = "purge" /\ conn[c] = i)
      /\ pools[i] = None
      /\ ~ ShuttingDown(r)
<1> DEFINE Never == \A r \in Runners, i \in Conns :
      Revives(r, i) => pools'[i] = None \/ pools'[i] # mine[r]
<1>1. ASSUME RunnerInv, IInv, [CollectorsNext]_allVars PROVE Never
  <2> SUFFICES ASSUME NEW r \in Runners, NEW i \in Conns, Revives(r, i),
                      pools'[i] # None, pools'[i] = mine[r]
               PROVE  FALSE
    OBVIOUS
  <2>1. [Next]_vars
    BY <1>1, CollectorsStep
  <2>2. PICK c \in Callers : pc[c] = "store" /\ conn[c] = i /\ pools'[i] = mine[c] /\ mine[c] # None
    BY <1>1, <2>1, OnlyStoreCaches
  <2>3. c = r
    BY <1>1, <2>2, RunnerIsCaller DEF IInv, OwnerInv
  <2>4. PastReveal(r) /\ watches[r] = i
    BY <1>1, <2>2, <2>3 DEF RunnerInv, LifeInv, PastReveal
  <2> QED
    BY <1>1, <2>4 DEF RunnerInv, DeletedInv, ShuttingDown
<1>2. RunnerInv /\ IInv /\ [CollectorsNext]_allVars => [Never]_allVars
  BY <1>1
<1> QED
  BY <1>2, CollectorsInvariance, PTL DEF CollectorsSpec, CollectorNeverRevives, Revives

-----------------------------------------------------------------------------
(* Serve implements Collectors. *)

USE ServeAssumption

LEMMA RequestIsHandler ==
    ASSUME NEW c \in Requests
    PROVE  c \in Handlers /\ c # Closer /\ c # Scanner /\ c \in Writers
  BY HandlerIsCaller DEF Requests, Writers

LEMMA ServeInitIsInit == ServeInit => CollectorsInit
  BY DEF ServeInit

\* The main goroutine and the shutdown goroutine act as one handler; drafts, the
\* signal and the server only hold steps of Collectors back.
LEMMA ServeStep ==
    ASSUME [ServeNext]_everyVars
    PROVE  [CollectorsNext]_allVars
<1>1. CASE UNCHANGED everyVars
  BY <1>1 DEF everyVars
<1>2. ASSUME NEW i \in Conns, BootConnection(i) PROVE CollectorsNext
  BY <1>2 DEF BootConnection, CollectorsNext
<1>3. CASE BootStart
  BY <1>3 DEF BootStart, CollectorsNext, StageStep
<1>4. CASE MainStep \/ Signal \/ ScannerEnds
  BY <1>4 DEF MainStep, Launch, Listen, ListenFails, ServeReturns, WindDown, Signal, ScannerEnds
<1>5. CASE ClosingStep
  <2>1. CASE StopScanner \/ JoinScanner \/ CloseServer \/ Drained
    BY <2>1 DEF StopScanner, JoinScanner, CloseServer, Drained
  <2>2. CASE CloseRunners
    BY <2>2 DEF CloseRunners, CollectorsNext
  <2>3. CASE CloseOn
    BY <2>3 DEF CloseOn, CollectorsNext, HandlerPoolStep
  <2> QED
    BY <1>5, <2>1, <2>2, <2>3 DEF ClosingStep
<1>6. ASSUME NEW w \in Writers, Seal(w) \/ BeginWrite(w) \/ EndWrite(w) PROVE UNCHANGED allVars
  BY <1>6 DEF Seal, BeginWrite, EndWrite
<1>7. ASSUME NEW c \in Requests, NEW i \in Conns, Create(c, i) \/ Delete(c, i) PROVE CollectorsNext
  BY <1>7, RequestIsHandler DEF Create, Delete, CollectorsNext
<1>8. ASSUME NEW c \in Requests, Accept(c) \/ Answer(c) PROVE UNCHANGED allVars
  BY <1>8 DEF Accept, Answer
<1>9. ASSUME NEW c \in Requests, RequestStep(c) PROVE CollectorsNext
  BY <1>9, RequestIsHandler DEF RequestStep, CollectorsNext
<1>10. ASSUME NEW r \in Runners, RunnerStep(r) PROVE CollectorsNext
  BY <1>10 DEF RunnerStep, CollectorsNext
<1> QED
  BY <1>1, <1>2, <1>3, <1>4, <1>5, <1>6, <1>7, <1>8, <1>9, <1>10 DEF ServeNext

\* `dbil serve` does to the managers only what Collectors allows ...
THEOREM ServeImplementsCollectors == ServeSpec => CollectorsSpec
  BY ServeInitIsInit, ServeStep, PTL DEF ServeSpec, CollectorsSpec

\* ... hence to the pools only what PoolManager allows, ...
THEOREM ServeImplementsPoolManager == ServeSpec => PoolManagerSpec
  BY ServeImplementsCollectors, CollectorsImplementPoolManager

\* ... no collector is lost while requests and the shutdown start and stop them, ...
THEOREM ServeLosesNoRunner == ServeSpec => []NoLostRunner
<1>1. RunnerInv => NoLostRunner
  BY DEF RunnerInv
<1> QED
  BY <1>1, ServeImplementsCollectors, CollectorsInvariance, PTL

\* ... and none brings the pool of a deleted connection back.
THEOREM ServeNeverRevives == ServeSpec => CollectorNeverRevives
  BY ServeImplementsCollectors, CollectorsNeverRevive

-----------------------------------------------------------------------------
(* The order of the shutdown, and the key. *)

\* The key is wiped only after the database is closed.
KeyInv ==
    /\ mk = "zeroes" => db = "closed"
    /\ \A w \in Writers :
         /\ draft[w].key = "zeroes" => mk = "zeroes"
         /\ draft[w].at = "begun" => draft[w].key = "key"

\* Each stage of the shutdown has finished the stages before it.
ClosingInv ==
    /\ main = "boot" => closing = "wait" /\ server = "nil"
    /\ closing \notin {"wait", "scanner"} => scanner # "loop"
    /\ server = "down" => closing \in {"drain", "over"}
    /\ closing \in {"drain", "over"} => stage[Closer] = "none" /\ pc[Closer] = "idle"

ServeInv ==
    /\ ServeTypeOK
    /\ KeyInv
    /\ ClosingInv

\* What a request does leaves the place of every other handler alone.
LEMMA OtherPlaces ==
    ASSUME RunnerInv, IInv, NEW c \in Callers,
           \/ c \in Handlers /\ (StageStep(c) \/ HandlerPoolStep(c))
           \/ c \in Handlers /\ \E i \in Conns : CreateConnection(c, i) \/ DeleteConnection(c, i)
           \/ c \in Runners /\ (Tick(c) \/ RunnerPoolStep(c) \/ Exit(c)),
           NEW d \in Handlers, d # c
    PROVE  pc'[d] = pc[d] /\ stage'[d] = stage[d]
<1> USE DEF RunnerInv, CollectorsTypeOK, IInv, TypeOK, ToStage, Goto
<1>0. d \in Callers
  BY HandlerIsCaller
<1>1. CASE c \in Handlers /\ StageStep(c)
  BY <1>0, <1>1 DEF StageStep, StartRunner, StopRunner, CancelRunners, JoinRunners, ShutdownPools,
     Shutdown, vars, ownVars
<1>2. CASE c \in Handlers /\ HandlerPoolStep(c)
  <2>1. PoolStep(c) /\ UNCHANGED stageVars
    BY <1>2 DEF HandlerPoolStep, PoolStep
  <2> QED
    BY <1>0, <2>1, PoolStepFrame DEF stageVars
<1>3. CASE c \in Handlers /\ \E i \in Conns : CreateConnection(c, i) \/ DeleteConnection(c, i)
  BY <1>0, <1>3 DEF CreateConnection, DeleteConnection, CreateRow, DeleteRow, ownVars
<1>4. CASE c \in Runners /\ (Tick(c) \/ RunnerPoolStep(c))
  <2>1. PoolStep(c) /\ UNCHANGED stageVars
    BY <1>4 DEF Tick, RunnerPoolStep, PoolStep, LifeInv
  <2> QED
    BY <1>0, <2>1, PoolStepFrame DEF stageVars
<1>5. CASE c \in Runners /\ Exit(c)
  BY <1>5 DEF Exit, vars, stageVars
<1> QED
  BY <1>1, <1>2, <1>3, <1>4, <1>5

LEMMA ServeInitInv == ServeInit => ServeInv
<1> SUFFICES ASSUME ServeInit PROVE ServeInv
  OBVIOUS
<1>1. CollectorsTypeOK
  BY InitRunnerInv DEF ServeInit, RunnerInv
<1>2. ServeTypeOK
  BY <1>1 DEF ServeInit, ServeTypeOK, Draft, NoDraft
<1>3. KeyInv /\ ClosingInv
  BY DEF ServeInit, KeyInv, ClosingInv, NoDraft
<1> QED
  BY <1>2, <1>3 DEF ServeInv

\* The steps of main, of the signal and of the shutdown goroutine that leave the
\* managers alone.
LEMMA ProcessStepInv ==
    ASSUME ServeInv, RunnerInv',
           MainStep \/ Signal \/ StopScanner \/ JoinScanner \/ CloseServer \/ Drained \/ ScannerEnds
    PROVE  ServeInv'
<1> USE DEF ServeInv, ServeTypeOK
<1>1. UNCHANGED <<allVars, draft>>
  BY DEF MainStep, Launch, Listen, ListenFails, ServeReturns, WindDown, Signal, StopScanner,
     JoinScanner, CloseServer, Drained, ScannerEnds
<1>2. ServeTypeOK'
  <2>1. CollectorsTypeOK' /\ (draft \in [Writers -> Draft])'
    BY <1>1 DEF RunnerInv
  <2>2. CASE MainStep
    BY <2>1, <2>2 DEF MainStep, Launch, Listen, ListenFails, ServeReturns, WindDown
  <2>3. CASE Signal
    BY <2>1, <2>3 DEF Signal, processVars
  <2>4. CASE ScannerEnds
    BY <2>1, <2>4 DEF ScannerEnds, processVars
  <2>5. CASE StopScanner \/ JoinScanner \/ Drained
    BY <2>1, <2>5 DEF StopScanner, JoinScanner, Drained, ClosingTo, processVars
  <2>6. CASE CloseServer
    BY <2>1, <2>6 DEF CloseServer, ClosingTo, processVars
  <2> QED
    BY <2>2, <2>3, <2>4, <2>5, <2>6
<1>3. KeyInv'
  <2>1. CASE WindDown
    <3>1. \/ db' = "closed" /\ mk' = mk
          \/ db = "closed" /\ db' = db /\ mk' = "zeroes"
          \/ db' = db /\ mk' = mk
      BY <2>1 DEF WindDown
    <3> QED
      BY <1>1, <3>1 DEF KeyInv
  <2>2. CASE ~ WindDown
    <3>1. UNCHANGED <<db, mk>>
      BY <2>2 DEF MainStep, Launch, Listen, ListenFails, ServeReturns, Signal, StopScanner,
         JoinScanner, CloseServer, Drained, ScannerEnds, processVars
    <3> QED
      BY <1>1, <3>1 DEF KeyInv
  <2> QED
    BY <2>1, <2>2
<1>4. ClosingInv'
  BY <1>1 DEF MainStep, Launch, Listen, ListenFails, ServeReturns, WindDown, Signal, StopScanner,
     JoinScanner, CloseServer, Drained, ScannerEnds, ClosingTo, processVars, ClosingInv, allVars,
     vars, stageVars
<1> QED
  BY <1>2, <1>3, <1>4

\* The steps of the shutdown goroutine, and of main before it, in the managers.
LEMMA CloserStepInv ==
    ASSUME ServeInv, RunnerInv',
           (\E i \in Conns : BootConnection(i)) \/ BootStart \/ CloseRunners \/ CloseOn
    PROVE  ServeInv'
<1> USE DEF ServeInv, ServeTypeOK, ClosingTo, serveVars, processVars
<1>1. /\ UNCHANGED <<main, db, mk, signalled, server, inflight, scanner, draft>>
      /\ \/ main = "boot" /\ closing' = closing
         \/ closing \in {"runners", "pools"} /\ closing' = "pools"
  BY DEF BootConnection, BootStart, CloseRunners, CloseOn
<1>2. ServeTypeOK' /\ KeyInv' /\ ClosingInv'
  BY <1>1 DEF RunnerInv, KeyInv, ClosingInv
<1> QED
  BY <1>2

\* Requests and runners: nothing is written once the database is closed.
LEMMA WriterStepInv ==
    ASSUME ServeInv, RunnerInv, IInv, RunnerInv',
           \/ \E w \in Writers : Seal(w) \/ BeginWrite(w) \/ EndWrite(w)
           \/ \E c \in Requests : \E i \in Conns : Create(c, i)
    PROVE  ServeInv'
<1> USE DEF ServeInv, ServeTypeOK, ToDraft, processVars
<1>1. UNCHANGED <<main, db, mk, signalled, closing, server, inflight, scanner>>
  BY DEF Seal, BeginWrite, EndWrite, Create
<1>2. draft' \in [Writers -> Draft]
  BY RequestIsHandler DEF Seal, BeginWrite, EndWrite, Create, NoDraft, Draft
<1>3. KeyInv'
  BY <1>1, RequestIsHandler DEF Seal, BeginWrite, EndWrite, Create, NoDraft, KeyInv, Draft
<1>4. pc'[Closer] = pc[Closer] /\ stage'[Closer] = stage[Closer]
  <2>1. ASSUME NEW c \in Requests, NEW i \in Conns, Create(c, i)
        PROVE  pc'[Closer] = pc[Closer] /\ stage'[Closer] = stage[Closer]
    BY <2>1, OtherPlaces, RequestIsHandler, HandlerIsCaller DEF Create
  <2> QED
    BY <2>1 DEF Seal, BeginWrite, EndWrite, allVars, vars, stageVars
<1>5. ClosingInv'
  BY <1>1, <1>4 DEF ClosingInv
<1> QED
  BY <1>1, <1>2, <1>3, <1>5 DEF RunnerInv

LEMMA RequestStepInv ==
    ASSUME ServeInv, RunnerInv, IInv, RunnerInv',
           \/ \E c \in Requests :
                \/ \E i \in Conns : Delete(c, i)
                \/ Accept(c) \/ Answer(c) \/ RequestStep(c)
           \/ \E r \in Runners : RunnerStep(r)
    PROVE  ServeInv'
<1> USE DEF ServeInv, ServeTypeOK, processVars, serveVars
<1>1. /\ UNCHANGED <<main, db, mk, signalled, closing, server, scanner, draft>>
      /\ inflight' \subseteq Requests
  BY DEF Delete, Accept, Answer, RequestStep, RunnerStep
<1>2. pc'[Closer] = pc[Closer] /\ stage'[Closer] = stage[Closer]
  <2>1. ASSUME NEW c \in Requests, RequestStep(c) \/ \E i \in Conns : Delete(c, i)
        PROVE  pc'[Closer] = pc[Closer] /\ stage'[Closer] = stage[Closer]
    BY <2>1, OtherPlaces, RequestIsHandler, HandlerIsCaller DEF RequestStep, Delete
  <2>2. ASSUME NEW r \in Runners, RunnerStep(r)
        PROVE  pc'[Closer] = pc[Closer] /\ stage'[Closer] = stage[Closer]
    BY <2>2, OtherPlaces, RunnerIsCaller, HandlerIsCaller DEF RunnerStep
  <2> QED
    BY <2>1, <2>2 DEF Accept, Answer, allVars, vars, stageVars
<1>3. KeyInv' /\ ClosingInv'
  BY <1>1, <1>2 DEF KeyInv, ClosingInv
<1> QED
  BY <1>1, <1>3 DEF RunnerInv

LEMMA ServeNextInv ==
    ASSUME ServeInv, RunnerInv, IInv, RunnerInv', [ServeNext]_everyVars
    PROVE  ServeInv'
<1>1. CASE UNCHANGED everyVars
  BY <1>1 DEF everyVars, serveVars, processVars, allVars, vars, stageVars, runnerVars, ServeInv,
     ServeTypeOK, KeyInv, ClosingInv, RunnerInv
<1> QED
  BY <1>1, ProcessStepInv, CloserStepInv, WriterStepInv, RequestStepInv DEF ServeNext, ClosingStep

THEOREM ServeInvariance == ServeSpec => [](ServeInv /\ RunnerInv /\ IInv)
<1>1. ServeSpec => [](RunnerInv /\ IInv)
  BY ServeImplementsCollectors, CollectorsInvariance
<1>2. ServeInit => ServeInv
  BY ServeInitInv
<1>3. ServeInv /\ RunnerInv /\ IInv /\ RunnerInv' /\ [ServeNext]_everyVars => ServeInv'
  BY ServeNextInv
<1> QED
  BY <1>1, <1>2, <1>3, PTL DEF ServeSpec

\* The types of the whole command's state.
THEOREM ServeTypes == ServeSpec => []ServeTypeOK
<1>1. ServeInv => ServeTypeOK
  BY DEF ServeInv
<1> QED
  BY <1>1, ServeInvariance, PTL

\* No row that was sealed after mk.Wipe is ever written.
THEOREM WritesAreSealedUnderTheKey == ServeSpec => []SealedUnderTheKey
<1>1. ServeInv => SealedUnderTheKey
  BY DEF ServeInv, KeyInv, SealedUnderTheKey
<1> QED
  BY <1>1, ServeInvariance, PTL

\* When the server stops, discovery, the collectors and the pools of the time of
\* the signal are gone.
THEOREM ShutdownIsInOrder == ServeSpec => []ShutdownInOrder
<1>1. ASSUME ServeInv, RunnerInv, IInv PROVE ShutdownInOrder
  <2> SUFFICES ASSUME server = "down" PROVE ShutdownInOrder
    BY DEF ShutdownInOrder
  <2>1. /\ closing \in {"drain", "over"} /\ scanner # "loop"
        /\ stage[Closer] = "none" /\ pc[Closer] = "idle"
    BY <1>1 DEF ServeInv, ClosingInv
  <2>2. joins[Closer] = {} /\ deadPools[Closer] = {} /\ deadTunnels[Closer] = {}
    BY <1>1, <2>1, HandlerIsCaller DEF RunnerInv, HandlerInv, IInv, PlaceInv
  <2>3. \A r \in Runners : Alive(r) =>
          runs[watches[r]] = r \/ \E c \in Requests : r \in joins[c]
    BY <1>1, <2>2 DEF RunnerInv, NoLostRunner, Requests
  <2> QED
    BY <2>1, <2>2, <2>3 DEF ShutdownInOrder
<1> QED
  BY <1>1, ServeInvariance, PTL
===============================================================================
