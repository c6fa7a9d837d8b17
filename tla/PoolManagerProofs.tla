--------------------------- MODULE PoolManagerProofs ---------------------------
(***************************************************************************)
(* Proofs about PoolManager, for any number of callers, connections and    *)
(* open attempts.  The argument is one of ownership: at every moment an    *)
(* open pool or tunnel has exactly one owner (the attempt that is opening  *)
(* it, the cache, or the goroutine that took it out to close it), and every*)
(* action moves it from one owner to the next.                             *)
(***************************************************************************)
EXTENDS PoolManager, TLAPS

\* What each place in the code implies about the caller's own variables.
PlaceInv ==
    \A c \in Callers :
        /\ pc[c] \notin {"open", "store"} => mine[c] = None
        /\ pc[c] # "close" => deadPools[c] = {} /\ deadTunnels[c] = {}
        /\ pc[c] \in Opening \cup {"purge"} => conn[c] \in Conns
        /\ pc[c] \in {"hold", "busy"} => held[c] \in Handles
        /\ held[c] # None => pc[c] \in {"hold", "busy", "close"} /\ conn[c] \in Conns

\* A handle before it is published.
MineInv ==
    \A c \in Callers :
        /\ pc[c] = "tunnel" => conn[c] \in Tunnelled
        /\ pc[c] = "open" => IF conn[c] \in Tunnelled
                             THEN /\ mine[c] \in Handles
                                  /\ poolState[mine[c]] = "unused"
                                  /\ tunnelState[mine[c]] = "open"
                             ELSE mine[c] = None
        /\ pc[c] = "store" => /\ mine[c] \in Handles
                              /\ poolState[mine[c]] = "open"
                              /\ tunnelState[mine[c]] =
                                   IF conn[c] \in Tunnelled THEN "open" ELSE "unused"

\* A published handle.
CacheInv ==
    \A i \in Conns :
        /\ pools[i] # None =>
             /\ poolState[pools[i]] = "open"
             /\ tunnelState[pools[i]] = IF i \in Tunnelled THEN "open" ELSE "unused"
        /\ tunnels[i] = IF i \in Tunnelled THEN pools[i] ELSE None

\* A handle that is being closed: the pool goes before the tunnel.
DeadInv ==
    \A c \in Callers, h \in Handles :
        /\ h \in deadPools[c] => /\ poolState[h] \in {"open", "closing"}
                                 /\ h \in deadTunnels[c] \/ tunnelState[h] = "unused"
        /\ h \in deadTunnels[c] => /\ tunnelState[h] = "open"
                                   /\ h \in deadPools[c] \/ poolState[h] = "closed"

\* A handle has one owner.
OwnerInv ==
    /\ \A c, d \in Callers : mine[c] # None /\ mine[c] = mine[d] => c = d
    /\ \A i, j \in Conns : pools[i] # None /\ pools[i] = pools[j] => i = j
    /\ \A c \in Callers, i \in Conns : mine[c] # None => mine[c] # pools[i]
    /\ \A c, d \in Callers : mine[c] # None =>
         mine[c] \notin deadPools[d] /\ mine[c] \notin deadTunnels[d]
    /\ \A i \in Conns, c \in Callers : pools[i] # None =>
         pools[i] \notin deadPools[c] /\ pools[i] \notin deadTunnels[c]
    /\ \A c, d \in Callers, h \in Handles :
         /\ h \in deadPools[c] \cup deadTunnels[c]
         /\ h \in deadPools[d] \cup deadTunnels[d]
         => c = d

\* A pool that OpenByID returned.
HeldInv ==
    \A c \in Callers : held[c] # None =>
        /\ pools[conn[c]] = held[c] \/ Retired(held[c])
        /\ poolState[held[c]] # "unused"
        /\ pc[c] = "busy" => poolState[held[c]] # "closed"
        /\ conn[c] \in Tunnelled /\ poolState[held[c]] # "closed"
             => tunnelState[held[c]] = "open"

IInv ==
    /\ TypeOK
    /\ PlaceInv
    /\ MineInv
    /\ CacheInv
    /\ DeadInv
    /\ OwnerInv
    /\ HeldInv
    /\ NoLeakedPool
    /\ NoLeakedTunnel

-----------------------------------------------------------------------------
(* One lemma per action: it preserves the inductive invariant.  The conjuncts *)
(* whose variables the action leaves alone are one step.                      *)

USE PoolAssumption

\* A new row touches no pool.
LEMMA CreateRowInv ==
    ASSUME IInv, NEW i \in Conns, CreateRow(i)
    PROVE  IInv'
<1>1. TypeOK'
  BY DEF IInv, TypeOK, CreateRow, cacheVars, handleVars, ownVars, RowState,
         PoolState, TunnelState, Opening, Place
<1>2. (PlaceInv /\ MineInv /\ CacheInv /\ DeadInv /\ OwnerInv /\ HeldInv /\ NoLeakedPool /\ NoLeakedTunnel)'
  BY DEF IInv, PlaceInv, MineInv, CacheInv, DeadInv, OwnerInv, HeldInv,
         NoLeakedPool, NoLeakedTunnel, CreateRow, cacheVars, handleVars,
         ownVars, Retired
<1> QED
  BY <1>1, <1>2 DEF IInv

\* A cache hit hands out the published pool.
LEMMA OpenHitInv ==
    ASSUME IInv, NEW c \in Callers, NEW i \in Conns, OpenHit(c, i)
    PROVE  IInv'
<1>1. TypeOK'
  BY DEF IInv, TypeOK, OpenHit, Goto, cacheVars, handleVars, RowState,
         PoolState, TunnelState, Opening, Place
<1>2. PlaceInv'
  BY DEF IInv, TypeOK, PlaceInv, OpenHit, Goto, cacheVars, handleVars, Opening
<1>3. MineInv'
  BY DEF IInv, TypeOK, PlaceInv, MineInv, CacheInv, DeadInv, OwnerInv, OpenHit,
         Goto, cacheVars, handleVars, Opening
<1>4. HeldInv'
  BY DEF IInv, TypeOK, PlaceInv, MineInv, CacheInv, DeadInv, OwnerInv, HeldInv,
         OpenHit, Goto, cacheVars, handleVars, Opening, Retired
<1>5. (CacheInv /\ DeadInv /\ OwnerInv /\ NoLeakedPool /\ NoLeakedTunnel)'
  BY DEF IInv, CacheInv, DeadInv, OwnerInv, NoLeakedPool, NoLeakedTunnel,
         OpenHit, cacheVars, handleVars
<1> QED
  BY <1>1, <1>2, <1>3, <1>4, <1>5 DEF IInv

\* A cache miss remembers the id and nothing else.
LEMMA OpenMissInv ==
    ASSUME IInv, NEW c \in Callers, NEW i \in Conns, OpenMiss(c, i)
    PROVE  IInv'
<1>1. TypeOK'
  BY DEF IInv, TypeOK, OpenMiss, Goto, cacheVars, handleVars, RowState,
         PoolState, TunnelState, Opening, Place
<1>2. PlaceInv'
  BY DEF IInv, TypeOK, PlaceInv, OpenMiss, Goto, cacheVars, handleVars, Opening
<1>3. MineInv'
  BY DEF IInv, TypeOK, PlaceInv, MineInv, CacheInv, DeadInv, OwnerInv,
         OpenMiss, Goto, cacheVars, handleVars, Opening
<1>4. HeldInv'
  BY DEF IInv, TypeOK, PlaceInv, MineInv, CacheInv, DeadInv, OwnerInv, HeldInv,
         OpenMiss, Goto, cacheVars, handleVars, Opening, Retired
<1>5. (CacheInv /\ DeadInv /\ OwnerInv /\ NoLeakedPool /\ NoLeakedTunnel)'
  BY DEF IInv, CacheInv, DeadInv, OwnerInv, NoLeakedPool, NoLeakedTunnel,
         OpenMiss, cacheVars, handleVars
<1> QED
  BY <1>1, <1>2, <1>3, <1>4, <1>5 DEF IInv

\* Revealing credentials leaves every handle where it is.
LEMMA RevealInv ==
    ASSUME IInv, NEW c \in Callers, Reveal(c)
    PROVE  IInv'
<1>1. TypeOK'
  BY DEF IInv, TypeOK, Reveal, Goto, cacheVars, handleVars, ownVars, RowState,
         PoolState, TunnelState, Opening, Place
<1>2. PlaceInv'
  BY DEF IInv, TypeOK, PlaceInv, Reveal, Goto, cacheVars, handleVars, ownVars,
         Opening
<1>3. MineInv'
  BY DEF IInv, TypeOK, PlaceInv, MineInv, CacheInv, DeadInv, OwnerInv, Reveal,
         Goto, cacheVars, handleVars, ownVars, Opening
<1>4. HeldInv'
  BY DEF IInv, TypeOK, PlaceInv, MineInv, CacheInv, DeadInv, OwnerInv, HeldInv,
         Reveal, Goto, cacheVars, handleVars, ownVars, Opening, Retired
<1>5. (CacheInv /\ DeadInv /\ OwnerInv /\ NoLeakedPool /\ NoLeakedTunnel)'
  BY DEF IInv, CacheInv, DeadInv, OwnerInv, NoLeakedPool, NoLeakedTunnel,
         Reveal, cacheVars, handleVars, ownVars
<1> QED
  BY <1>1, <1>2, <1>3, <1>4, <1>5 DEF IInv

\* So does failing to.
LEMMA RevealFailsInv ==
    ASSUME IInv, NEW c \in Callers, RevealFails(c)
    PROVE  IInv'
<1>1. TypeOK'
  BY DEF IInv, TypeOK, RevealFails, Goto, cacheVars, handleVars, ownVars,
         RowState, PoolState, TunnelState, Opening, Place
<1>2. PlaceInv'
  BY DEF IInv, TypeOK, PlaceInv, RevealFails, Goto, cacheVars, handleVars,
         ownVars, Opening
<1>3. MineInv'
  BY DEF IInv, TypeOK, PlaceInv, MineInv, CacheInv, DeadInv, OwnerInv,
         RevealFails, Goto, cacheVars, handleVars, ownVars, Opening
<1>4. HeldInv'
  BY DEF IInv, TypeOK, PlaceInv, MineInv, CacheInv, DeadInv, OwnerInv, HeldInv,
         RevealFails, Goto, cacheVars, handleVars, ownVars, Opening, Retired
<1>5. (CacheInv /\ DeadInv /\ OwnerInv /\ NoLeakedPool /\ NoLeakedTunnel)'
  BY DEF IInv, CacheInv, DeadInv, OwnerInv, NoLeakedPool, NoLeakedTunnel,
         RevealFails, cacheVars, handleVars, ownVars
<1> QED
  BY <1>1, <1>2, <1>3, <1>4, <1>5 DEF IInv

\* The attempt becomes the owner of a fresh tunnel.
LEMMA OpenTunnelInv ==
    ASSUME IInv, NEW c \in Callers, OpenTunnel(c)
    PROVE  IInv'
<1>1. TypeOK'
  BY DEF IInv, TypeOK, OpenTunnel, Goto, cacheVars, Fresh, RowState, PoolState,
         TunnelState, Opening, Place
<1>2. PlaceInv'
  BY DEF IInv, TypeOK, PlaceInv, OpenTunnel, Goto, cacheVars, Fresh, Opening
<1>3. MineInv'
  BY DEF IInv, TypeOK, PlaceInv, MineInv, CacheInv, DeadInv, OwnerInv,
         OpenTunnel, Goto, cacheVars, Fresh, Opening
<1>4. CacheInv'
  BY DEF IInv, TypeOK, PlaceInv, MineInv, CacheInv, DeadInv, OwnerInv,
         OpenTunnel, Goto, cacheVars, Fresh, Opening
<1>5. DeadInv'
  BY DEF IInv, TypeOK, PlaceInv, MineInv, CacheInv, DeadInv, OwnerInv,
         OpenTunnel, Goto, cacheVars, Fresh, Opening
<1>6. OwnerInv'
  BY DEF IInv, TypeOK, PlaceInv, MineInv, CacheInv, DeadInv, OwnerInv,
         OpenTunnel, Goto, cacheVars, Fresh, Opening
<1>7. HeldInv'
  BY DEF IInv, TypeOK, PlaceInv, MineInv, CacheInv, DeadInv, OwnerInv, HeldInv,
         OpenTunnel, Goto, cacheVars, Fresh, Opening, Retired
<1>8. NoLeakedPool'
  BY DEF IInv, TypeOK, PlaceInv, MineInv, DeadInv, NoLeakedPool, OpenTunnel,
         Goto, cacheVars, Fresh, Opening
<1>9. NoLeakedTunnel'
  BY DEF IInv, TypeOK, PlaceInv, MineInv, CacheInv, NoLeakedTunnel, OwnerInv,
         OpenTunnel, Goto, cacheVars, Fresh, Opening
<1> QED
  BY <1>1, <1>2, <1>3, <1>4, <1>5, <1>6, <1>7, <1>8, <1>9 DEF IInv

\* A failed dial leaves nothing behind.
LEMMA OpenTunnelFailsInv ==
    ASSUME IInv, NEW c \in Callers, OpenTunnelFails(c)
    PROVE  IInv'
<1>1. TypeOK'
  BY DEF IInv, TypeOK, OpenTunnelFails, Goto, cacheVars, handleVars, ownVars,
         RowState, PoolState, TunnelState, Opening, Place
<1>2. PlaceInv'
  BY DEF IInv, TypeOK, PlaceInv, OpenTunnelFails, Goto, cacheVars, handleVars,
         ownVars, Opening
<1>3. MineInv'
  BY DEF IInv, TypeOK, PlaceInv, MineInv, CacheInv, DeadInv, OwnerInv,
         OpenTunnelFails, Goto, cacheVars, handleVars, ownVars, Opening
<1>4. HeldInv'
  BY DEF IInv, TypeOK, PlaceInv, MineInv, CacheInv, DeadInv, OwnerInv, HeldInv,
         OpenTunnelFails, Goto, cacheVars, handleVars, ownVars, Opening,
         Retired
<1>5. (CacheInv /\ DeadInv /\ OwnerInv /\ NoLeakedPool /\ NoLeakedTunnel)'
  BY DEF IInv, CacheInv, DeadInv, OwnerInv, NoLeakedPool, NoLeakedTunnel,
         OpenTunnelFails, cacheVars, handleVars, ownVars
<1> QED
  BY <1>1, <1>2, <1>3, <1>4, <1>5 DEF IInv

\* The attempt becomes the owner of the pool, too.
LEMMA OpenPoolInv ==
    ASSUME IInv, NEW c \in Callers, OpenPool(c)
    PROVE  IInv'
<1>1. TypeOK'
  BY DEF IInv, TypeOK, OpenPool, Goto, cacheVars, Fresh, RowState, PoolState,
         TunnelState, Opening, Place
<1>2. PlaceInv'
  BY DEF IInv, TypeOK, PlaceInv, MineInv, OpenPool, Goto, cacheVars, Fresh,
         Opening
<1>3. MineInv'
  BY DEF IInv, TypeOK, PlaceInv, MineInv, CacheInv, DeadInv, OwnerInv,
         OpenPool, Goto, cacheVars, Fresh, Opening, PoolState
<1>4. CacheInv'
  BY DEF IInv, TypeOK, PlaceInv, MineInv, CacheInv, DeadInv, OwnerInv,
         OpenPool, Goto, cacheVars, Fresh, Opening, PoolState
<1>5. DeadInv'
  BY DEF IInv, TypeOK, PlaceInv, MineInv, CacheInv, DeadInv, OwnerInv,
         OpenPool, Goto, cacheVars, Fresh, Opening, PoolState
<1>6. OwnerInv'
  BY DEF IInv, TypeOK, PlaceInv, MineInv, CacheInv, DeadInv, OwnerInv,
         OpenPool, Goto, cacheVars, Fresh, Opening
<1>7. HeldInv'
  BY DEF IInv, TypeOK, PlaceInv, MineInv, CacheInv, DeadInv, OwnerInv, HeldInv,
         OpenPool, Goto, cacheVars, Fresh, Opening, Retired, PoolState
<1>8. NoLeakedPool'
  BY DEF IInv, TypeOK, PlaceInv, MineInv, DeadInv, NoLeakedPool, OpenPool,
         Goto, cacheVars, Fresh, Opening, PoolState
<1>9. NoLeakedTunnel'
  BY DEF IInv, TypeOK, PlaceInv, MineInv, CacheInv, NoLeakedTunnel, OpenPool,
         Goto, cacheVars, Fresh, Opening
<1> QED
  BY <1>1, <1>2, <1>3, <1>4, <1>5, <1>6, <1>7, <1>8, <1>9 DEF IInv

\* A failed open closes the tunnel the attempt owned.
LEMMA OpenPoolFailsInv ==
    ASSUME IInv, NEW c \in Callers, OpenPoolFails(c)
    PROVE  IInv'
<1>1. TypeOK'
  BY DEF IInv, TypeOK, OpenPoolFails, Goto, cacheVars, RowState, PoolState,
         TunnelState, Opening, Place
<1>2. PlaceInv'
  BY DEF IInv, TypeOK, PlaceInv, OpenPoolFails, Goto, cacheVars, Opening
<1>3. MineInv'
  BY DEF IInv, TypeOK, PlaceInv, MineInv, CacheInv, DeadInv, OwnerInv,
         OpenPoolFails, Goto, cacheVars, Opening
<1>4. CacheInv'
  BY DEF IInv, TypeOK, PlaceInv, MineInv, CacheInv, DeadInv, OwnerInv,
         OpenPoolFails, Goto, cacheVars, Opening
<1>5. DeadInv'
  BY DEF IInv, TypeOK, PlaceInv, MineInv, CacheInv, DeadInv, OwnerInv,
         OpenPoolFails, Goto, cacheVars, Opening
<1>6. OwnerInv'
  BY DEF IInv, TypeOK, PlaceInv, MineInv, CacheInv, DeadInv, OwnerInv,
         OpenPoolFails, Goto, cacheVars, Opening
<1>7. HeldInv'
  BY DEF IInv, TypeOK, PlaceInv, MineInv, CacheInv, DeadInv, OwnerInv, HeldInv,
         OpenPoolFails, Goto, cacheVars, Opening, Retired
<1>8. NoLeakedPool'
  BY DEF IInv, TypeOK, PlaceInv, MineInv, DeadInv, NoLeakedPool, OpenPoolFails,
         Goto, cacheVars, Opening
<1>9. NoLeakedTunnel'
  BY DEF IInv, TypeOK, PlaceInv, MineInv, CacheInv, NoLeakedTunnel,
         OpenPoolFails, Goto, cacheVars, Opening
<1> QED
  BY <1>1, <1>2, <1>3, <1>4, <1>5, <1>6, <1>7, <1>8, <1>9 DEF IInv

\* Ownership passes from the attempt to the cache.
LEMMA StoreInv ==
    ASSUME IInv, NEW c \in Callers, Store(c)
    PROVE  IInv'
<1>1. TypeOK'
  BY DEF IInv, TypeOK, Store, Goto, handleVars, RowState, PoolState,
         TunnelState, Opening, Place
<1>2. PlaceInv'
  BY DEF IInv, TypeOK, PlaceInv, MineInv, Store, Goto, handleVars, Opening
<1>3. MineInv'
  BY DEF IInv, TypeOK, PlaceInv, MineInv, CacheInv, DeadInv, OwnerInv, Store,
         Goto, handleVars, Opening
<1>4. CacheInv'
  BY DEF IInv, TypeOK, PlaceInv, MineInv, CacheInv, DeadInv, OwnerInv, Store,
         Goto, handleVars, Opening
<1>5. OwnerInv'
  BY DEF IInv, TypeOK, PlaceInv, MineInv, CacheInv, DeadInv, OwnerInv, Store,
         Goto, handleVars, Opening
<1>6. HeldInv'
  BY DEF IInv, TypeOK, PlaceInv, MineInv, CacheInv, DeadInv, OwnerInv, HeldInv,
         Store, Goto, handleVars, Opening, Retired
<1>7. NoLeakedPool'
  BY DEF IInv, TypeOK, PlaceInv, MineInv, DeadInv, NoLeakedPool, Store, Goto,
         handleVars, Opening
<1>8. NoLeakedTunnel'
  BY DEF IInv, TypeOK, PlaceInv, MineInv, CacheInv, NoLeakedTunnel, Store,
         Goto, handleVars, Opening
<1>9. DeadInv'
  BY DEF IInv, DeadInv, Store, handleVars
<1> QED
  BY <1>1, <1>2, <1>3, <1>4, <1>5, <1>6, <1>7, <1>8, <1>9 DEF IInv

\* The loser keeps its handle, now to close it, and holds the winner's pool.
LEMMA StoreLostInv ==
    ASSUME IInv, NEW c \in Callers, StoreLost(c)
    PROVE  IInv'
<1>1. TypeOK'
  BY DEF IInv, TypeOK, PlaceInv, MineInv, StoreLost, Goto, cacheVars,
         handleVars, RowState, PoolState, TunnelState, Opening, Place
<1>2. PlaceInv'
  BY DEF IInv, TypeOK, PlaceInv, StoreLost, Goto, cacheVars, handleVars,
         Opening
<1>3. MineInv'
  BY DEF IInv, TypeOK, PlaceInv, MineInv, CacheInv, DeadInv, OwnerInv,
         StoreLost, Goto, cacheVars, handleVars, Opening
<1>4. DeadInv'
  BY DEF IInv, TypeOK, PlaceInv, MineInv, CacheInv, DeadInv, OwnerInv,
         StoreLost, Goto, cacheVars, handleVars, Opening
<1>5. OwnerInv'
  BY DEF IInv, TypeOK, PlaceInv, MineInv, CacheInv, DeadInv, OwnerInv,
         StoreLost, Goto, cacheVars, handleVars, Opening
<1>6. HeldInv'
  BY DEF IInv, TypeOK, PlaceInv, MineInv, CacheInv, DeadInv, OwnerInv, HeldInv,
         StoreLost, Goto, cacheVars, handleVars, Opening, Retired
<1>7. NoLeakedPool'
  BY DEF IInv, TypeOK, PlaceInv, MineInv, DeadInv, NoLeakedPool, StoreLost,
         Goto, cacheVars, handleVars, Opening
<1>8. NoLeakedTunnel'
  BY DEF IInv, TypeOK, PlaceInv, MineInv, CacheInv, NoLeakedTunnel, StoreLost,
         Goto, cacheVars, handleVars, Opening
<1>9. CacheInv'
  BY DEF IInv, CacheInv, StoreLost, cacheVars, handleVars
<1> QED
  BY <1>1, <1>2, <1>3, <1>4, <1>5, <1>6, <1>7, <1>8, <1>9 DEF IInv

\* A checkout needs an open pool.
LEMMA AcquireInv ==
    ASSUME IInv, NEW c \in Callers, Acquire(c)
    PROVE  IInv'
<1>1. TypeOK'
  BY DEF IInv, TypeOK, Acquire, Goto, cacheVars, handleVars, ownVars, Busy,
         RowState, PoolState, TunnelState, Opening, Place
<1>2. PlaceInv'
  BY DEF IInv, TypeOK, PlaceInv, Acquire, Goto, cacheVars, handleVars, ownVars,
         Busy, Opening
<1>3. MineInv'
  BY DEF IInv, TypeOK, PlaceInv, MineInv, CacheInv, DeadInv, OwnerInv, Acquire,
         Goto, cacheVars, handleVars, ownVars, Busy, Opening
<1>4. HeldInv'
  BY DEF IInv, TypeOK, PlaceInv, MineInv, CacheInv, DeadInv, OwnerInv, HeldInv,
         Acquire, Goto, cacheVars, handleVars, ownVars, Busy, Opening, Retired
<1>5. (CacheInv /\ DeadInv /\ OwnerInv /\ NoLeakedPool /\ NoLeakedTunnel)'
  BY DEF IInv, CacheInv, DeadInv, OwnerInv, NoLeakedPool, NoLeakedTunnel,
         Acquire, cacheVars, handleVars, ownVars
<1> QED
  BY <1>1, <1>2, <1>3, <1>4, <1>5 DEF IInv

\* Returning a connection.
LEMMA ReleaseInv ==
    ASSUME IInv, NEW c \in Callers, Release(c)
    PROVE  IInv'
<1>1. TypeOK'
  BY DEF IInv, TypeOK, Release, Goto, cacheVars, handleVars, ownVars, RowState,
         PoolState, TunnelState, Opening, Place
<1>2. PlaceInv'
  BY DEF IInv, TypeOK, PlaceInv, Release, Goto, cacheVars, handleVars, ownVars,
         Opening
<1>3. MineInv'
  BY DEF IInv, TypeOK, PlaceInv, MineInv, CacheInv, DeadInv, OwnerInv, Release,
         Goto, cacheVars, handleVars, ownVars, Opening
<1>4. HeldInv'
  BY DEF IInv, TypeOK, PlaceInv, MineInv, CacheInv, DeadInv, OwnerInv, HeldInv,
         Release, Goto, cacheVars, handleVars, ownVars, Opening, Retired
<1>5. (CacheInv /\ DeadInv /\ OwnerInv /\ NoLeakedPool /\ NoLeakedTunnel)'
  BY DEF IInv, CacheInv, DeadInv, OwnerInv, NoLeakedPool, NoLeakedTunnel,
         Release, cacheVars, handleVars, ownVars
<1> QED
  BY <1>1, <1>2, <1>3, <1>4, <1>5 DEF IInv

\* The caller lets go of the pool.
LEMMA FinishInv ==
    ASSUME IInv, NEW c \in Callers, Finish(c)
    PROVE  IInv'
<1>1. TypeOK'
  BY DEF IInv, TypeOK, Finish, Goto, cacheVars, handleVars, RowState,
         PoolState, TunnelState, Opening, Place
<1>2. PlaceInv'
  BY DEF IInv, TypeOK, PlaceInv, Finish, Goto, cacheVars, handleVars, Opening
<1>3. MineInv'
  BY DEF IInv, TypeOK, PlaceInv, MineInv, CacheInv, DeadInv, OwnerInv, Finish,
         Goto, cacheVars, handleVars, Opening
<1>4. HeldInv'
  BY DEF IInv, TypeOK, PlaceInv, MineInv, CacheInv, DeadInv, OwnerInv, HeldInv,
         Finish, Goto, cacheVars, handleVars, Opening, Retired
<1>5. (CacheInv /\ DeadInv /\ OwnerInv /\ NoLeakedPool /\ NoLeakedTunnel)'
  BY DEF IInv, CacheInv, DeadInv, OwnerInv, NoLeakedPool, NoLeakedTunnel,
         Finish, cacheVars, handleVars
<1> QED
  BY <1>1, <1>2, <1>3, <1>4, <1>5 DEF IInv

\* Deleting the row leaves every handle where it is.
LEMMA DeleteRowInv ==
    ASSUME IInv, NEW c \in Callers, NEW i \in Conns, DeleteRow(c, i)
    PROVE  IInv'
<1>1. TypeOK'
  BY DEF IInv, TypeOK, DeleteRow, Goto, cacheVars, handleVars, RowState,
         PoolState, TunnelState, Opening, Place
<1>2. PlaceInv'
  BY DEF IInv, TypeOK, PlaceInv, DeleteRow, Goto, cacheVars, handleVars,
         Opening
<1>3. MineInv'
  BY DEF IInv, TypeOK, PlaceInv, MineInv, CacheInv, DeadInv, OwnerInv,
         DeleteRow, Goto, cacheVars, handleVars, Opening
<1>4. HeldInv'
  BY DEF IInv, TypeOK, PlaceInv, MineInv, CacheInv, DeadInv, OwnerInv, HeldInv,
         DeleteRow, Goto, cacheVars, handleVars, Opening, Retired
<1>5. (CacheInv /\ DeadInv /\ OwnerInv /\ NoLeakedPool /\ NoLeakedTunnel)'
  BY DEF IInv, CacheInv, DeadInv, OwnerInv, NoLeakedPool, NoLeakedTunnel,
         DeleteRow, cacheVars, handleVars
<1> QED
  BY <1>1, <1>2, <1>3, <1>4, <1>5 DEF IInv

\* Ownership passes from the cache to the closing goroutine.
LEMMA CloseConnInv ==
    ASSUME IInv, NEW c \in Callers, CloseConn(c)
    PROVE  IInv'
<1>1. TypeOK'
  BY DEF IInv, TypeOK, PlaceInv, CloseConn, Goto, handleVars, RowState,
         PoolState, TunnelState, Opening, Place
<1>2. PlaceInv'
  BY DEF IInv, TypeOK, PlaceInv, CloseConn, Goto, handleVars, Opening
<1>3. MineInv'
  BY DEF IInv, TypeOK, PlaceInv, MineInv, CacheInv, DeadInv, OwnerInv,
         CloseConn, Goto, handleVars, Opening
<1>4. CacheInv'
  BY DEF IInv, TypeOK, PlaceInv, MineInv, CacheInv, DeadInv, OwnerInv,
         CloseConn, Goto, handleVars, Opening
<1>5. DeadInv'
  BY DEF IInv, TypeOK, PlaceInv, MineInv, CacheInv, DeadInv, OwnerInv,
         CloseConn, Goto, handleVars, Opening
<1>6. OwnerInv'
  BY DEF IInv, TypeOK, PlaceInv, MineInv, CacheInv, DeadInv, OwnerInv,
         CloseConn, Goto, handleVars, Opening
<1>7. HeldInv'
  BY DEF IInv, TypeOK, PlaceInv, MineInv, CacheInv, DeadInv, OwnerInv, HeldInv,
         CloseConn, Goto, handleVars, Opening, Retired
<1>8. NoLeakedPool'
  BY DEF IInv, TypeOK, PlaceInv, MineInv, DeadInv, NoLeakedPool, CloseConn,
         Goto, handleVars, Opening
<1>9. NoLeakedTunnel'
  BY DEF IInv, TypeOK, PlaceInv, MineInv, CacheInv, NoLeakedTunnel, CloseConn,
         Goto, handleVars, Opening
<1> QED
  BY <1>1, <1>2, <1>3, <1>4, <1>5, <1>6, <1>7, <1>8, <1>9 DEF IInv

\* The same, for every cached handle at once.
LEMMA ShutdownInv ==
    ASSUME IInv, NEW c \in Callers, Shutdown(c)
    PROVE  IInv'
<1>1. TypeOK'
  BY DEF IInv, TypeOK, Shutdown, Goto, handleVars, RowState, PoolState,
         TunnelState, Opening, Place
<1>2. PlaceInv'
  BY DEF IInv, TypeOK, PlaceInv, Shutdown, Goto, handleVars, Opening
<1>3. MineInv'
  BY DEF IInv, TypeOK, PlaceInv, MineInv, CacheInv, DeadInv, OwnerInv,
         Shutdown, Goto, handleVars, Opening
<1>4. CacheInv'
  BY DEF IInv, TypeOK, PlaceInv, MineInv, CacheInv, DeadInv, OwnerInv,
         Shutdown, Goto, handleVars, Opening
<1>5. DeadInv'
  BY DEF IInv, TypeOK, PlaceInv, MineInv, CacheInv, DeadInv, OwnerInv,
         Shutdown, Goto, handleVars, Opening
<1>6. OwnerInv'
  BY DEF IInv, TypeOK, PlaceInv, MineInv, CacheInv, DeadInv, OwnerInv,
         Shutdown, Goto, handleVars, Opening
<1>7. HeldInv'
  BY DEF IInv, TypeOK, PlaceInv, MineInv, CacheInv, DeadInv, OwnerInv, HeldInv,
         Shutdown, Goto, handleVars, Opening, Retired
<1>8. NoLeakedPool'
  BY DEF IInv, TypeOK, PlaceInv, MineInv, DeadInv, NoLeakedPool, Shutdown,
         Goto, handleVars, Opening
<1>9. NoLeakedTunnel'
  BY DEF IInv, TypeOK, PlaceInv, MineInv, CacheInv, NoLeakedTunnel, Shutdown,
         Goto, handleVars, Opening
<1> QED
  BY <1>1, <1>2, <1>3, <1>4, <1>5, <1>6, <1>7, <1>8, <1>9 DEF IInv

\* Close was called: the pool stays with the goroutine that closes it.
LEMMA BeginClosePoolInv ==
    ASSUME IInv, NEW c \in Callers, BeginClosePool(c)
    PROVE  IInv'
<1>1. TypeOK'
  BY DEF IInv, TypeOK, BeginClosePool, cacheVars, ownVars, RowState, PoolState,
         TunnelState, Opening, Place
<1>2. MineInv'
  BY DEF IInv, TypeOK, PlaceInv, MineInv, CacheInv, DeadInv, OwnerInv,
         BeginClosePool, cacheVars, ownVars, Opening, PoolState
<1>3. CacheInv'
  BY DEF IInv, TypeOK, PlaceInv, MineInv, CacheInv, DeadInv, OwnerInv,
         BeginClosePool, cacheVars, ownVars, Opening, PoolState
<1>4. DeadInv'
  BY DEF IInv, TypeOK, PlaceInv, MineInv, CacheInv, DeadInv, OwnerInv,
         BeginClosePool, cacheVars, ownVars, Opening, PoolState
<1>5. HeldInv'
  BY DEF IInv, TypeOK, PlaceInv, MineInv, CacheInv, DeadInv, OwnerInv, HeldInv,
         BeginClosePool, cacheVars, ownVars, Opening, Retired, PoolState
<1>6. NoLeakedPool'
  BY DEF IInv, TypeOK, PlaceInv, MineInv, DeadInv, NoLeakedPool,
         BeginClosePool, cacheVars, ownVars, Opening, PoolState
<1>7. (PlaceInv /\ OwnerInv /\ NoLeakedTunnel)'
  BY DEF IInv, PlaceInv, OwnerInv, NoLeakedTunnel, BeginClosePool, cacheVars,
         ownVars
<1> QED
  BY <1>1, <1>2, <1>3, <1>4, <1>5, <1>6, <1>7 DEF IInv

\* A drained pool is closed; nobody had it checked out.
LEMMA EndClosePoolInv ==
    ASSUME IInv, NEW c \in Callers, EndClosePool(c)
    PROVE  IInv'
<1>1. TypeOK'
  BY DEF IInv, TypeOK, EndClosePool, cacheVars, Busy, RowState, PoolState,
         TunnelState, Opening, Place
<1>2. PlaceInv'
  BY DEF IInv, TypeOK, PlaceInv, EndClosePool, cacheVars, Busy, Opening
<1>3. MineInv'
  BY DEF IInv, TypeOK, PlaceInv, MineInv, CacheInv, DeadInv, OwnerInv,
         EndClosePool, cacheVars, Busy, Opening, PoolState
<1>4. CacheInv'
  BY DEF IInv, TypeOK, PlaceInv, MineInv, CacheInv, DeadInv, OwnerInv,
         EndClosePool, cacheVars, Busy, Opening, PoolState
<1>5. DeadInv'
  BY DEF IInv, TypeOK, PlaceInv, MineInv, CacheInv, DeadInv, OwnerInv,
         EndClosePool, cacheVars, Busy, Opening, PoolState
<1>6. OwnerInv'
  BY DEF IInv, TypeOK, PlaceInv, MineInv, CacheInv, DeadInv, OwnerInv,
         EndClosePool, cacheVars, Busy, Opening
<1>7. HeldInv'
  BY DEF IInv, TypeOK, PlaceInv, MineInv, CacheInv, DeadInv, OwnerInv, HeldInv,
         EndClosePool, cacheVars, Busy, Opening, Retired, PoolState
<1>8. NoLeakedPool'
  BY DEF IInv, TypeOK, PlaceInv, MineInv, DeadInv, NoLeakedPool, EndClosePool,
         cacheVars, Busy, Opening, PoolState
<1>9. NoLeakedTunnel'
  BY DEF IInv, NoLeakedTunnel, EndClosePool, cacheVars
<1> QED
  BY <1>1, <1>2, <1>3, <1>4, <1>5, <1>6, <1>7, <1>8, <1>9 DEF IInv

\* The tunnel goes last: its pool is closed by then.
LEMMA CloseTunnelInv ==
    ASSUME IInv, NEW c \in Callers, CloseTunnel(c)
    PROVE  IInv'
<1>1. TypeOK'
  BY DEF IInv, TypeOK, CloseTunnel, cacheVars, RowState, PoolState,
         TunnelState, Opening, Place
<1>2. PlaceInv'
  BY DEF IInv, TypeOK, PlaceInv, CloseTunnel, cacheVars, Opening
<1>3. MineInv'
  BY DEF IInv, TypeOK, PlaceInv, MineInv, CacheInv, DeadInv, OwnerInv,
         CloseTunnel, cacheVars, Opening
<1>4. CacheInv'
  BY DEF IInv, TypeOK, PlaceInv, MineInv, CacheInv, DeadInv, OwnerInv,
         CloseTunnel, cacheVars, Opening
<1>5. DeadInv'
  BY DEF IInv, TypeOK, PlaceInv, MineInv, CacheInv, DeadInv, OwnerInv,
         CloseTunnel, cacheVars, Opening
<1>6. OwnerInv'
  BY DEF IInv, TypeOK, PlaceInv, MineInv, CacheInv, DeadInv, OwnerInv,
         CloseTunnel, cacheVars, Opening
<1>7. HeldInv'
  BY DEF IInv, TypeOK, PlaceInv, MineInv, CacheInv, DeadInv, OwnerInv, HeldInv,
         CloseTunnel, cacheVars, Opening, Retired
<1>8. NoLeakedTunnel'
  BY DEF IInv, TypeOK, PlaceInv, MineInv, CacheInv, NoLeakedTunnel,
         CloseTunnel, cacheVars, Opening
<1>9. NoLeakedPool'
  BY DEF IInv, NoLeakedPool, CloseTunnel, cacheVars
<1> QED
  BY <1>1, <1>2, <1>3, <1>4, <1>5, <1>6, <1>7, <1>8, <1>9 DEF IInv

\* Nothing is left to close.
LEMMA CloseDoneInv ==
    ASSUME IInv, NEW c \in Callers, CloseDone(c)
    PROVE  IInv'
<1>1. TypeOK'
  BY DEF IInv, TypeOK, CloseDone, Goto, cacheVars, handleVars, ownVars,
         RowState, PoolState, TunnelState, Opening, Place
<1>2. PlaceInv'
  BY DEF IInv, TypeOK, PlaceInv, CloseDone, Goto, cacheVars, handleVars,
         ownVars, Opening
<1>3. MineInv'
  BY DEF IInv, TypeOK, PlaceInv, MineInv, CacheInv, DeadInv, OwnerInv,
         CloseDone, Goto, cacheVars, handleVars, ownVars, Opening
<1>4. HeldInv'
  BY DEF IInv, TypeOK, PlaceInv, MineInv, CacheInv, DeadInv, OwnerInv, HeldInv,
         CloseDone, Goto, cacheVars, handleVars, ownVars, Opening, Retired
<1>5. (CacheInv /\ DeadInv /\ OwnerInv /\ NoLeakedPool /\ NoLeakedTunnel)'
  BY DEF IInv, CacheInv, DeadInv, OwnerInv, NoLeakedPool, NoLeakedTunnel,
         CloseDone, cacheVars, handleVars, ownVars
<1> QED
  BY <1>1, <1>2, <1>3, <1>4, <1>5 DEF IInv


\* An empty cache with every caller idle satisfies the invariant.
LEMMA InitInv == Init => IInv
  BY DEF Init, IInv, TypeOK, PlaceInv, MineInv, CacheInv, DeadInv, OwnerInv,
         HeldInv, NoLeakedPool, NoLeakedTunnel, RowState, PoolState, TunnelState,
         Opening, Place

\* Every step of every caller preserves it.
LEMMA NextInv == IInv /\ [Next]_vars => IInv'
<1> SUFFICES ASSUME IInv, [Next]_vars PROVE IInv'
  OBVIOUS
<1>1. CASE UNCHANGED vars
  BY <1>1 DEF vars, cacheVars, handleVars, ownVars, IInv, TypeOK, PlaceInv, MineInv,
              CacheInv, DeadInv, OwnerInv, HeldInv, Retired, NoLeakedPool, NoLeakedTunnel
<1>2. ASSUME NEW i \in Conns, CreateRow(i) PROVE IInv'
  BY <1>2, CreateRowInv
<1>3. ASSUME NEW c \in Callers, NEW i \in Conns,
             OpenHit(c, i) \/ OpenMiss(c, i) \/ DeleteRow(c, i)
      PROVE  IInv'
  BY <1>3, OpenHitInv, OpenMissInv, DeleteRowInv
<1>4. ASSUME NEW c \in Callers, OpenStep(c) PROVE IInv'
  BY <1>4, RevealInv, RevealFailsInv, OpenTunnelInv, OpenTunnelFailsInv, OpenPoolInv,
     OpenPoolFailsInv, StoreInv, StoreLostInv DEF OpenStep
<1>5. ASSUME NEW c \in Callers, Acquire(c) \/ Release(c) \/ Finish(c) PROVE IInv'
  BY <1>5, AcquireInv, ReleaseInv, FinishInv
<1>6. ASSUME NEW c \in Callers, Shutdown(c) \/ CloseStep(c) PROVE IInv'
  BY <1>6, ShutdownInv, CloseConnInv, BeginClosePoolInv, EndClosePoolInv,
     CloseTunnelInv, CloseDoneInv DEF CloseStep
<1> QED
  BY <1>1, <1>2, <1>3, <1>4, <1>5, <1>6 DEF Next

-----------------------------------------------------------------------------
(* What follows from it. *)

\* The inductive invariant holds in every reachable state of the pool manager.
THEOREM Invariance == Spec => []IInv
  BY InitInv, NextInv, PTL DEF Spec

\* Every variable of the pool manager keeps its type.
THEOREM TypeCorrect == Spec => []TypeOK
<1>1. IInv => TypeOK
  BY DEF IInv
<1> QED
  BY <1>1, Invariance, PTL

\* No interleaving of OpenByID, CloseConn and Shutdown loses an open pool.
THEOREM PoolsNeverLeak == Spec => []NoLeakedPool
<1>1. IInv => NoLeakedPool
  BY DEF IInv
<1> QED
  BY <1>1, Invariance, PTL

\* Nor an open ssh tunnel, on the error paths of OpenByID included.
THEOREM TunnelsNeverLeak == Spec => []NoLeakedTunnel
<1>1. IInv => NoLeakedTunnel
  BY DEF IInv
<1> QED
  BY <1>1, Invariance, PTL

\* So nothing that was opened is ever lost.
THEOREM NothingEverLeaks == Spec => []NothingLeaks
<1>1. IInv => NothingLeaks
  BY DEF IInv, NothingLeaks
<1> QED
  BY <1>1, Invariance, PTL

\* The cache holds open pools only, each beside the tunnel it dials through.
THEOREM CacheIsCoherent == Spec => []CacheCoherent
<1>1. IInv => CacheCoherent
  BY DEF IInv, TypeOK, CacheInv, OwnerInv, CacheCoherent, Retired
<1> QED
  BY <1>1, Invariance, PTL

\* No tunnel is closed under a statement that runs through it.
THEOREM TunnelsOutliveStatements == Spec => []NoTunnelCut
<1>1. IInv => NoTunnelCut
  BY DEF IInv, PlaceInv, HeldInv, NoTunnelCut
<1> QED
  BY <1>1, Invariance, PTL

\* Concurrent callers of OpenByID get the same pool instance.
THEOREM ConcurrentCallersSharePool == Spec => []SamePool
<1>1. IInv => SamePool
  BY DEF IInv, HeldInv, SamePool
<1> QED
  BY <1>1, Invariance, PTL

\* No opener ever replaces a published pool.
THEOREM PublishedPoolStays == Spec => CacheNeverReplaced
<1> DEFINE Kept == \A i \in Conns : pools[i] # None => pools'[i] \in {pools[i], None}
<1>1. ASSUME IInv, [Next]_vars PROVE Kept
  <2>1. CASE UNCHANGED pools
    BY <2>1
  <2>2. ASSUME NEW c \in Callers, Store(c) PROVE Kept
    BY <2>2 DEF IInv, TypeOK, Store
  <2>3. ASSUME NEW c \in Callers, CloseConn(c) PROVE Kept
    BY <2>3 DEF IInv, TypeOK, CloseConn
  <2>4. ASSUME NEW c \in Callers, Shutdown(c) PROVE Kept
    BY <2>4 DEF Shutdown
  <2> QED
    BY <1>1, <2>1, <2>2, <2>3, <2>4
    DEF Next, vars, cacheVars, OpenStep, CloseStep, CreateRow, OpenHit, OpenMiss,
        DeleteRow, Reveal, RevealFails, OpenTunnel, OpenTunnelFails, OpenPool,
        OpenPoolFails, StoreLost, Acquire, Release, Finish, BeginClosePool,
        EndClosePool, CloseTunnel, CloseDone
<1>2. IInv /\ [Next]_vars => [Kept]_vars
  BY <1>1
<1> QED
  BY <1>2, Invariance, PTL DEF Spec, CacheNeverReplaced

\* A deleted connection that has drained stays gone.
THEOREM DeletedStaysGone == Spec => GoneStaysGone
<1> DEFINE Stays == \A i \in Conns : Gone(i) => Gone(i)'
<1>1. ASSUME IInv, [Next]_vars, NEW i \in Conns, Gone(i) PROVE Gone(i)'
  <2>1. CASE UNCHANGED vars
    BY <1>1, <2>1 DEF Gone, vars, cacheVars, ownVars
  <2>2. ASSUME NEW j \in Conns, CreateRow(j) PROVE Gone(i)'
    BY <1>1, <2>2 DEF IInv, TypeOK, Gone, CreateRow, cacheVars, ownVars
  <2>3. ASSUME NEW c \in Callers, NEW j \in Conns,
               OpenHit(c, j) \/ OpenMiss(c, j) \/ DeleteRow(c, j)
        PROVE  Gone(i)'
    BY <1>1, <2>3 DEF IInv, TypeOK, Gone, OpenHit, OpenMiss, DeleteRow, Goto, cacheVars
  <2>4. ASSUME NEW c \in Callers, OpenStep(c) PROVE Gone(i)'
    BY <1>1, <2>4 DEF IInv, TypeOK, Gone, OpenStep, Reveal, RevealFails, OpenTunnel,
       OpenTunnelFails, OpenPool, OpenPoolFails, Store, StoreLost, Goto, cacheVars, ownVars
  <2>5. ASSUME NEW c \in Callers, Acquire(c) \/ Release(c) \/ Finish(c) PROVE Gone(i)'
    BY <1>1, <2>5 DEF IInv, TypeOK, Gone, Acquire, Release, Finish, Goto, cacheVars, ownVars
  <2>6. ASSUME NEW c \in Callers, Shutdown(c) \/ CloseStep(c) PROVE Gone(i)'
    BY <1>1, <2>6 DEF IInv, TypeOK, Gone, CloseStep, Shutdown, CloseConn, BeginClosePool,
       EndClosePool, CloseTunnel, CloseDone, Goto, cacheVars, ownVars
  <2> QED
    BY <1>1, <2>1, <2>2, <2>3, <2>4, <2>5, <2>6 DEF Next
<1>2. IInv /\ [Next]_vars => [Stays]_vars
  BY <1>1
<1> QED
  BY <1>2, Invariance, PTL DEF Spec, GoneStaysGone
=============================================================================
