------------------------------ MODULE PoolManager ------------------------------
(***************************************************************************)
(* postgres.Manager: one pgx pool (and, behind a bastion, one ssh tunnel)  *)
(* per connection id, cached on first use by OpenByID and released by      *)
(* CloseConn or Shutdown.  The Manager's mutex protects only the two maps: *)
(* revealing credentials, dialling, and closing all happen outside it, so  *)
(* every such call is a step of its own here and any number of goroutines  *)
(* interleave between them.                                                *)
(*                                                                         *)
(* A HANDLE stands for one attempt to open: pool h is the pgx pool that    *)
(* attempt built and tunnel h the ssh client it dials through.             *)
(***************************************************************************)
EXTENDS Naturals, FiniteSets

CONSTANTS
    Callers,    \* goroutines: HTTP requests, collectors, the shutdown goroutine
    Conns,      \* connection ids (AUTOINCREMENT: an id is never used again)
    Handles,    \* open attempts; its size bounds how many are explored
    Tunnelled,  \* the connections whose row has an ssh_host_id
    Protected,  \* the connections whose row has requires_passphrase
    Keyed,      \* the callers that present the right passphrase
    MaxConns,   \* pgxpool's MaxConns (4 in the code)
    None        \* absent map entry, nil pointer

ASSUME PoolAssumption ==
    /\ Tunnelled \subseteq Conns
    /\ Protected \subseteq Conns
    /\ Keyed \subseteq Callers
    /\ MaxConns \in Nat \ {0}
    /\ None \notin Handles
    /\ None \notin Conns

VARIABLES
    rows,         \* the connections table: which ids are live
    pools,        \* Manager.pools
    tunnels,      \* Manager.tunnels
    poolState,    \* the pgx pool of each handle
    tunnelState,  \* the ssh client of each handle
    pc,           \* where each caller is
    conn,         \* the id it works on
    mine,         \* the handle its OpenByID has opened and not yet published
    held,         \* the pool OpenByID returned to it
    deadPools,    \* pools it took out of the maps and has yet to close
    deadTunnels   \* likewise the tunnels

cacheVars  == <<pools, tunnels>>
handleVars == <<poolState, tunnelState>>
ownVars    == <<conn, mine, held, deadPools, deadTunnels>>
vars       == <<rows, cacheVars, handleVars, pc, ownVars>>

RowState    == {"absent", "live", "deleted"}
PoolState   == {"unused", "open", "closing", "closed"}
TunnelState == {"unused", "open", "closed"}
Opening     == {"reveal", "tunnel", "open", "store"}
Place       == Opening \cup {"idle", "hold", "busy", "purge", "close"}

TypeOK ==
    /\ rows \in [Conns -> RowState]
    /\ pools \in [Conns -> Handles \cup {None}]
    /\ tunnels \in [Conns -> Handles \cup {None}]
    /\ poolState \in [Handles -> PoolState]
    /\ tunnelState \in [Handles -> TunnelState]
    /\ pc \in [Callers -> Place]
    /\ conn \in [Callers -> Conns \cup {None}]
    /\ mine \in [Callers -> Handles \cup {None}]
    /\ held \in [Callers -> Handles \cup {None}]
    /\ deadPools \in [Callers -> SUBSET Handles]
    /\ deadTunnels \in [Callers -> SUBSET Handles]

Init ==
    /\ rows = [i \in Conns |-> "absent"]
    /\ pools = [i \in Conns |-> None]
    /\ tunnels = [i \in Conns |-> None]
    /\ poolState = [h \in Handles |-> "unused"]
    /\ tunnelState = [h \in Handles |-> "unused"]
    /\ pc = [c \in Callers |-> "idle"]
    /\ conn = [c \in Callers |-> None]
    /\ mine = [c \in Callers |-> None]
    /\ held = [c \in Callers |-> None]
    /\ deadPools = [c \in Callers |-> {}]
    /\ deadTunnels = [c \in Callers |-> {}]

Goto(c, from, to) ==
    /\ pc[c] = from
    /\ pc' = [pc EXCEPT ![c] = to]

\* A handle no attempt has used yet.
Fresh(h) ==
    /\ poolState[h] = "unused"
    /\ tunnelState[h] = "unused"

\* The callers that have a connection of pool h checked out.
Busy(h) == {c \in Callers : pc[c] = "busy" /\ held[c] = h}

-----------------------------------------------------------------------------
(* The connections table. *)

\* ConnectionsRepo.Create commits the row.
CreateRow(i) ==
    /\ rows[i] = "absent"
    /\ rows' = [rows EXCEPT ![i] = "live"]
    /\ UNCHANGED <<cacheVars, handleVars, pc, ownVars>>

-----------------------------------------------------------------------------
(* OpenByID. *)

\* The cache lookup under the mutex finds a pool: it is returned as it is.
OpenHit(c, i) ==
    /\ pools[i] # None
    /\ Goto(c, "idle", "hold")
    /\ conn' = [conn EXCEPT ![c] = i]
    /\ held' = [held EXCEPT ![c] = pools[i]]
    /\ UNCHANGED <<rows, cacheVars, handleVars, mine, deadPools, deadTunnels>>

\* The lookup finds nothing; the mutex is released before Reveal.
OpenMiss(c, i) ==
    /\ pools[i] = None
    /\ Goto(c, "idle", "reveal")
    /\ conn' = [conn EXCEPT ![c] = i]
    /\ UNCHANGED <<rows, cacheVars, handleVars, mine, held, deadPools, deadTunnels>>

\* Faulty variant: a row read from a stale copy.
RevealStale(c) ==
    /\ Goto(c, "reveal", IF conn[c] \in Tunnelled THEN "tunnel" ELSE "open")
    /\ conn[c] \in Protected => c \in Keyed
    /\ UNCHANGED <<rows, cacheVars, handleVars, ownVars>>

\* Reveal reads the row and decrypts the credentials.
Reveal(c) ==
    /\ Goto(c, "reveal", IF conn[c] \in Tunnelled THEN "tunnel" ELSE "open")
    /\ rows[conn[c]] = "live"
    /\ conn[c] \in Protected => c \in Keyed
    /\ UNCHANGED <<rows, cacheVars, handleVars, ownVars>>

\* ErrConnectionNotFound, a passphrase error, or the caller's context ended.
RevealFails(c) ==
    /\ Goto(c, "reveal", "idle")
    /\ UNCHANGED <<rows, cacheVars, handleVars, ownVars>>

\* openTunnelFor dials the bastion.
OpenTunnel(c) ==
    /\ Goto(c, "tunnel", "open")
    /\ \E h \in Handles :
         /\ Fresh(h)
         /\ tunnelState' = [tunnelState EXCEPT ![h] = "open"]
         /\ mine' = [mine EXCEPT ![c] = h]
    /\ UNCHANGED <<rows, cacheVars, poolState, conn, held, deadPools, deadTunnels>>

OpenTunnelFails(c) ==
    /\ Goto(c, "tunnel", "idle")
    /\ UNCHANGED <<rows, cacheVars, handleVars, ownVars>>

\* driver.Open: through the tunnel this call opened, or directly.
OpenPool(c) ==
    /\ Goto(c, "open", "store")
    /\ \E h \in Handles :
         /\ IF conn[c] \in Tunnelled THEN h = mine[c] ELSE Fresh(h)
         /\ poolState' = [poolState EXCEPT ![h] = "open"]
         /\ mine' = [mine EXCEPT ![c] = h]
    /\ UNCHANGED <<rows, cacheVars, tunnelState, conn, held, deadPools, deadTunnels>>

\* Faulty variant: the error path forgets the tunnel.
OpenPoolFailsLeaks(c) ==
    /\ Goto(c, "open", "idle")
    /\ mine' = [mine EXCEPT ![c] = None]
    /\ UNCHANGED <<rows, cacheVars, handleVars, conn, held, deadPools, deadTunnels>>

\* driver.Open fails: the tunnel (nil when direct) is closed on the way out.
OpenPoolFails(c) ==
    /\ Goto(c, "open", "idle")
    /\ tunnelState' = [h \in Handles |-> IF h = mine[c] THEN "closed" ELSE tunnelState[h]]
    /\ mine' = [mine EXCEPT ![c] = None]
    /\ UNCHANGED <<rows, cacheVars, poolState, conn, held, deadPools, deadTunnels>>

\* Faulty variant: the map is not looked at again under the second lock.
StoreUnchecked(c) ==
    /\ Goto(c, "store", "hold")
    /\ pools' = [pools EXCEPT ![conn[c]] = mine[c]]
    /\ tunnels' = IF conn[c] \in Tunnelled
                  THEN [tunnels EXCEPT ![conn[c]] = mine[c]] ELSE tunnels
    /\ held' = [held EXCEPT ![c] = mine[c]]
    /\ mine' = [mine EXCEPT ![c] = None]
    /\ UNCHANGED <<rows, handleVars, conn, deadPools, deadTunnels>>

\* Second critical section, nobody was faster: publish pool and tunnel.
Store(c) ==
    /\ Goto(c, "store", "hold")
    /\ pools[conn[c]] = None
    /\ pools' = [pools EXCEPT ![conn[c]] = mine[c]]
    /\ tunnels' = IF conn[c] \in Tunnelled
                  THEN [tunnels EXCEPT ![conn[c]] = mine[c]] ELSE tunnels
    /\ held' = [held EXCEPT ![c] = mine[c]]
    /\ mine' = [mine EXCEPT ![c] = None]
    /\ UNCHANGED <<rows, handleVars, conn, deadPools, deadTunnels>>

\* Second critical section, another caller won: return its pool and close ours.
StoreLost(c) ==
    /\ Goto(c, "store", "close")
    /\ pools[conn[c]] # None
    /\ held' = [held EXCEPT ![c] = pools[conn[c]]]
    /\ deadPools' = [deadPools EXCEPT ![c] = {mine[c]}]
    /\ deadTunnels' = [deadTunnels EXCEPT
                         ![c] = IF conn[c] \in Tunnelled THEN {mine[c]} ELSE {}]
    /\ mine' = [mine EXCEPT ![c] = None]
    /\ UNCHANGED <<rows, cacheVars, handleVars, conn>>

-----------------------------------------------------------------------------
(* Using the pool OpenByID returned. *)

\* A statement checks a connection out; pgxpool refuses once Close was called
\* and waits while MaxConns are out.
Acquire(c) ==
    /\ Goto(c, "hold", "busy")
    /\ poolState[held[c]] = "open"
    /\ Cardinality(Busy(held[c])) < MaxConns
    /\ UNCHANGED <<rows, cacheVars, handleVars, ownVars>>

\* The statement ends, by itself or by its timeout: the connection goes back.
Release(c) ==
    /\ Goto(c, "busy", "hold")
    /\ UNCHANGED <<rows, cacheVars, handleVars, ownVars>>

\* The caller returns (also: Acquire failed on a closed pool or a dead context).
Finish(c) ==
    /\ Goto(c, "hold", "idle")
    /\ held' = [held EXCEPT ![c] = None]
    /\ UNCHANGED <<rows, cacheVars, handleVars, conn, mine, deadPools, deadTunnels>>

-----------------------------------------------------------------------------
(* CloseConn, as DeleteConnection calls it, and Shutdown. *)

\* DeleteConnection: the row goes first, CloseConn follows.
DeleteRow(c, i) ==
    /\ rows[i] = "live"
    /\ Goto(c, "idle", "purge")
    /\ rows' = [rows EXCEPT ![i] = "deleted"]
    /\ conn' = [conn EXCEPT ![c] = i]
    /\ UNCHANGED <<cacheVars, handleVars, mine, held, deadPools, deadTunnels>>

\* Faulty variant: CloseConn leaves the tunnel in its map.
CloseConnKeepsTunnel(c) ==
    /\ Goto(c, "purge", "close")
    /\ deadPools' = [deadPools EXCEPT ![c] = {pools[conn[c]]} \ {None}]
    /\ deadTunnels' = [deadTunnels EXCEPT ![c] = {tunnels[conn[c]]} \ {None}]
    /\ pools' = [pools EXCEPT ![conn[c]] = None]
    /\ UNCHANGED <<rows, tunnels, handleVars, conn, mine, held>>

\* CloseConn's critical section takes the entries of one id out of both maps.
CloseConn(c) ==
    /\ Goto(c, "purge", "close")
    /\ deadPools' = [deadPools EXCEPT ![c] = {pools[conn[c]]} \ {None}]
    /\ deadTunnels' = [deadTunnels EXCEPT ![c] = {tunnels[conn[c]]} \ {None}]
    /\ pools' = [pools EXCEPT ![conn[c]] = None]
    /\ tunnels' = [tunnels EXCEPT ![conn[c]] = None]
    /\ UNCHANGED <<rows, handleVars, conn, mine, held>>

\* Shutdown's critical section swaps both maps for empty ones.
Shutdown(c) ==
    /\ Goto(c, "idle", "close")
    /\ deadPools' = [deadPools EXCEPT ![c] = {pools[i] : i \in Conns} \ {None}]
    /\ deadTunnels' = [deadTunnels EXCEPT ![c] = {tunnels[i] : i \in Conns} \ {None}]
    /\ pools' = [i \in Conns |-> None]
    /\ tunnels' = [i \in Conns |-> None]
    /\ UNCHANGED <<rows, handleVars, conn, mine, held>>

\* driver.Close, one pool after the other: no further checkouts ...
BeginClosePool(c) ==
    /\ pc[c] = "close"
    /\ \A g \in deadPools[c] : poolState[g] # "closing"
    /\ \E h \in deadPools[c] : poolState' = [poolState EXCEPT ![h] = "closing"]
    /\ UNCHANGED <<rows, cacheVars, tunnelState, pc, ownVars>>

\* ... and it returns when every connection is back.
EndClosePool(c) ==
    /\ pc[c] = "close"
    /\ \E h \in deadPools[c] :
         /\ poolState[h] = "closing"
         /\ Busy(h) = {}
         /\ poolState' = [poolState EXCEPT ![h] = "closed"]
         /\ deadPools' = [deadPools EXCEPT ![c] = @ \ {h}]
    /\ UNCHANGED <<rows, cacheVars, tunnelState, pc, conn, mine, held, deadTunnels>>

\* Faulty variant: the tunnel is closed without waiting for its pool.
CloseTunnelFirst(c) ==
    /\ pc[c] = "close"
    /\ \E h \in deadTunnels[c] :
         /\ tunnelState' = [tunnelState EXCEPT ![h] = "closed"]
         /\ deadTunnels' = [deadTunnels EXCEPT ![c] = @ \ {h}]
    /\ UNCHANGED <<rows, cacheVars, poolState, pc, conn, mine, held, deadPools>>

\* tunnel.Close, once the pools are closed.
CloseTunnel(c) ==
    /\ pc[c] = "close"
    /\ deadPools[c] = {}
    /\ \E h \in deadTunnels[c] :
         /\ tunnelState' = [tunnelState EXCEPT ![h] = "closed"]
         /\ deadTunnels' = [deadTunnels EXCEPT ![c] = @ \ {h}]
    /\ UNCHANGED <<rows, cacheVars, poolState, pc, conn, mine, held, deadPools>>

\* Everything is closed: CloseConn and Shutdown return, OpenByID returns the
\* winner's pool.
CloseDone(c) ==
    /\ deadPools[c] = {}
    /\ deadTunnels[c] = {}
    /\ Goto(c, "close", IF held[c] = None THEN "idle" ELSE "hold")
    /\ UNCHANGED <<rows, cacheVars, handleVars, ownVars>>

-----------------------------------------------------------------------------
(* The steps a caller takes once it has begun an operation. *)
OpenStep(c) ==
    \/ Reveal(c)
    \/ RevealFails(c)
    \/ OpenTunnel(c)
    \/ OpenTunnelFails(c)
    \/ OpenPool(c)
    \/ OpenPoolFails(c)
    \/ Store(c)
    \/ StoreLost(c)

CloseStep(c) ==
    \/ CloseConn(c)
    \/ BeginClosePool(c)
    \/ EndClosePool(c)
    \/ CloseTunnel(c)
    \/ CloseDone(c)

Next ==
    \/ \E i \in Conns : CreateRow(i)
    \/ \E c \in Callers :
         \/ \E i \in Conns : OpenHit(c, i) \/ OpenMiss(c, i) \/ DeleteRow(c, i)
         \/ OpenStep(c)
         \/ Acquire(c)
         \/ Release(c)
         \/ Finish(c)
         \/ Shutdown(c)
         \/ CloseStep(c)

Spec == Init /\ [][Next]_vars

-----------------------------------------------------------------------------
(* Properties. *)

\* A pool somebody has taken out of the cache to close it, or has closed.
Retired(h) ==
    \/ poolState[h] \in {"closing", "closed"}
    \/ \E c \in Callers : h \in deadPools[c]

\* "Pools are cached lazily on first use and released via CloseConn or
\* Shutdown" (manager.go): an open pool is always reachable by one of them. It
\* is cached, about to be published, or on some goroutine's list to close.
NoLeakedPool ==
    \A h \in Handles : poolState[h] \in {"open", "closing"} =>
        \/ \E i \in Conns : pools[i] = h
        \/ \E c \in Callers : mine[c] = h \/ h \in deadPools[c]

\* The ssh client of an attempt is "torn down with" its pool: while it is up it
\* is cached, belongs to an attempt under way, or is on a list to close.
NoLeakedTunnel ==
    \A h \in Handles : tunnelState[h] = "open" =>
        \/ \E i \in Conns : tunnels[i] = h
        \/ \E c \in Callers : mine[c] = h \/ h \in deadTunnels[c]

\* Whatever interleaves, and whichever step of OpenByID fails, nothing that was
\* opened is lost.
NothingLeaks == NoLeakedPool /\ NoLeakedTunnel

\* The cache never serves a pool that Close was called on, and the tunnel
\* cached beside a pool is the one that pool dials through.
CacheCoherent ==
    \A i \in Conns :
        /\ pools[i] # None => poolState[pools[i]] = "open" /\ ~ Retired(pools[i])
        /\ tunnels[i] = (IF i \in Tunnelled THEN pools[i] ELSE None)

\* A tunnel is never closed under a running statement: CloseConn, Shutdown and
\* the losing OpenByID wait for driver.Close before they close the tunnel.
NoTunnelCut ==
    \A c \in Callers :
        pc[c] = "busy" /\ conn[c] \in Tunnelled => tunnelState[held[c]] = "open"

\* "Concurrent callers receive the same Pool instance" (OpenByID): two callers
\* that hold pools of one connection hold the same one, unless one of the two
\* pools has been retired since.
SamePool ==
    \A c, d \in Callers :
        /\ held[c] # None /\ ~ Retired(held[c])
        /\ held[d] # None /\ ~ Retired(held[d])
        /\ conn[c] = conn[d]
        => held[c] = held[d]

\* No opener replaces a published pool: an entry only goes from absent to a
\* pool and, through CloseConn or Shutdown, back to absent.
CacheNeverReplaced ==
    [][\A i \in Conns : pools[i] # None => pools'[i] \in {pools[i], None}]_vars

\* The connection i is deleted, not cached, and no OpenByID that read its row
\* before the delete is still under way.
Gone(i) ==
    /\ rows[i] = "deleted"
    /\ pools[i] = None
    /\ \A c \in Callers : conn[c] = i => pc[c] \notin {"tunnel", "open", "store"}

\* Once a deleted connection has drained, no later OpenByID brings a pool for
\* it back, whatever it was doing when the row went.
GoneStaysGone ==
    [][\A i \in Conns : Gone(i) => Gone(i)']_vars
===============================================================================
