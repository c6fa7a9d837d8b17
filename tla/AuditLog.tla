------------------------------- MODULE AuditLog -------------------------------
(***************************************************************************)
(* store.AuditRepo on SQLite.  Append runs in a deferred transaction: its  *)
(* first SELECT takes a snapshot of the database file, its INSERT upgrades *)
(* to the single write lock and fails at once (SQLITE_BUSY, which          *)
(* busy_timeout does not retry for an upgrade) when another connection     *)
(* holds the lock or has committed anything since the snapshot.  The       *)
(* callers swallow the error.  RunInit writes the genesis row into an      *)
(* empty log and verifies the chain of any other before the server starts. *)
(* audit.Hash joins user_id, action and resource without a separator: the  *)
(* chain covers their concatenation, not where each of them ends.          *)
(***************************************************************************)
EXTENDS Naturals, Sequences

CONSTANTS
    Writers,            \* goroutines that append
    Texts,              \* values of user_id, action and resource: bytes
    Rests,              \* values of ts_ns and details, taken together
    Actions,            \* auditable actions, each attempted at most once
    Genesis,            \* the bootstrap.init entry
    Digests,            \* SHA-256 values
    Sha256(_, _, _),    \* SHA-256 of an encoded entry: id, encoding, prev_hash
    GenesisHash,        \* the prev_hash of the first entry
    MaxVersion,         \* bound: commits explored
    None

\* What an event says: the columns of its row but for id and hashes.
Entry == [user : Texts, action : Texts, resource : Texts, rest : Rests]

\* The bytes audit.Hash makes of an entry between its id and its prev_hash.  The
\* time has a fixed width and the details are one JSON object, canonical; the
\* three texts run into each other.
Encode(e) == [text |-> e.user \o e.action \o e.resource, rest |-> e.rest]

Event == Actions \cup {Genesis}

ASSUME AuditAssumption ==
    /\ Texts \subseteq Seq(Nat)
    /\ Event \subseteq Entry
    /\ Genesis \notin Actions
    /\ None \notin Writers
    /\ GenesisHash \in Digests
    /\ MaxVersion \in Nat

ASSUME HashAssumption ==
    \A i \in 1..MaxVersion, e \in Event, p \in Digests :
        Sha256(i, Encode(e), p) \in Digests

VARIABLES
    log,        \* the committed rows of audit_log, in id order
    version,    \* commits to the database file so far
    lock,       \* the writer that holds SQLite's write lock
    up,         \* the server runs
    pc,         \* each writer: "idle", "read" (snapshot taken), "inserted",
                \* "committed" (Append has not returned yet)
    snap,       \* the version its snapshot was taken at
    tail,       \* the next id and the prev_hash it read there
    event,      \* what it appends
    outcome     \* history: how the Append of each action ended

txVars == <<pc, snap, tail, event>>
vars   == <<log, version, lock, up, txVars, outcome>>

Row   == [id : Nat, ev : Entry, sealedFor : Nat, prev : Digests, hash : Digests]
Tip   == [id : Nat, prev : Digests]

\* Append has not been called, has not returned, returned nil, returned an error
\* (SQLITE_BUSY, or its context ended), or never returns: the process died.
Outcome == {"new", "pending", "ok", "busy", "aborted", "died"}

Init ==
    /\ log = <<>>
    /\ version = 0
    /\ lock = None
    /\ up = FALSE
    /\ pc = [w \in Writers |-> "idle"]
    /\ snap = [w \in Writers |-> 0]
    /\ tail = [w \in Writers |-> [id |-> 1, prev |-> GenesisHash]]
    /\ event = [w \in Writers |-> Genesis]
    /\ outcome = [e \in Actions |-> "new"]

-----------------------------------------------------------------------------
(* The chain. *)

\* The entry hash of the last row (GenesisHash when there is none) and MAX(id)+1.
ReadTail(l) ==
    [id   |-> IF l = <<>> THEN 1 ELSE l[Len(l)].id + 1,
     prev |-> IF l = <<>> THEN GenesisHash ELSE l[Len(l)].hash]

\* The row Append builds: details encrypted under the AAD "audit:<id>", hash
\* over the entry with its prev_hash.
NewRow(t, e) ==
    [id |-> t.id, ev |-> e, sealedFor |-> t.id, prev |-> t.prev,
     hash |-> Sha256(t.id, Encode(e), t.prev)]

\* Faulty variant: the entry hash is not recomputed.
VerifyRowUnhashed(expectedPrev, r) ==
    /\ r.prev = expectedPrev
    /\ r.sealedFor = r.id

\* VerifyChain's check of one row: linkage, decryption under its own id, hash.
VerifyRow(expectedPrev, r) ==
    /\ r.prev = expectedPrev
    /\ r.sealedFor = r.id
    /\ r.hash = Sha256(r.id, Encode(r.ev), r.prev)

\* VerifyChain's walk: every row against the hash of the row before it.
VerifyChain(l) ==
    \A k \in 1..Len(l) : VerifyRow(IF k = 1 THEN GenesisHash ELSE l[k - 1].hash, l[k])

-----------------------------------------------------------------------------
(* RunInit: a crash inside it leaves the log as it was or with its genesis. *)
Boot ==
    /\ ~ up
    /\ version < MaxVersion
    /\ \/ /\ log = <<>>
          /\ log' = <<NewRow(ReadTail(log), Genesis)>>
          /\ version' = version + 1
       \/ /\ log # <<>>
          /\ VerifyChain(log)
          /\ UNCHANGED <<log, version>>
    /\ up' = TRUE
    /\ UNCHANGED <<lock, txVars, outcome>>

\* Append begins: both SELECTs read the same snapshot.
Read(w, e) ==
    /\ up
    /\ pc[w] = "idle"
    /\ outcome[e] = "new"
    /\ pc' = [pc EXCEPT ![w] = "read"]
    /\ snap' = [snap EXCEPT ![w] = version]
    /\ tail' = [tail EXCEPT ![w] = ReadTail(log)]
    /\ event' = [event EXCEPT ![w] = e]
    /\ outcome' = [outcome EXCEPT ![e] = "pending"]
    /\ UNCHANGED <<log, version, lock, up>>

\* Faulty variant: the tail is read outside the transaction.
CanUpgradeStale(w) == lock = None

\* SQLite lets w upgrade: the lock is free and its snapshot is the newest.
CanUpgrade(w) == lock = None /\ snap[w] = version

\* The INSERT, not yet visible to anyone.
Insert(w) ==
    /\ pc[w] = "read"
    /\ CanUpgrade(w)
    /\ lock' = w
    /\ pc' = [pc EXCEPT ![w] = "inserted"]
    /\ UNCHANGED <<log, version, up, snap, tail, event, outcome>>

\* Faulty variant: Append returns nil although nothing was written.
InsertBusyIgnored(w) ==
    /\ pc[w] = "read"
    /\ ~ CanUpgrade(w)
    /\ pc' = [pc EXCEPT ![w] = "idle"]
    /\ outcome' = [outcome EXCEPT ![event[w]] = "ok"]
    /\ UNCHANGED <<log, version, lock, up, snap, tail, event>>

\* The INSERT fails with SQLITE_BUSY: Append returns an error.
InsertBusy(w) ==
    /\ pc[w] = "read"
    /\ ~ CanUpgrade(w)
    /\ pc' = [pc EXCEPT ![w] = "idle"]
    /\ outcome' = [outcome EXCEPT ![event[w]] = "busy"]
    /\ UNCHANGED <<log, version, lock, up, snap, tail, event>>

\* COMMIT: the row is durable; nobody has been told.
Commit(w) ==
    /\ pc[w] = "inserted"
    /\ version < MaxVersion
    /\ log' = Append(log, NewRow(tail[w], event[w]))
    /\ version' = version + 1
    /\ lock' = None
    /\ pc' = [pc EXCEPT ![w] = "committed"]
    /\ UNCHANGED <<up, snap, tail, event, outcome>>

\* Append returns the entry it wrote.
Return(w) ==
    /\ pc[w] = "committed"
    /\ pc' = [pc EXCEPT ![w] = "idle"]
    /\ outcome' = [outcome EXCEPT ![event[w]] = "ok"]
    /\ UNCHANGED <<log, version, lock, up, snap, tail, event>>

\* The request's context ends: database/sql rolls the transaction back.
Rollback(w) ==
    /\ pc[w] \in {"read", "inserted"}
    /\ lock' = IF lock = w THEN None ELSE lock
    /\ pc' = [pc EXCEPT ![w] = "idle"]
    /\ outcome' = [outcome EXCEPT ![event[w]] = "aborted"]
    /\ UNCHANGED <<log, version, up, snap, tail, event>>

\* Any other repository commits a statement to the same file.
OtherCommit ==
    /\ up
    /\ lock = None
    /\ version < MaxVersion
    /\ version' = version + 1
    /\ UNCHANGED <<log, lock, up, txVars, outcome>>

\* Faulty variant: the genesis row is not durable when the server starts.
CrashLosesGenesis ==
    /\ up
    /\ up' = FALSE
    /\ log' = IF Len(log) = 1 THEN <<>> ELSE log
    /\ lock' = None
    /\ pc' = [w \in Writers |-> "idle"]
    /\ outcome' = [e \in Actions |-> IF outcome[e] = "pending" THEN "died" ELSE outcome[e]]
    /\ UNCHANGED <<version, snap, tail, event>>

\* The process dies: open transactions vanish, committed rows stay, also the
\* row of an Append that had yet to return.
Crash ==
    /\ up
    /\ up' = FALSE
    /\ lock' = None
    /\ pc' = [w \in Writers |-> "idle"]
    /\ outcome' = [e \in Actions |-> IF outcome[e] = "pending" THEN "died" ELSE outcome[e]]
    /\ UNCHANGED <<log, version, snap, tail, event>>

Next ==
    \/ Boot
    \/ \E w \in Writers :
         \/ \E e \in Actions : Read(w, e)
         \/ Insert(w)
         \/ InsertBusy(w)
         \/ Commit(w)
         \/ Return(w)
         \/ Rollback(w)
    \/ OtherCommit
    \/ Crash

Spec == Init /\ [][Next]_vars

-----------------------------------------------------------------------------
(* Properties. *)

TypeOK ==
    /\ log \in Seq(Row)
    /\ version \in Nat
    /\ lock \in Writers \cup {None}
    /\ up \in BOOLEAN
    /\ pc \in [Writers -> {"idle", "read", "inserted", "committed"}]
    /\ snap \in [Writers -> Nat]
    /\ tail \in [Writers -> Tip]
    /\ event \in [Writers -> Event]
    /\ outcome \in [Actions -> Outcome]

\* RunInit's verification never refuses a log this program wrote: whatever
\* appends raced, rolled back or died, the rows form one chain with ids 1, 2, ...
ChainVerifies ==
    /\ VerifyChain(log)
    /\ \A k \in 1..Len(log) : log[k].id = k

\* "The genesis entry is always row 1 by construction" (RunInit), and a running
\* server has one.
GenesisIsRowOne ==
    /\ up => log # <<>>
    /\ \A k \in 1..Len(log) : log[k].ev = Genesis <=> k = 1

\* An Append that returned nil wrote its entry exactly once; one that returned an
\* error left nothing; one that has not returned, or died with the process, wrote
\* it once or not at all.
AppendIsAtomic ==
    \A e \in Actions :
        /\ outcome[e] = "ok" => \E k \in 1..Len(log) : log[k].ev = e
        /\ outcome[e] \in {"new", "busy", "aborted"} => \A k \in 1..Len(log) : log[k].ev # e
        /\ \A j, k \in 1..Len(log) : log[j].ev = e /\ log[k].ev = e => j = k

\* Changing any one column of any one committed row breaks verification: the
\* texts and the rest, the id, the id its details are sealed for, either hash.
\* (README.md says so of a row; bytes moved from one text of it to the next are two
\* columns changed, and go unnoticed, for Encode joins them.)
MutationIsFlagged ==
    \A k \in 1..Len(log) :
        /\ \A x \in Texts \ {log[k].ev.user} : ~ VerifyChain([log EXCEPT ![k].ev.user = x])
        /\ \A x \in Texts \ {log[k].ev.action} : ~ VerifyChain([log EXCEPT ![k].ev.action = x])
        /\ \A x \in Texts \ {log[k].ev.resource} : ~ VerifyChain([log EXCEPT ![k].ev.resource = x])
        /\ \A x \in Rests \ {log[k].ev.rest} : ~ VerifyChain([log EXCEPT ![k].ev.rest = x])
        /\ \A i \in (1..Len(log) + 1) \ {k} :
             /\ ~ VerifyChain([log EXCEPT ![k].id = i])
             /\ ~ VerifyChain([log EXCEPT ![k].sealedFor = i])
        /\ \A j \in 1..Len(log) : log[j].hash # log[k].prev =>
             ~ VerifyChain([log EXCEPT ![k].prev = log[j].hash])
        /\ \A j \in (1..Len(log)) \ {k} : ~ VerifyChain([log EXCEPT ![k].hash = log[j].hash])

\* The log implements AppendOnlyLog: it begins with the genesis entry, which comes
\* once, and a committed entry is never changed, reordered, repeated or removed, by
\* an append, an abort or a restart.
Entries == [k \in 1..Len(log) |-> log[k].ev]
Abstract == INSTANCE AppendOnlyLog WITH Event <- Actions, entries <- Entries
AppendOnly == Abstract!Spec

\* "the audit chain captures every statement either way" (sqlcheck): no entry
\* of a request that is still alive is dropped because another one was writing.
EveryActionAudited ==
    \A e \in Actions : outcome[e] # "busy"
=============================================================================
