---------------------------- MODULE AuditLogProofs ----------------------------
(***************************************************************************)
(* Proofs about AuditLog, for any number of writers, actions and commits   *)
(* and any hash function.  A transaction that may still insert read the    *)
(* tail of the log as it is now: a snapshot is current until somebody      *)
(* commits, and from the INSERT on nobody else can.                        *)
(***************************************************************************)
EXTENDS AuditLog, FiniteSetTheorems, SequenceTheorems, TLAPS

USE AuditAssumption, HashAssumption

\* What a transaction under way read is what the log's end still is.
TxInv ==
    \A w \in Writers :
        /\ pc[w] # "idle" => up /\ snap[w] <= version
        /\ pc[w] # "idle" /\ snap[w] = version => tail[w] = ReadTail(log)
        /\ pc[w] = "inserted" => snap[w] = version
        /\ pc[w] = "committed" => snap[w] < version
        /\ pc[w] = "inserted" <=> lock = w

\* The log grows by at most one row per commit.
BoundInv ==
    /\ Len(log) <= version
    /\ version <= MaxVersion

\* An action is in one transaction at most, pending while it is, and in the log
\* from the COMMIT on.
ActionInv ==
    /\ \A w \in Writers : pc[w] # "idle" =>
         event[w] \in Actions /\ outcome[event[w]] = "pending"
    /\ \A w \in Writers : pc[w] \in {"read", "inserted"} =>
         \A k \in 1..Len(log) : log[k].ev # event[w]
    /\ \A w \in Writers : pc[w] = "committed" =>
         \E k \in 1..Len(log) : log[k].ev = event[w]
    /\ \A v, w \in Writers : pc[v] # "idle" /\ pc[w] # "idle" /\ event[v] = event[w] => v = w

IInv ==
    /\ TypeOK
    /\ BoundInv
    /\ TxInv
    /\ ActionInv
    /\ ChainVerifies
    /\ GenesisIsRowOne
    /\ AppendIsAtomic

-----------------------------------------------------------------------------
(* Appending a row to a verified log. *)

\* A row built on the tail of a verified log extends its chain.
LEMMA ExtendChain ==
    ASSUME NEW l \in Seq(Row), NEW e \in Event, Len(l) < MaxVersion,
           VerifyChain(l), \A k \in 1..Len(l) : l[k].id = k
    PROVE  LET r == NewRow(ReadTail(l), e)
           IN  /\ r \in Row
               /\ r.id = Len(l) + 1
               /\ r.ev = e
               /\ VerifyChain(Append(l, r))
               /\ \A k \in 1..Len(Append(l, r)) : Append(l, r)[k].id = k
<1> DEFINE t == ReadTail(l)
           r == NewRow(t, e)
<1>1. t.id = Len(l) + 1 /\ t.prev \in Digests
  <2>1. CASE l = <<>>
    BY <2>1 DEF ReadTail
  <2>2. CASE l # <<>>
    <3>1. Len(l) \in 1..Len(l) /\ l[Len(l)] \in Row
      BY <2>2
    <3>2. l[Len(l)].id = Len(l) /\ l[Len(l)].hash \in Digests
      BY <3>1 DEF Row
    <3> QED
      BY <2>2, <3>2 DEF ReadTail
  <2> QED
    BY <2>1, <2>2
<1>2. r \in Row /\ r.id = Len(l) + 1 /\ r.ev = e
  BY <1>1 DEF NewRow, Row, Event
<1>3. VerifyRow(IF l = <<>> THEN GenesisHash ELSE l[Len(l)].hash, r)
  BY DEF VerifyRow, NewRow, ReadTail
<1>4. ASSUME NEW k \in 1..Len(Append(l, r))
      PROVE  /\ VerifyRow(IF k = 1 THEN GenesisHash ELSE Append(l, r)[k - 1].hash, Append(l, r)[k])
             /\ Append(l, r)[k].id = k
  <2>1. CASE k \in 1..Len(l)
    BY <2>1, <1>2 DEF VerifyChain
  <2>2. CASE k = Len(l) + 1
    BY <2>2, <1>2, <1>3
  <2> QED
    BY <1>2, <1>4, <2>1, <2>2
<1> QED
  BY <1>2, <1>4 DEF VerifyChain

\* The state after the log grew by one such row: still verified, one row longer,
\* and every old row in its place.
LEMMA GrowLog ==
    ASSUME IInv, NEW e \in Event, version < MaxVersion,
           log' = Append(log, NewRow(ReadTail(log), e)), version' = version + 1
    PROVE  /\ log' \in Seq(Row)
           /\ ChainVerifies'
           /\ BoundInv'
           /\ Len(log') = Len(log) + 1
           /\ \A k \in 1..Len(log) : log'[k] = log[k]
           /\ log'[Len(log) + 1].ev = e
<1> DEFINE r == NewRow(ReadTail(log), e)
<1>1. log \in Seq(Row) /\ version \in Nat /\ Len(log) <= version
  BY DEF IInv, TypeOK, BoundInv
<1>2. VerifyChain(log) /\ \A k \in 1..Len(log) : log[k].id = k
  BY DEF IInv, ChainVerifies
<1>3. Len(log) < MaxVersion
  BY <1>1
<1>4. /\ r \in Row
      /\ r.ev = e
      /\ VerifyChain(Append(log, r))
      /\ \A k \in 1..Len(Append(log, r)) : Append(log, r)[k].id = k
  BY <1>1, <1>2, <1>3, ExtendChain
<1>5. ChainVerifies'
  BY <1>4 DEF ChainVerifies, VerifyChain, VerifyRow
<1> QED
  BY <1>1, <1>4, <1>5 DEF BoundInv

-----------------------------------------------------------------------------
(* The invariant, one lemma per action. *)

\* RunInit writes the genesis row into an empty log or leaves the log alone, and
\* no transaction is open while the server is down.
LEMMA BootInv == ASSUME IInv, Boot PROVE IInv'
<1>1. \A w \in Writers : pc[w] = "idle"
  BY DEF IInv, TypeOK, TxInv, Boot
<1>2. TxInv' /\ ActionInv'
  BY <1>1 DEF IInv, TypeOK, TxInv, ActionInv, Boot, txVars
<1>3. CASE log = <<>> /\ log' = <<NewRow(ReadTail(log), Genesis)>> /\ version' = version + 1
  <2>1. log' = Append(log, NewRow(ReadTail(log), Genesis))
    BY <1>3
  <2>2. Genesis \in Event
    BY DEF Event
  <2>3. /\ log' \in Seq(Row)
        /\ ChainVerifies'
        /\ BoundInv'
        /\ Len(log') = 1
        /\ log'[1].ev = Genesis
    <3> HIDE DEF IInv
    <3>1. version < MaxVersion
      BY DEF Boot
    <3>2. version' = version + 1
      BY <1>3
    <3>3. /\ log' \in Seq(Row)
          /\ ChainVerifies'
          /\ BoundInv'
          /\ Len(log') = Len(log) + 1
          /\ log'[Len(log) + 1].ev = Genesis
      BY <2>1, <2>2, <3>1, <3>2, GrowLog
    <3>4. Len(log) = 0
      BY <1>3
    <3> QED
      BY <3>3, <3>4
  <2>4. TypeOK'
    BY <1>3, <2>3 DEF IInv, TypeOK, Boot, txVars
  <2>5. GenesisIsRowOne'
    <3>1. log' # <<>>
      BY <2>3
    <3> QED
      BY <2>3, <3>1 DEF GenesisIsRowOne
  <2>6. \A a \in Actions : outcome[a] # "ok"
    BY <1>3 DEF IInv, AppendIsAtomic
  <2>7. AppendIsAtomic'
    BY <2>3, <2>6 DEF AppendIsAtomic, Boot
  <2> QED
    BY <1>2, <2>3, <2>4, <2>5, <2>7 DEF IInv
<1>4. CASE log # <<>> /\ UNCHANGED <<log, version>>
  <2>1. TypeOK' /\ BoundInv'
    BY <1>4 DEF IInv, TypeOK, BoundInv, Boot, txVars
  <2>2. ChainVerifies' /\ GenesisIsRowOne' /\ AppendIsAtomic'
    BY <1>4 DEF IInv, ChainVerifies, VerifyChain, GenesisIsRowOne, AppendIsAtomic, Boot
  <2> QED
    BY <1>2, <2>1, <2>2 DEF IInv
<1> QED
  BY <1>3, <1>4 DEF Boot

\* A snapshot taken now reads the tail of the log as it is.
LEMMA ReadInv ==
    ASSUME IInv, NEW w \in Writers, NEW e \in Actions, Read(w, e)
    PROVE  IInv'
<1> USE DEF IInv, Read
<1>1. ReadTail(log) \in Tip
  <2>1. CASE log = <<>>
    BY <2>1 DEF ReadTail, Tip
  <2>2. CASE log # <<>>
    <3>1. log[Len(log)] \in Row
      BY <2>2 DEF TypeOK
    <3> QED
      BY <2>2, <3>1 DEF ReadTail, Tip, Row
  <2> QED
    BY <2>1, <2>2
<1>2. TypeOK' /\ BoundInv'
  BY <1>1 DEF TypeOK, BoundInv, Event, Outcome
<1>3. TxInv'
  BY DEF TypeOK, TxInv, ReadTail
<1>4. ActionInv'
  <2>1. \A k \in 1..Len(log') : log'[k].ev # e
    BY DEF AppendIsAtomic
  <2>2. pc'[w] = "read" /\ event'[w] = e /\ outcome'[e] = "pending"
    BY DEF TypeOK
  <2>3. \A v \in Writers \ {w} :
          /\ pc'[v] = pc[v]
          /\ event'[v] = event[v]
          /\ pc[v] # "idle" => event[v] # e
    BY DEF TypeOK, ActionInv
  <2>4. log' = log /\ ActionInv /\ \A d \in Actions : d # e => outcome'[d] = outcome[d]
    BY DEF TypeOK
  <2> HIDE DEF IInv, Read
  <2>5. \A v \in Writers : pc'[v] # "idle" => event'[v] \in Actions /\ outcome'[event'[v]] = "pending"
    BY <2>2, <2>3, <2>4 DEF ActionInv
  <2>6. \A v \in Writers : pc'[v] \in {"read", "inserted"} =>
          \A k \in 1..Len(log') : log'[k].ev # event'[v]
    BY <2>1, <2>2, <2>3, <2>4 DEF ActionInv
  <2>7. \A v \in Writers : pc'[v] = "committed" => \E k \in 1..Len(log') : log'[k].ev = event'[v]
    BY <2>2, <2>3, <2>4 DEF ActionInv
  <2>8. \A u, v \in Writers :
          pc'[u] # "idle" /\ pc'[v] # "idle" /\ event'[u] = event'[v] => u = v
    BY <2>2, <2>3, <2>4 DEF ActionInv
  <2> QED
    BY <2>5, <2>6, <2>7, <2>8 DEF ActionInv
<1>5. ChainVerifies' /\ GenesisIsRowOne'
  BY DEF ChainVerifies, VerifyChain, GenesisIsRowOne
<1>6. AppendIsAtomic'
  BY DEF TypeOK, AppendIsAtomic
<1> QED
  BY <1>2, <1>3, <1>4, <1>5, <1>6

\* The write lock goes to a transaction whose snapshot is current.
LEMMA InsertInv ==
    ASSUME IInv, NEW w \in Writers, Insert(w)
    PROVE  IInv'
<1> USE DEF IInv, Insert
<1>1. TypeOK' /\ BoundInv'
  BY DEF TypeOK, BoundInv
<1>2. TxInv'
  BY DEF TypeOK, TxInv, CanUpgrade, ReadTail
<1>3. ActionInv'
  BY DEF TypeOK, ActionInv
<1>4. ChainVerifies' /\ GenesisIsRowOne' /\ AppendIsAtomic'
  BY DEF ChainVerifies, VerifyChain, GenesisIsRowOne, AppendIsAtomic
<1> QED
  BY <1>1, <1>2, <1>3, <1>4

\* Only the writer w stops, its Append ending in o: nobody else's transaction is
\* touched.
LEMMA OthersGoOn ==
    ASSUME IInv, NEW w \in Writers, pc[w] # "idle", NEW o \in Outcome,
           UNCHANGED <<log, up, event>>,
           pc' = [pc EXCEPT ![w] = "idle"],
           outcome' = [outcome EXCEPT ![event[w]] = o]
    PROVE  /\ ActionInv'
           /\ ChainVerifies'
           /\ GenesisIsRowOne'
<1>1. \A v \in Writers \ {w} : pc'[v] # "idle" =>
        pc'[v] = pc[v] /\ event[v] # event[w] /\ outcome'[event[v]] = outcome[event[v]]
  BY DEF IInv, TypeOK, ActionInv
<1>2. pc'[w] = "idle"
  BY DEF IInv, TypeOK
<1>3. ActionInv'
  BY <1>1, <1>2 DEF IInv, TypeOK, ActionInv
<1> QED
  BY <1>3 DEF IInv, ChainVerifies, VerifyChain, GenesisIsRowOne

\* A transaction that ends without committing frees what it held and leaves the
\* log alone.
LEMMA AbortInv ==
    ASSUME IInv, NEW w \in Writers, InsertBusy(w) \/ Rollback(w)
    PROVE  IInv'
<1>1. /\ pc[w] \in {"read", "inserted"}
      /\ event[w] \in Actions
      /\ \A k \in 1..Len(log) : log[k].ev # event[w]
  BY DEF IInv, ActionInv, InsertBusy, Rollback
<1>2. PICK o \in {"busy", "aborted"} : outcome' = [outcome EXCEPT ![event[w]] = o]
  BY DEF InsertBusy, Rollback
<1>3. TypeOK' /\ BoundInv'
  BY <1>1 DEF IInv, InsertBusy, Rollback, TypeOK, BoundInv, Outcome
<1>4. TxInv'
  BY DEF IInv, InsertBusy, Rollback, TypeOK, TxInv, ReadTail
<1>5. ActionInv' /\ ChainVerifies' /\ GenesisIsRowOne'
  <2>1. /\ o \in Outcome
        /\ pc[w] # "idle"
        /\ UNCHANGED <<log, up, event>>
        /\ pc' = [pc EXCEPT ![w] = "idle"]
    BY <1>1 DEF Outcome, InsertBusy, Rollback
  <2> QED
    BY <1>2, <2>1, OthersGoOn
<1>6. AppendIsAtomic'
  <2>1. log' = log
    BY DEF InsertBusy, Rollback
  <2>2. outcome'[event[w]] = o /\ \A a \in Actions \ {event[w]} : outcome'[a] = outcome[a]
    BY <1>1, <1>2 DEF IInv, TypeOK
  <2> QED
    BY <1>1, <2>1, <2>2 DEF IInv, AppendIsAtomic
<1> QED
  BY <1>3, <1>4, <1>5, <1>6 DEF IInv

\* Append returns an entry that is in the log.
LEMMA ReturnInv ==
    ASSUME IInv, NEW w \in Writers, Return(w)
    PROVE  IInv'
<1>1. /\ pc[w] = "committed"
      /\ event[w] \in Actions
      /\ \E k \in 1..Len(log) : log[k].ev = event[w]
      /\ log' = log
  BY DEF IInv, ActionInv, Return
<1>2. TypeOK' /\ BoundInv'
  BY <1>1 DEF IInv, Return, TypeOK, BoundInv, Outcome
<1>3. TxInv'
  BY DEF IInv, Return, TypeOK, TxInv, ReadTail
<1>4. ActionInv' /\ ChainVerifies' /\ GenesisIsRowOne'
  <2>1. /\ "ok" \in Outcome
        /\ pc[w] # "idle"
        /\ UNCHANGED <<log, up, event>>
        /\ pc' = [pc EXCEPT ![w] = "idle"]
        /\ outcome' = [outcome EXCEPT ![event[w]] = "ok"]
    BY DEF Outcome, Return
  <2> QED
    BY <2>1, OthersGoOn
<1>5. AppendIsAtomic'
  <2>1. outcome'[event[w]] = "ok" /\ \A a \in Actions \ {event[w]} : outcome'[a] = outcome[a]
    BY <1>1 DEF IInv, TypeOK, Return
  <2> QED
    BY <1>1, <2>1 DEF IInv, AppendIsAtomic
<1> QED
  BY <1>2, <1>3, <1>4, <1>5 DEF IInv

\* The committed row is built on the current tail, because the snapshot of the
\* transaction that holds the lock is current.
LEMMA CommitRow ==
    ASSUME IInv, NEW w \in Writers, Commit(w)
    PROVE  /\ event[w] \in Actions
           /\ outcome[event[w]] = "pending"
           /\ \A k \in 1..Len(log) : log[k].ev # event[w]
           /\ up
           /\ lock = w
           /\ log' = Append(log, NewRow(ReadTail(log), event[w]))
           /\ log' \in Seq(Row)
           /\ ChainVerifies'
           /\ BoundInv'
           /\ Len(log') = Len(log) + 1
           /\ \A k \in 1..Len(log) : log'[k] = log[k]
           /\ log'[Len(log) + 1].ev = event[w]
<1>1. /\ event[w] \in Actions
      /\ outcome[event[w]] = "pending"
      /\ \A k \in 1..Len(log) : log[k].ev # event[w]
      /\ lock = w
      /\ up
      /\ tail[w] = ReadTail(log)
  BY DEF IInv, TxInv, ActionInv, Commit
<1>2. event[w] \in Event
  BY <1>1 DEF Event
<1>3. log' = Append(log, NewRow(ReadTail(log), event[w]))
  BY <1>1 DEF Commit
<1> QED
  BY <1>1, <1>2, <1>3, GrowLog DEF Commit

\* Commit keeps the invariant: the other open transactions become stale.
LEMMA CommitInv ==
    ASSUME IInv, NEW w \in Writers, Commit(w)
    PROVE  IInv'
<1>1. /\ event[w] \in Actions
      /\ outcome[event[w]] = "pending"
      /\ \A k \in 1..Len(log) : log[k].ev # event[w]
      /\ up
      /\ lock = w
      /\ log' \in Seq(Row)
      /\ ChainVerifies'
      /\ BoundInv'
      /\ Len(log') = Len(log) + 1
      /\ \A k \in 1..Len(log) : log'[k] = log[k]
      /\ log'[Len(log) + 1].ev = event[w]
  BY CommitRow
<1>2. TypeOK'
  BY <1>1 DEF IInv, TypeOK, Commit, Outcome
<1>3. TxInv'
  BY <1>1 DEF IInv, TypeOK, TxInv, Commit
<1>4. Len(log) \in Nat
  BY DEF IInv, TypeOK
<1>5. \A k \in 1..Len(log') : k \in 1..Len(log) \/ k = Len(log) + 1
  BY <1>1, <1>4
<1>6. ActionInv'
  <2>1. UNCHANGED <<event, outcome>> /\ pc' = [pc EXCEPT ![w] = "committed"]
    BY DEF Commit
  <2>2. \A v \in Writers \ {w} : pc'[v] # "idle" => pc'[v] = pc[v] /\ event[v] # event[w]
    BY <2>1 DEF IInv, TypeOK, ActionInv, Commit
  <2>3. pc'[w] = "committed" /\ Len(log) + 1 \in 1..Len(log')
    BY <1>1, <1>4, <2>1 DEF IInv, TypeOK
  <2>4. \A v \in Writers : pc'[v] \in {"read", "inserted"} =>
          \A k \in 1..Len(log') : log'[k].ev # event'[v]
    BY <1>1, <1>5, <2>1, <2>2, <2>3 DEF IInv, ActionInv
  <2>5. \A v \in Writers : pc'[v] = "committed" =>
          \E k \in 1..Len(log') : log'[k].ev = event'[v]
    <3> TAKE v \in Writers
    <3>1. CASE v = w
      BY <1>1, <2>1, <2>3, <3>1
    <3>2. CASE v # w /\ pc'[v] = "committed"
      <4>1. PICK k \in 1..Len(log) : log[k].ev = event[v]
        BY <2>2, <3>2 DEF IInv, ActionInv
      <4>2. k \in 1..Len(log') /\ log'[k].ev = event'[v]
        BY <1>1, <1>4, <2>1, <4>1
      <4> QED
        BY <4>2
    <3> QED
      BY <3>1, <3>2
  <2>6. /\ \A v \in Writers : pc'[v] # "idle" =>
             event'[v] \in Actions /\ outcome'[event'[v]] = "pending"
        /\ \A u, v \in Writers : pc'[u] # "idle" /\ pc'[v] # "idle" /\ event'[u] = event'[v]
             => u = v
    BY <1>1, <2>1, <2>2 DEF IInv, TypeOK, ActionInv
  <2> QED
    BY <2>4, <2>5, <2>6 DEF ActionInv
<1>7. GenesisIsRowOne'
  <2>1. log # <<>> /\ Len(log) > 0 /\ event[w] # Genesis
    BY <1>1 DEF IInv, TypeOK, GenesisIsRowOne
  <2>2. log' # <<>>
    BY <1>1, <1>4
  <2> QED
    BY <1>1, <1>4, <1>5, <2>1, <2>2 DEF IInv, GenesisIsRowOne
<1>8. AppendIsAtomic'
  <2> SUFFICES ASSUME NEW a \in Actions
               PROVE  /\ outcome[a] = "ok" => \E k \in 1..Len(log') : log'[k].ev = a
                      /\ outcome[a] \in {"new", "busy", "aborted"} =>
                           \A k \in 1..Len(log') : log'[k].ev # a
                      /\ \A j, k \in 1..Len(log') : log'[j].ev = a /\ log'[k].ev = a => j = k
    BY DEF AppendIsAtomic, Commit
  <2>1. /\ outcome[a] = "ok" => \E k \in 1..Len(log) : log[k].ev = a
        /\ outcome[a] \in {"new", "busy", "aborted"} => \A k \in 1..Len(log) : log[k].ev # a
        /\ \A j, k \in 1..Len(log) : log[j].ev = a /\ log[k].ev = a => j = k
    BY DEF IInv, AppendIsAtomic
  <2>2. CASE a = event[w]
    <3>1. \A k \in 1..Len(log) : log'[k].ev # a
      BY <1>1, <2>2
    <3> QED
      BY <1>1, <1>5, <2>2, <3>1
  <2>3. CASE a # event[w]
    BY <1>1, <1>4, <1>5, <2>1, <2>3
  <2> QED
    BY <2>2, <2>3
<1> QED
  BY <1>1, <1>2, <1>3, <1>6, <1>7, <1>8 DEF IInv

\* A commit of another repository makes every open snapshot stale.
LEMMA OtherCommitInv == ASSUME IInv, OtherCommit PROVE IInv'
<1> USE DEF IInv, OtherCommit, txVars
<1>1. TypeOK' /\ BoundInv'
  BY DEF TypeOK, BoundInv
<1>2. TxInv'
  BY DEF TypeOK, TxInv
<1>3. ActionInv' /\ ChainVerifies' /\ GenesisIsRowOne' /\ AppendIsAtomic'
  BY DEF ActionInv, ChainVerifies, VerifyChain, GenesisIsRowOne, AppendIsAtomic
<1> QED
  BY <1>1, <1>2, <1>3

\* A crash forgets the open transactions and nothing else.
LEMMA CrashInv == ASSUME IInv, Crash PROVE IInv'
<1> USE DEF IInv, Crash
<1>1. TypeOK' /\ BoundInv'
  BY DEF TypeOK, BoundInv, Outcome
<1>2. TxInv' /\ ActionInv'
  BY DEF TypeOK, TxInv, ActionInv
<1>3. ChainVerifies' /\ GenesisIsRowOne'
  BY DEF ChainVerifies, VerifyChain, GenesisIsRowOne
<1>4. AppendIsAtomic'
  BY DEF TypeOK, AppendIsAtomic
<1> QED
  BY <1>1, <1>2, <1>3, <1>4

\* The empty log of a fresh database satisfies the invariant.
LEMMA InitInv == Init => IInv
<1> SUFFICES ASSUME Init PROVE IInv
  OBVIOUS
<1>1. TypeOK /\ BoundInv
  <2>1. tail \in [Writers -> Tip] /\ event \in [Writers -> Event]
    BY DEF Init, Tip, Event
  <2>2. log \in Seq(Row) /\ Len(log) = 0
    BY DEF Init
  <2>3. BoundInv
    BY <2>2 DEF Init, BoundInv
  <2>4. version \in Nat /\ snap \in [Writers -> Nat]
    BY DEF Init
  <2> QED
    BY <2>1, <2>2, <2>3, <2>4 DEF Init, TypeOK, Outcome
<1>2. TxInv /\ ActionInv
  BY DEF Init, TxInv, ActionInv
<1>3. ChainVerifies /\ GenesisIsRowOne /\ AppendIsAtomic
  BY DEF Init, ChainVerifies, VerifyChain, GenesisIsRowOne, AppendIsAtomic
<1> QED
  BY <1>1, <1>2, <1>3 DEF IInv

\* Every step preserves it.
LEMMA NextInv == IInv /\ [Next]_vars => IInv'
<1> SUFFICES ASSUME IInv, [Next]_vars PROVE IInv'
  OBVIOUS
<1>1. CASE Next
  BY <1>1, BootInv, ReadInv, InsertInv, AbortInv, CommitInv, ReturnInv, OtherCommitInv, CrashInv DEF Next
<1>2. CASE UNCHANGED vars
  <2> USE <1>2 DEF vars, txVars, IInv
  <2>1. TypeOK' /\ BoundInv' /\ ActionInv'
    BY DEF TypeOK, BoundInv, ActionInv
  <2>2. TxInv'
    BY DEF TxInv, ReadTail
  <2>3. ChainVerifies' /\ GenesisIsRowOne' /\ AppendIsAtomic'
    BY DEF ChainVerifies, VerifyChain, GenesisIsRowOne, AppendIsAtomic
  <2> QED
    BY <2>1, <2>2, <2>3
<1> QED
  BY <1>1, <1>2

-----------------------------------------------------------------------------
(* The theorems. *)

\* The inductive invariant holds in every reachable state of AuditRepo.
THEOREM Invariance == Spec => []IInv
BY InitInv, NextInv, PTL DEF Spec

\* Type correctness of the log, the transactions and their outcomes.
THEOREM TypeCorrect == Spec => []TypeOK
<1>1. IInv => TypeOK
  BY DEF IInv
<1> QED
  BY <1>1, Invariance, PTL

\* RunInit's VerifyChain accepts every log that Append wrote, however appends
\* raced, failed or were cut off by a crash.
THEOREM ChainAlwaysVerifies == Spec => []ChainVerifies
<1>1. IInv => ChainVerifies
  BY DEF IInv
<1> QED
  BY <1>1, Invariance, PTL

\* The genesis entry is row 1, and there is only one, across any number of boots.
THEOREM GenesisFirst == Spec => []GenesisIsRowOne
<1>1. IInv => GenesisIsRowOne
  BY DEF IInv
<1> QED
  BY <1>1, Invariance, PTL

\* Append wrote its entry exactly once when it returned nil, not at all when it
\* returned an error, and once or not at all when the process died under it.
THEOREM AppendAtomic == Spec => []AppendIsAtomic
<1>1. IInv => AppendIsAtomic
  BY DEF IInv
<1> QED
  BY <1>1, Invariance, PTL

\* The audit log implements AppendOnlyLog: the first start writes the one genesis
\* entry, each commit of an Append adds a new entry at the end, and no other step
\* touches the entries.
THEOREM LogIsAppendOnly == Spec => AppendOnly
<1>1. Init => Abstract!Init
  BY DEF Init, Abstract!Init, Entries
<1>2. ASSUME IInv, IInv', [Next]_vars
      PROVE  [Abstract!Next]_Entries
  <2>1. log \in Seq(Row) /\ log' \in Seq(Row) /\ Entries \in Seq(Entry) /\ Len(Entries) = Len(log)
    <3>1. log \in Seq(Row) /\ log' \in Seq(Row)
      BY <1>2 DEF IInv, TypeOK
    <3>2. \A k \in 1..Len(log) : log[k] \in Row
      BY <3>1
    <3>3. \A k \in 1..Len(log) : log[k].ev \in Entry
      BY <3>2 DEF Row
    <3> QED
      BY <3>1, <3>3 DEF Entries
  <2>2. ASSUME NEW e \in Event, log' = Append(log, NewRow(ReadTail(log), e))
        PROVE  Entries' = Append(Entries, e)
    <3>1. NewRow(ReadTail(log), e).ev = e
      BY DEF NewRow
    <3>2. NewRow(ReadTail(log), e) \in Row
      <4>1. log'[Len(log')] = NewRow(ReadTail(log), e) /\ Len(log') \in 1..Len(log')
        BY <2>1, <2>2
      <4> QED
        BY <2>1, <4>1
    <3> QED
      BY <2>1, <2>2, <3>1, <3>2 DEF Entries
  <2>3. CASE Boot /\ log = <<>>
    <3>1. log' = Append(log, NewRow(ReadTail(log), Genesis))
      BY <2>3 DEF Boot
    <3>2. Entries' = Append(Entries, Genesis)
      BY <2>2, <3>1 DEF Event
    <3>3. Entries = <<>>
      BY <2>3 DEF Entries
    <3> QED
      BY <3>2, <3>3 DEF Abstract!Next, Abstract!Begin
  <2>4. CASE \E w \in Writers : Commit(w)
    <3>1. PICK w \in Writers : Commit(w)
      BY <2>4
    <3> DEFINE e == event[w]
    <3>2. e \in Actions /\ log' = Append(log, NewRow(ReadTail(log), e))
      BY <1>2, <3>1, CommitRow
    <3>3. Entries' = Append(Entries, e)
      BY <2>2, <3>2 DEF Event
    <3>4. Entries # <<>>
      <4>1. log # <<>>
        BY <1>2, <3>1 DEF IInv, TxInv, GenesisIsRowOne, Commit
      <4> QED
        BY <2>1, <4>1
    <3>5. \A k \in 1..Len(Entries) : Entries[k] # e
      <4> SUFFICES ASSUME NEW k \in 1..Len(log), log[k].ev = e PROVE FALSE
        BY <2>1 DEF Entries
      <4>1. /\ Len(log') = Len(log) + 1 /\ k \in 1..Len(log') /\ Len(log') \in 1..Len(log')
            /\ log'[k] = log[k] /\ log'[Len(log')].ev = e /\ k # Len(log')
        BY <2>1, <3>2 DEF NewRow
      <4> QED
        BY <1>2, <3>2, <4>1 DEF IInv, AppendIsAtomic
    <3> QED
      BY <3>2, <3>3, <3>4, <3>5 DEF Abstract!Next, Abstract!Add
  <2>5. CASE log' = log
    BY <2>5 DEF Entries
  <2>6. log' = log \/ (Boot /\ log = <<>>) \/ \E w \in Writers : Commit(w)
    BY <1>2 DEF Next, vars, Boot, Read, Insert, InsertBusy, Return, Rollback, OtherCommit, Crash
  <2> QED
    BY <2>3, <2>4, <2>5, <2>6
<1> QED
  BY <1>1, <1>2, Invariance, PTL DEF Spec, AppendOnly, Abstract!Spec

-----------------------------------------------------------------------------
(* What the chain proves of the log. *)

\* A set of naturals has a least element.
LEMMA Least ==
    ASSUME NEW T \in SUBSET Nat, T # {}
    PROVE  \E n \in T : \A m \in T : n <= m
<1> DEFINE Low(n) == {m \in T : m <= n}
           F == {Low(n) : n \in T}
<1>1. F \subseteq FiniteSubsetsOf(Nat)
  <2> SUFFICES ASSUME NEW n \in T PROVE Low(n) \in FiniteSubsetsOf(Nat)
    OBVIOUS
  <2>1. Low(n) \in SUBSET Nat /\ \A s \in Low(n) : s <= n
    OBVIOUS
  <2>2. IsFiniteSet(Low(n))
    BY <2>1, FS_BoundedSetOfNaturals
  <2> QED
    BY <2>1, <2>2 DEF FiniteSubsetsOf
<1>2. PICK X \in F : \A Y \in F : <<Y, X>> \notin StrictSubsetOrdering(Nat)
  <2>1. F # {}
    <3>1. PICK n \in T : TRUE
      OBVIOUS
    <3> QED
      BY <3>1
  <2> QED
  BY <1>1, <2>1, FS_StrictSubsetOrderingWellFounded, WFMin
<1>3. PICK n \in T : X = Low(n)
  BY <1>2
<1>4. ASSUME NEW m \in T, m < n PROVE FALSE
  <2>1. n \in Low(n) /\ n \notin Low(m) /\ \A i \in T : i <= m => i <= n
    BY <1>4
  <2>2. Low(m) \in SUBSET Nat /\ Low(n) \in SUBSET Nat /\ Low(m) \subseteq Low(n)
    BY <2>1
  <2>3. <<Low(m), X>> \in StrictSubsetOrdering(Nat)
    BY <1>3, <2>1, <2>2 DEF StrictSubsetOrdering
  <2> QED
    BY <1>2, <2>3
<1> QED
  BY <1>4

\* A sequence cut off at either end of equal sequences leaves equal sequences.
LEMMA Cancel ==
    /\ \A s, t, v \in Seq(Nat) : s \o t = s \o v => t = v
    /\ \A s, t, v \in Seq(Nat) : s \o v = t \o v => s = t
BY ConcatSimplifications, Zenon

\* Three sequences join to the same as three others.
SameJoin(a, b, c, x, y, z) == (a \o b) \o c = (x \o y) \o z

\* Then the third is equal where two of them are.
LEMMA JoinCancels ==
    ASSUME NEW a \in Seq(Nat), NEW b \in Seq(Nat), NEW c \in Seq(Nat),
           NEW x \in Seq(Nat), NEW y \in Seq(Nat), NEW z \in Seq(Nat),
           SameJoin(a, b, c, x, y, z)
    PROVE  /\ b = y /\ c = z => a = x
           /\ a = x /\ c = z => b = y
           /\ a = x /\ b = y => c = z
<1>1. /\ a \o b \in Seq(Nat)
      /\ x \o y \in Seq(Nat)
  OBVIOUS
<1>2. ASSUME c = z PROVE a \o b = x \o y
  <2>1. (a \o b) \o c = (x \o y) \o c
    BY <1>2 DEF SameJoin
  <2> QED
    BY <1>1, <2>1, Cancel, Zenon
<1>3. ASSUME b = y, c = z PROVE a = x
  <2>1. a \o b = x \o b
    BY <1>2, <1>3, Zenon
  <2> QED
    BY <2>1, Cancel, Zenon
<1>4. ASSUME a = x, c = z PROVE b = y
  <2>1. a \o b = a \o y
    BY <1>2, <1>4, Zenon
  <2> QED
    BY <2>1, Cancel, Zenon
<1>5. ASSUME a = x, b = y PROVE c = z
  <2>1. (a \o b) \o c = (a \o b) \o z
    BY <1>5, Zenon DEF SameJoin
  <2> QED
    BY <1>1, <2>1, Cancel, Zenon
<1> QED
  BY <1>3, <1>4, <1>5, Zenon

\* Two entries with the same encoding that differ in one column at most are the
\* same: what a column gains in the joined bytes another must lose.
LEMMA OneColumnShows ==
    ASSUME NEW e \in Entry, NEW f \in Entry, Encode(e) = Encode(f),
           \/ e.action = f.action /\ e.resource = f.resource
           \/ e.user = f.user /\ e.resource = f.resource
           \/ e.user = f.user /\ e.action = f.action
    PROVE  e = f
<1>1. /\ e.user \in Seq(Nat) /\ e.action \in Seq(Nat) /\ e.resource \in Seq(Nat)
      /\ f.user \in Seq(Nat) /\ f.action \in Seq(Nat) /\ f.resource \in Seq(Nat)
  BY DEF Entry
<1>2. /\ (e.user \o e.action) \o e.resource = (f.user \o f.action) \o f.resource
      /\ e.rest = f.rest
  BY DEF Encode
<1>3. /\ e.action = f.action /\ e.resource = f.resource => e.user = f.user
      /\ e.user = f.user /\ e.resource = f.resource => e.action = f.action
      /\ e.user = f.user /\ e.action = f.action => e.resource = f.resource
  <2> DEFINE a == e.user
             b == e.action
             c == e.resource
             x == f.user
             y == f.action
             z == f.resource
  <2>1. /\ a \in Seq(Nat) /\ b \in Seq(Nat) /\ c \in Seq(Nat)
        /\ x \in Seq(Nat) /\ y \in Seq(Nat) /\ z \in Seq(Nat)
        /\ SameJoin(a, b, c, x, y, z)
    BY <1>1, <1>2 DEF SameJoin
  <2> HIDE DEF a, b, c, x, y, z
  <2>2. /\ b = y /\ c = z => a = x
        /\ a = x /\ c = z => b = y
        /\ a = x /\ b = y => c = z
    BY <2>1, JoinCancels, SMT
  <2> QED
    BY <2>2 DEF a, b, c, x, y, z
<1>4. e.user = f.user /\ e.action = f.action /\ e.resource = f.resource
  BY <1>3, Zenon
<1>5. /\ e = [user |-> e.user, action |-> e.action, resource |-> e.resource, rest |-> e.rest]
      /\ f = [user |-> f.user, action |-> f.action, resource |-> f.resource, rest |-> f.rest]
  BY DEF Entry
<1> QED
  BY <1>2, <1>4, <1>5, Zenon

\* The hash does not tell event e in the place of row r from event f in that of s,
\* although their encodings differ.
Collides(r, e, s, f) ==
    /\ Sha256(r.id, Encode(e), r.prev) = Sha256(s.id, Encode(f), s.prev)
    /\ <<r.id, Encode(e), r.prev>> # <<s.id, Encode(f), s.prev>>

RowsOf(l) == {l[k] : k \in 1..Len(l)}

\* What SHA-256 is relied on for: no two different encodings, each in the place of
\* one of these rows, hash to the same value.
CollisionFree(rows) ==
    \A r, s \in rows : \A e, f \in Entry : ~ Collides(r, e, s, f)

\* What VerifyChain says of one row.
LEMMA RowOfChain ==
    ASSUME NEW l \in Seq(Row), VerifyChain(l), NEW k \in 1..Len(l)
    PROVE  /\ l[k] \in Row
           /\ l[k] \in RowsOf(l)
           /\ l[k].ev \in Entry
           /\ l[k].prev = IF k = 1 THEN GenesisHash ELSE l[k - 1].hash
           /\ l[k].sealedFor = l[k].id
           /\ l[k].hash = Sha256(l[k].id, Encode(l[k].ev), l[k].prev)
<1>1. VerifyRow(IF k = 1 THEN GenesisHash ELSE l[k - 1].hash, l[k])
  BY DEF VerifyChain
<1>2. l[k] \in Row /\ l[k] \in RowsOf(l)
  BY DEF RowsOf
<1>3. l[k].ev \in Entry
  BY <1>2 DEF Row
<1> QED
  BY <1>1, <1>2, <1>3 DEF VerifyRow

\* In a verified log with ids 1, 2, ... and no collision, a change of one column
\* of one row is found.
LEMMA MutationIsFound ==
    ASSUME NEW l \in Seq(Row), VerifyChain(l), \A k \in 1..Len(l) : l[k].id = k,
           CollisionFree(RowsOf(l)), NEW k \in 1..Len(l)
    PROVE  /\ \A x \in Texts \ {l[k].ev.user} : ~ VerifyChain([l EXCEPT ![k].ev.user = x])
           /\ \A x \in Texts \ {l[k].ev.action} : ~ VerifyChain([l EXCEPT ![k].ev.action = x])
           /\ \A x \in Texts \ {l[k].ev.resource} :
                ~ VerifyChain([l EXCEPT ![k].ev.resource = x])
           /\ \A x \in Rests \ {l[k].ev.rest} : ~ VerifyChain([l EXCEPT ![k].ev.rest = x])
           /\ \A i \in (1..Len(l) + 1) \ {k} :
                /\ ~ VerifyChain([l EXCEPT ![k].id = i])
                /\ ~ VerifyChain([l EXCEPT ![k].sealedFor = i])
           /\ \A j \in 1..Len(l) : l[j].hash # l[k].prev =>
                ~ VerifyChain([l EXCEPT ![k].prev = l[j].hash])
           /\ \A j \in (1..Len(l)) \ {k} : ~ VerifyChain([l EXCEPT ![k].hash = l[j].hash])
<1> DEFINE Before(m, i) == IF i = 1 THEN GenesisHash ELSE m[i - 1].hash
<1>1. \A m \in Seq(Row) : \A i \in 1..Len(m) : VerifyChain(m) => VerifyRow(Before(m, i), m[i])
  BY DEF VerifyChain
<1>2. \A i \in 1..Len(l) : /\ l[i] \in Row
                           /\ l[i] \in RowsOf(l)
                           /\ l[i].ev \in Entry
                           /\ l[i].prev = Before(l, i)
                           /\ l[i].sealedFor = i
                           /\ l[i].id = i
                           /\ l[i].hash = Sha256(l[i].id, Encode(l[i].ev), l[i].prev)
  BY RowOfChain
\* A row changed in place: the row before it is as it was.
<1>3. ASSUME NEW r \in Row, VerifyChain([l EXCEPT ![k] = r])
      PROVE  VerifyRow(Before(l, k), r)
  <2> DEFINE m == [l EXCEPT ![k] = r]
  <2>1. m \in Seq(Row) /\ Len(m) = Len(l) /\ m[k] = r
    OBVIOUS
  <2>2. Before(m, k) = Before(l, k)
    OBVIOUS
  <2> HIDE DEF m
  <2> QED
    BY <1>1, <1>3, <2>1, <2>2 DEF m
<1> DEFINE r0 == l[k]
<1>4. r0 \in Row /\ r0 \in RowsOf(l)
  BY <1>2 DEF RowsOf
\* Another event, with two of the three texts as they were.
<1>5. ASSUME NEW e \in Entry, VerifyChain([l EXCEPT ![k].ev = e]),
             \/ e.action = r0.ev.action /\ e.resource = r0.ev.resource
             \/ e.user = r0.ev.user /\ e.resource = r0.ev.resource
             \/ e.user = r0.ev.user /\ e.action = r0.ev.action
      PROVE  e = r0.ev
  <2> DEFINE r == [r0 EXCEPT !.ev = e]
  <2>1. r \in Row /\ r.id = r0.id /\ r.prev = r0.prev /\ r.hash = r0.hash /\ r.ev = e
    BY <1>4 DEF Row
  <2>2. [l EXCEPT ![k].ev = e] = [l EXCEPT ![k] = r]
    OBVIOUS
  <2>3. VerifyRow(Before(l, k), r)
    BY <1>3, <1>5, <2>1, <2>2
  <2>4. Sha256(r0.id, Encode(e), r0.prev) = Sha256(r0.id, Encode(r0.ev), r0.prev)
    BY <1>2, <1>4, <2>1, <2>3 DEF VerifyRow, Row
  <2>5. r0.ev \in Entry
    BY <1>2
  <2>6. Encode(e) = Encode(r0.ev)
    <3>1. ~ Collides(r0, e, r0, r0.ev)
      BY <1>4, <2>5 DEF CollisionFree
    <3> QED
      BY <2>4, <3>1 DEF Collides
  <2> HIDE DEF r, r0
  <2> QED
    BY <1>5, <2>5, <2>6, OneColumnShows
<1>6. /\ \A x \in Texts \ {r0.ev.user} : ~ VerifyChain([l EXCEPT ![k].ev.user = x])
      /\ \A x \in Texts \ {r0.ev.action} : ~ VerifyChain([l EXCEPT ![k].ev.action = x])
      /\ \A x \in Texts \ {r0.ev.resource} : ~ VerifyChain([l EXCEPT ![k].ev.resource = x])
      /\ \A x \in Rests \ {r0.ev.rest} : ~ VerifyChain([l EXCEPT ![k].ev.rest = x])
  <2>1. r0.ev \in Entry
    BY <1>2
  <2>2. ASSUME NEW x \in Texts, x # r0.ev.user, VerifyChain([l EXCEPT ![k].ev.user = x])
        PROVE  FALSE
    <3> DEFINE e == [r0.ev EXCEPT !.user = x]
    <3>1. /\ e \in Entry /\ e.user = x
          /\ e.action = r0.ev.action /\ e.resource = r0.ev.resource
      BY <2>1 DEF Entry
    <3>2. [l EXCEPT ![k].ev.user = x] = [l EXCEPT ![k].ev = e]
      OBVIOUS
    <3> QED
      BY <1>5, <2>2, <3>1, <3>2
  <2>3. ASSUME NEW x \in Texts, x # r0.ev.action, VerifyChain([l EXCEPT ![k].ev.action = x])
        PROVE  FALSE
    <3> DEFINE e == [r0.ev EXCEPT !.action = x]
    <3>1. /\ e \in Entry /\ e.action = x
          /\ e.user = r0.ev.user /\ e.resource = r0.ev.resource
      BY <2>1 DEF Entry
    <3>2. [l EXCEPT ![k].ev.action = x] = [l EXCEPT ![k].ev = e]
      OBVIOUS
    <3> QED
      BY <1>5, <2>3, <3>1, <3>2
  <2>4. ASSUME NEW x \in Texts, x # r0.ev.resource, VerifyChain([l EXCEPT ![k].ev.resource = x])
        PROVE  FALSE
    <3> DEFINE e == [r0.ev EXCEPT !.resource = x]
    <3>1. /\ e \in Entry /\ e.resource = x
          /\ e.user = r0.ev.user /\ e.action = r0.ev.action
      BY <2>1 DEF Entry
    <3>2. [l EXCEPT ![k].ev.resource = x] = [l EXCEPT ![k].ev = e]
      OBVIOUS
    <3> QED
      BY <1>5, <2>4, <3>1, <3>2
  <2>5. ASSUME NEW x \in Rests, x # r0.ev.rest, VerifyChain([l EXCEPT ![k].ev.rest = x])
        PROVE  FALSE
    <3> DEFINE e == [r0.ev EXCEPT !.rest = x]
    <3>1. /\ e \in Entry /\ e.rest = x
          /\ e.user = r0.ev.user /\ e.action = r0.ev.action
      BY <2>1 DEF Entry
    <3>2. [l EXCEPT ![k].ev.rest = x] = [l EXCEPT ![k].ev = e]
      OBVIOUS
    <3> QED
      BY <1>5, <2>5, <3>1, <3>2
  <2> QED
    BY <2>2, <2>3, <2>4, <2>5
\* An id other than the one the details are sealed for, or the other way round.
<1>9. ASSUME NEW i \in (1..Len(l) + 1) \ {k},
             \/ VerifyChain([l EXCEPT ![k].id = i])
             \/ VerifyChain([l EXCEPT ![k].sealedFor = i])
      PROVE  FALSE
  <2> DEFINE q == [r0 EXCEPT !.id = i]
             r == [r0 EXCEPT !.sealedFor = i]
  <2>1. i \in Nat /\ i # k
    BY <1>9
  <2>2. q \in Row /\ q.id = i /\ q.sealedFor = k
    BY <1>2, <1>4, <2>1 DEF Row
  <2>3. r \in Row /\ r.sealedFor = i /\ r.id = k
    BY <1>2, <1>4, <2>1 DEF Row
  <2>4. /\ [l EXCEPT ![k].id = i] = [l EXCEPT ![k] = q]
        /\ [l EXCEPT ![k].sealedFor = i] = [l EXCEPT ![k] = r]
    OBVIOUS
  <2>5. ~ VerifyRow(Before(l, k), q) /\ ~ VerifyRow(Before(l, k), r)
    BY <2>1, <2>2, <2>3 DEF VerifyRow
  <2> QED
    BY <1>3, <1>9, <2>2, <2>3, <2>4, <2>5
<1>7. ASSUME NEW j \in 1..Len(l), l[j].hash # l[k].prev,
             VerifyChain([l EXCEPT ![k].prev = l[j].hash])
      PROVE  FALSE
  <2> DEFINE r == [r0 EXCEPT !.prev = l[j].hash]
  <2>1. r \in Row /\ r.prev = l[j].hash
    BY <1>2, <1>4 DEF Row
  <2>2. [l EXCEPT ![k].prev = l[j].hash] = [l EXCEPT ![k] = r]
    OBVIOUS
  <2>3. VerifyRow(Before(l, k), r)
    BY <1>3, <1>7, <2>1, <2>2
  <2> QED
    BY <1>2, <1>7, <2>1, <2>3 DEF VerifyRow
<1>8. ASSUME NEW j \in (1..Len(l)) \ {k}, VerifyChain([l EXCEPT ![k].hash = l[j].hash])
      PROVE  FALSE
  <2> DEFINE r == [r0 EXCEPT !.hash = l[j].hash]
  <2>1. /\ r \in Row /\ r.id = r0.id /\ r.ev = r0.ev /\ r.prev = r0.prev
        /\ r.hash = l[j].hash
    BY <1>2, <1>4 DEF Row
  <2>2. [l EXCEPT ![k].hash = l[j].hash] = [l EXCEPT ![k] = r]
    OBVIOUS
  <2>3. VerifyRow(Before(l, k), r)
    BY <1>3, <1>8, <2>1, <2>2
  <2>4. Sha256(l[j].id, Encode(l[j].ev), l[j].prev) = Sha256(r0.id, Encode(r0.ev), r0.prev)
    BY <1>2, <2>1, <2>3 DEF VerifyRow
  <2>5. l[j].ev \in Entry /\ r0.ev \in Entry /\ l[j] \in RowsOf(l) /\ l[j].id # r0.id
    BY <1>2, <1>8
  <2> QED
    BY <1>4, <2>4, <2>5 DEF CollisionFree, Collides
<1> QED
  BY <1>6, <1>7, <1>8, <1>9

\* Two rows that differ at most in where their texts are cut.
Alike(r, s) ==
    /\ <<r.id, r.sealedFor, r.prev, r.hash>> = <<s.id, s.sealedFor, s.prev, s.hash>>
    /\ Encode(r.ev) = Encode(s.ev)

\* Two verified rows with the same hash are alike.
LEMMA SameHashAlike ==
    ASSUME NEW rows, CollisionFree(rows),
           NEW r \in Row, r \in rows, r.sealedFor = r.id, r.hash = Sha256(r.id, Encode(r.ev), r.prev),
           NEW s \in Row, s \in rows, s.sealedFor = s.id, s.hash = Sha256(s.id, Encode(s.ev), s.prev),
           r.hash = s.hash
    PROVE  Alike(r, s)
<1>1. r.ev \in Entry /\ s.ev \in Entry
  BY DEF Row
<1>2. ~ Collides(r, r.ev, s, s.ev)
  BY <1>1 DEF CollisionFree
<1>3. r.id = s.id /\ Encode(r.ev) = Encode(s.ev) /\ r.prev = s.prev
  BY <1>2 DEF Collides
<1> QED
  BY <1>3 DEF Alike

\* Two verified logs that end in the same hash have alike last rows, as far back
\* as both go: each row's hash covers its id, the encoding of its event and,
\* through prev_hash, the row before it.
LEMMA SuffixesAgree ==
    ASSUME NEW l \in Seq(Row), NEW m \in Seq(Row), l # <<>>, m # <<>>,
           VerifyChain(l), VerifyChain(m),
           l[Len(l)].hash = m[Len(m)].hash,
           CollisionFree(RowsOf(l) \cup RowsOf(m))
    PROVE  \A d \in Nat : d < Len(l) /\ d < Len(m) => Alike(l[Len(l) - d], m[Len(m) - d])
<1> DEFINE T == {d \in Nat : d < Len(l) /\ d < Len(m) /\ ~ Alike(l[Len(l) - d], m[Len(m) - d])}
<1> SUFFICES ASSUME T # {} PROVE FALSE
  OBVIOUS
<1>1. PICK d \in T : \A c \in T : d <= c
  <2> HIDE DEF T
  <2>1. T \in SUBSET Nat
    BY DEF T
  <2> QED
    BY <2>1, Least
<1> DEFINE i == Len(l) - d
           j == Len(m) - d
<1>2. i \in 1..Len(l) /\ j \in 1..Len(m) /\ d \in Nat /\ ~ Alike(l[i], m[j])
  BY <1>1
<1>3. l[i].hash = m[j].hash
  <2>1. CASE d = 0
    BY <1>2, <2>1
  <2>2. CASE d # 0
    <3>1. d - 1 \in Nat /\ d - 1 < d /\ d - 1 < Len(l) /\ d - 1 < Len(m)
      BY <1>1, <2>2
    <3>2. d - 1 \notin T
      BY <1>1, <3>1
    <3>3. Len(l) - (d - 1) = i + 1 /\ Len(m) - (d - 1) = j + 1
      BY <1>2
    <3>4. i + 1 \in 1..Len(l) /\ j + 1 \in 1..Len(m) /\ i + 1 # 1 /\ j + 1 # 1
      <4>1. Len(l) \in Nat /\ Len(m) \in Nat
        OBVIOUS
      <4>2. i \in 1..(Len(l) - 1) /\ j \in 1..(Len(m) - 1)
        BY <1>2, <2>2, <4>1
      <4> HIDE DEF i, j
      <4> QED
        BY <4>1, <4>2
    <3>5. l[i + 1].prev = m[j + 1].prev
      <4>1. Alike(l[Len(l) - (d - 1)], m[Len(m) - (d - 1)])
        BY <3>1, <3>2
      <4>2. Alike(l[i + 1], m[j + 1])
        <5> HIDE DEF i, j
        <5> QED
          BY <3>3, <4>1
      <4> QED
        BY <4>2 DEF Alike
    <3>6. l[i + 1].prev = l[(i + 1) - 1].hash /\ m[j + 1].prev = m[(j + 1) - 1].hash
      <4> HIDE DEF i, j
      <4> QED
        BY <3>4, RowOfChain
    <3>7. (i + 1) - 1 = i /\ (j + 1) - 1 = j
      BY <1>2
    <3> HIDE DEF i, j
    <3> QED
      BY <3>5, <3>6, <3>7
  <2> QED
    BY <2>1, <2>2
<1> HIDE DEF i, j
<1>4. l[i] \in RowsOf(l) \cup RowsOf(m) /\ m[j] \in RowsOf(l) \cup RowsOf(m)
  BY <1>2, RowOfChain
<1>5. Alike(l[i], m[j])
  <2>1. /\ l[i] \in Row /\ l[i].sealedFor = l[i].id
        /\ l[i].hash = Sha256(l[i].id, Encode(l[i].ev), l[i].prev)
    BY <1>2, RowOfChain
  <2>2. /\ m[j] \in Row /\ m[j].sealedFor = m[j].id
        /\ m[j].hash = Sha256(m[j].id, Encode(m[j].ev), m[j].prev)
    BY <1>2, RowOfChain
  <2> DEFINE rows == RowsOf(l) \cup RowsOf(m)
  <2>3. CollisionFree(rows)
    OBVIOUS
  <2> HIDE DEF rows
  <2> QED
    BY <1>3, <1>4, <2>1, <2>2, <2>3, SameHashAlike DEF rows
<1> QED
  BY <1>2, <1>5

\* If no row's hash is the GenesisHash either, such logs have the same length and
\* alike rows: the hash of the last row pins the log up to where texts are cut.
LEMMA TailPins ==
    ASSUME NEW l \in Seq(Row), NEW m \in Seq(Row), l # <<>>, m # <<>>,
           VerifyChain(l), VerifyChain(m),
           l[Len(l)].hash = m[Len(m)].hash,
           CollisionFree(RowsOf(l) \cup RowsOf(m)),
           \A r \in RowsOf(l) \cup RowsOf(m) : r.hash # GenesisHash
    PROVE  Len(l) = Len(m) /\ \A k \in 1..Len(l) : Alike(l[k], m[k])
<1>1. ASSUME NEW x \in Seq(Row), NEW y \in Seq(Row), x # <<>>, y # <<>>,
             VerifyChain(x), VerifyChain(y), Len(x) < Len(y),
             \A d \in Nat : d < Len(x) /\ d < Len(y) =>
               x[Len(x) - d].prev = y[Len(y) - d].prev,
             \A r \in RowsOf(y) : r.hash # GenesisHash
      PROVE  FALSE
  <2> DEFINE d == Len(x) - 1
             k == Len(y) - d
  <2>1. d \in Nat /\ d < Len(x) /\ d < Len(y) /\ Len(x) - d = 1 /\ 1 \in 1..Len(x)
    BY <1>1
  <2>2. x[1].prev = y[k].prev /\ k \in 2..Len(y) /\ k - 1 \in 1..Len(y)
    BY <1>1, <2>1
  <2>3. x[1].prev = GenesisHash
    BY <1>1, <2>1 DEF VerifyChain, VerifyRow
  <2>4. y[k].prev = y[k - 1].hash
    <3>1. k \in 1..Len(y) /\ k # 1
      <4> HIDE DEF k
      <4>1. Len(y) \in Nat
        OBVIOUS
      <4> QED
        BY <2>2, <4>1
    <3> HIDE DEF k
    <3> QED
      BY <1>1, <3>1 DEF VerifyChain, VerifyRow
  <2>5. y[k - 1] \in RowsOf(y)
    BY <2>2 DEF RowsOf
  <2> QED
    BY <1>1, <2>2, <2>3, <2>4, <2>5
<1>2. \A d \in Nat : d < Len(l) /\ d < Len(m) => Alike(l[Len(l) - d], m[Len(m) - d])
  BY SuffixesAgree
<1>3. Len(l) = Len(m)
  <2>1. ~ Len(l) < Len(m)
    <3>1. \A d \in Nat : d < Len(l) /\ d < Len(m) => l[Len(l) - d].prev = m[Len(m) - d].prev
      BY <1>2 DEF Alike
    <3> QED
      BY <1>1, <3>1
  <2>2. ~ Len(m) < Len(l)
    <3>1. \A d \in Nat : d < Len(m) /\ d < Len(l) => m[Len(m) - d].prev = l[Len(l) - d].prev
      BY <1>2 DEF Alike
    <3> QED
      BY <1>1, <3>1
  <2> QED
    BY <2>1, <2>2
<1>4. ASSUME NEW k \in 1..Len(l) PROVE Alike(l[k], m[k])
  <2>1. Len(l) - k \in Nat /\ Len(l) - k < Len(l) /\ Len(l) - (Len(l) - k) = k
    OBVIOUS
  <2> QED
    BY <1>2, <1>3, <2>1
<1> QED
  BY <1>3, <1>4

\* For any hash that has no collision among the encodings of the log's entries, no
\* change of one column of one row goes unnoticed.  (Several columns of a row may
\* change: ShiftedColumnsPass.)
THEOREM MutationFlagged ==
    Spec => [](CollisionFree(RowsOf(log)) => MutationIsFlagged)
<1>1. ASSUME IInv, CollisionFree(RowsOf(log))
      PROVE  MutationIsFlagged
  <2>1. /\ log \in Seq(Row)
        /\ VerifyChain(log)
        /\ \A k \in 1..Len(log) : log[k].id = k
    BY <1>1 DEF IInv, TypeOK, ChainVerifies
  <2> HIDE DEF VerifyChain
  <2> QED
    BY <1>1, <2>1, MutationIsFound, Zenon DEF MutationIsFlagged
<1>2. IInv => (CollisionFree(RowsOf(log)) => MutationIsFlagged)
  BY <1>1
<1> QED
  BY <1>2, Invariance, PTL

\* What MutationFlagged leaves out, whatever the hash: an entry in the place of
\* another whose user_id, action and resource join to the same bytes is accepted by
\* VerifyChain (audit.Hash), so README.md's "mutate one row ... flags it" needs one
\* column.
THEOREM ShiftedColumnsPass ==
    Spec => [](\A k \in 1..Len(log), e \in Entry :
                 Encode(e) = Encode(log[k].ev) => VerifyChain([log EXCEPT ![k].ev = e]))
<1>1. ASSUME IInv, NEW k \in 1..Len(log), NEW e \in Entry, Encode(e) = Encode(log[k].ev)
      PROVE  VerifyChain([log EXCEPT ![k].ev = e])
  <2> DEFINE m == [log EXCEPT ![k].ev = e]
  <2>1. log \in Seq(Row) /\ VerifyChain(log)
    BY <1>1 DEF IInv, TypeOK, ChainVerifies
  <2>2. Len(m) = Len(log) /\ \A j \in 1..Len(log) : log[j] \in Row
    BY <2>1
  <2>3. ASSUME NEW j \in 1..Len(log)
        PROVE  /\ m[j].id = log[j].id /\ m[j].sealedFor = log[j].sealedFor
               /\ m[j].prev = log[j].prev /\ m[j].hash = log[j].hash
               /\ Encode(m[j].ev) = Encode(log[j].ev)
    BY <1>1, <2>1, <2>2 DEF Row
  <2>4. ASSUME NEW j \in 1..Len(m)
        PROVE  VerifyRow(IF j = 1 THEN GenesisHash ELSE m[j - 1].hash, m[j])
    <3>1. VerifyRow(IF j = 1 THEN GenesisHash ELSE log[j - 1].hash, log[j])
      BY <2>1, <2>2, <2>4 DEF VerifyChain
    <3>2. j # 1 => j - 1 \in 1..Len(log)
      BY <2>1, <2>2, <2>4
    <3> QED
      BY <2>2, <2>3, <3>1, <3>2 DEF VerifyRow
  <2> HIDE DEF m
  <2>5. VerifyChain(m)
    BY <2>4 DEF VerifyChain
  <2> QED
    BY <2>5 DEF m
<1>2. IInv => \A k \in 1..Len(log), e \in Entry :
                Encode(e) = Encode(log[k].ev) => VerifyChain([log EXCEPT ![k].ev = e])
  BY <1>1
<1> QED
  BY <1>2, Invariance, PTL

\* A log that verifies and ends in the committed log's last hash is that log, but
\* for the places where user_id, action and resource end within a row.
LastHashPins ==
    \A l \in Seq(Row) :
        /\ l # <<>> /\ log # <<>>
        /\ VerifyChain(l)
        /\ l[Len(l)].hash = log[Len(log)].hash
        /\ CollisionFree(RowsOf(l) \cup RowsOf(log))
        /\ \A r \in RowsOf(l) \cup RowsOf(log) : r.hash # GenesisHash
        => Len(l) = Len(log) /\ \A k \in 1..Len(l) : Alike(l[k], log[k])

\* Rows changed, inserted, removed or swapped: whatever was done to the table, if
\* VerifyChain accepts it and its last entry_hash is the one the program wrote
\* last, then all that was done is to move bytes between the texts of a row.
THEOREM LastHashPinsTheLog == Spec => []LastHashPins
<1>1. ASSUME IInv PROVE LastHashPins
  <2>1. log \in Seq(Row) /\ VerifyChain(log)
    BY <1>1 DEF IInv, TypeOK, ChainVerifies
  <2> SUFFICES ASSUME NEW l \in Seq(Row), l # <<>>, log # <<>>, VerifyChain(l),
                      l[Len(l)].hash = log[Len(log)].hash,
                      CollisionFree(RowsOf(l) \cup RowsOf(log)),
                      \A r \in RowsOf(l) \cup RowsOf(log) : r.hash # GenesisHash
               PROVE  Len(l) = Len(log) /\ \A k \in 1..Len(l) : Alike(l[k], log[k])
    BY DEF LastHashPins
  <2> QED
    BY <2>1, TailPins
<1> QED
  BY <1>1, Invariance, PTL

-----------------------------------------------------------------------------
(* One transaction at a time. *)

\* No append is under way.
Quiet == \A w \in Writers : pc[w] = "idle"

\* Appends one after the other, and no other commit while one is under way.
SerialNext ==
    \/ Boot
    \/ \E w \in Writers :
         \/ \E e \in Actions : Quiet /\ Read(w, e)
         \/ Insert(w)
         \/ InsertBusy(w)
         \/ Commit(w)
         \/ Return(w)
         \/ Rollback(w)
    \/ Quiet /\ OtherCommit
    \/ Crash

SerialSpec == Init /\ [][SerialNext]_vars

\* The one open transaction reads what is newest, and nobody was refused.
SerialInv ==
    /\ EveryActionAudited
    /\ \A v, w \in Writers : pc[v] # "idle" /\ pc[w] # "idle" => v = w
    /\ \A w \in Writers : pc[w] \in {"read", "inserted"} => snap[w] = version

\* The transaction that inserts finds the lock free and its snapshot the newest.
LEMMA SerialUpgrade ==
    ASSUME IInv, SerialInv, NEW w \in Writers, pc[w] = "read"
    PROVE  CanUpgrade(w)
<1>1. lock \in Writers \cup {None}
  BY DEF IInv, TypeOK
<1>2. ASSUME lock # None PROVE FALSE
  <2>1. lock \in Writers /\ pc[lock] = "inserted"
    BY <1>1, <1>2 DEF IInv, TxInv
  <2> QED
    BY <2>1 DEF SerialInv
<1> QED
  BY <1>2 DEF SerialInv, CanUpgrade

\* Every serial step keeps SerialInv.
LEMMA SerialStep ==
    ASSUME IInv, SerialInv, [SerialNext]_vars
    PROVE  SerialInv'
<1>1. TypeOK
  BY DEF IInv
<1>2. CASE Boot
  <2>1. Quiet
    BY <1>2 DEF IInv, TypeOK, TxInv, Boot, Quiet
  <2> QED
    BY <1>2, <2>1 DEF SerialInv, EveryActionAudited, Boot, txVars, Quiet
<1>3. ASSUME NEW w \in Writers, NEW e \in Actions, Quiet, Read(w, e)
      PROVE  SerialInv'
  BY <1>1, <1>3 DEF TypeOK, SerialInv, EveryActionAudited, Read, Quiet
<1>4. ASSUME NEW w \in Writers, Insert(w)
      PROVE  SerialInv'
  BY <1>1, <1>4 DEF TypeOK, SerialInv, EveryActionAudited, Insert
<1>5. ASSUME NEW w \in Writers, InsertBusy(w)
      PROVE  SerialInv'
  BY <1>5, SerialUpgrade DEF InsertBusy
<1>6. ASSUME NEW w \in Writers, Commit(w) \/ Return(w) \/ Rollback(w)
      PROVE  SerialInv'
  <2>1. \A v \in Writers : pc'[v] = "idle" \/ (v = w /\ pc'[v] = "committed")
    BY <1>1, <1>6 DEF TypeOK, SerialInv, Commit, Return, Rollback
  <2>2. EveryActionAudited'
    BY <1>1, <1>6 DEF TypeOK, SerialInv, EveryActionAudited, Commit, Return, Rollback
  <2> QED
    BY <2>1, <2>2 DEF SerialInv
<1>7. CASE Quiet /\ OtherCommit
  BY <1>7 DEF SerialInv, EveryActionAudited, OtherCommit, txVars, Quiet
<1>8. CASE Crash
  BY <1>8 DEF SerialInv, EveryActionAudited, Crash
<1>9. CASE UNCHANGED vars
  BY <1>9 DEF SerialInv, EveryActionAudited, vars, txVars
<1> QED
  BY <1>2, <1>3, <1>4, <1>5, <1>6, <1>7, <1>8, <1>9 DEF SerialNext

\* Every audited action reaches the log or fails with its request, as sqlcheck
\* says, as long as appends and other commits come one after the other: the run
\* every_action_audited breaks it with two that overlap.
THEOREM SerialActionsAudited == SerialSpec => []EveryActionAudited
<1>1. SerialSpec => Spec
  <2>1. [SerialNext]_vars => [Next]_vars
    BY DEF SerialNext, Next
  <2> QED
    BY <2>1, PTL DEF SerialSpec, Spec
<1>2. Init => SerialInv
  BY DEF Init, SerialInv, EveryActionAudited
<1>3. IInv /\ SerialInv /\ [SerialNext]_vars => SerialInv'
  BY SerialStep
<1>4. SerialInv => EveryActionAudited
  BY DEF SerialInv
<1> QED
  BY <1>1, <1>2, <1>3, <1>4, Invariance, PTL DEF SerialSpec
===============================================================================
