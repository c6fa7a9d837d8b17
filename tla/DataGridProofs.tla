---------------------------- MODULE DataGridProofs ----------------------------
(***************************************************************************)
(* Proofs about DataGrid, for any tables, rows, keys, pages and bounds:    *)
(* where pending edits may go, which row a change hits, and what the grid  *)
(* may say of the rows it does not show.                                   *)
(*                                                                         *)
(* IInv follows a change from the cell to the statement: the table it was  *)
(* made on, the key made from the row, and that the server has checked the *)
(* key against the table's own.  ShownInv follows the pages: how they are  *)
(* numbered, and which of them carry an exact total.  In between are the   *)
(* facts about scans, ranks and pages that ShownInv rests on.              *)
(***************************************************************************)
EXTENDS DataGrid, FiniteSetTheorems, SequenceTheorems, TLAPS

-----------------------------------------------------------------------------
(* Numbers and scans.                                                          *)

\* A set of naturals has a least element.
LEMMA Least ==
    ASSUME NEW T \in SUBSET Nat, T # {}
    PROVE  \E n \in T : \A m \in T : n <= m
<1> DEFINE Low(n) == {m \in T : m <= n}
           F == {Low(n) : n \in T}
<1>1. F \subseteq FiniteSubsetsOf(Nat)
  <2> SUFFICES ASSUME NEW n \in T PROVE Low(n) \in FiniteSubsetsOf(Nat)
    OBVIOUS
  <2>1. Low(n) \in SUBSET Nat /\ \A s \in Low(n) : s <= n
    OBVIOUS
  <2>2. IsFiniteSet(Low(n))
    BY <2>1, FS_BoundedSetOfNaturals
  <2> QED
    BY <2>1, <2>2 DEF FiniteSubsetsOf
<1>2. PICK X \in F : \A Y \in F : <<Y, X>> \notin StrictSubsetOrdering(Nat)
  <2>1. F # {}
    <3>1. PICK n \in T : TRUE
      OBVIOUS
    <3> QED
      BY <3>1
  <2> QED
  BY <1>1, <2>1, FS_StrictSubsetOrderingWellFounded, WFMin
<1>3. PICK n \in T : X = Low(n)
  BY <1>2
<1>4. ASSUME NEW m \in T, m < n PROVE FALSE
  <2>1. n \in Low(n) /\ n \notin Low(m) /\ \A i \in T : i <= m => i <= n
    BY <1>4
  <2>2. Low(m) \in SUBSET Nat /\ Low(n) \in SUBSET Nat /\ Low(m) \subseteq Low(n)
    BY <2>1
  <2>3. <<Low(m), X>> \in StrictSubsetOrdering(Nat)
    BY <1>3, <2>1, <2>2 DEF StrictSubsetOrdering
  <2> QED
    BY <1>2, <2>3
<1> QED
  BY <1>4

\* The live rows of a heap are finitely many, and ranked 1, 2, ... without a gap.
LEMMA LiveIsFinite ==
    ASSUME NEW h
    PROVE  /\ IsFiniteSet(Live(h)) /\ Cardinality(Live(h)) \in Nat
           /\ Live(h) \in SUBSET Slots /\ Slots \subseteq Nat
<1>1. IsFiniteSet(Slots)
  BY GridAssumption, FS_Interval DEF Slots
<1>2. Live(h) \in SUBSET Slots /\ Slots \subseteq Nat
  BY GridAssumption DEF Live, Slots
<1> QED
  BY <1>1, <1>2, FS_Subset, FS_CardinalityType

\* An order gives every live row a place of its own.
LEMMA OrderIsAnOrder ==
    ASSUME NEW h, NEW o \in Orders
    PROVE  /\ \A i \in Live(h) : o[i] \in Nat
           /\ \A i, j \in Live(h) : o[i] = o[j] => i = j
BY LiveIsFinite, OrdersAssumption

\* Different slots have different ranks.
LEMMA RanksDiffer ==
    ASSUME NEW h, NEW o \in Orders, NEW i \in Live(h), NEW j \in Live(h), o[i] < o[j]
    PROVE  Rank(h, o, i) < Rank(h, o, j)
<1> DEFINE Low(n) == {m \in Live(h) : o[m] <= o[n]}
<1>1. o[i] \in Nat /\ o[j] \in Nat /\ \A m \in Live(h) : o[m] \in Nat
  BY OrderIsAnOrder
<1>2. Low(i) \in SUBSET Low(j)
  <2>1. \A m \in Live(h) : o[m] <= o[i] => o[m] <= o[j]
    BY <1>1
  <2> QED
    BY <2>1
<1>7. j \in Low(j) /\ j \notin Low(i)
  BY <1>1
<1>3. Low(i) \in SUBSET Live(h) /\ Low(j) \in SUBSET Live(h)
  OBVIOUS
<1>4. IsFiniteSet(Low(j)) /\ IsFiniteSet(Low(i))
  BY <1>3, LiveIsFinite, FS_Subset
<1>5. Cardinality(Low(i)) <= Cardinality(Low(j)) /\ Cardinality(Low(i)) # Cardinality(Low(j))
  BY <1>2, <1>7, <1>4, FS_Subset
<1>6. Cardinality(Low(i)) \in Nat /\ Cardinality(Low(j)) \in Nat
  BY <1>4, FS_CardinalityType
<1> QED
  BY <1>5, <1>6 DEF Rank

\* The ranks are 1, 2, ... up to the number of rows.
LEMMA RanksAreAll ==
    ASSUME NEW h, NEW o \in Orders
    PROVE  LET n == Cardinality(Live(h)) IN
           /\ \A i \in Live(h) : Rank(h, o, i) \in 1..n
           /\ \A i, j \in Live(h) : Rank(h, o, i) = Rank(h, o, j) => i = j
           /\ \A k \in 1..n : \E i \in Live(h) : Rank(h, o, i) = k
<1> DEFINE n == Cardinality(Live(h))
           rank == [i \in Live(h) |-> Rank(h, o, i)]
<1>1. /\ IsFiniteSet(Live(h)) /\ n \in Nat
      /\ \A i \in Live(h) : o[i] \in Nat
  BY LiveIsFinite, OrderIsAnOrder
<1>2. \A i \in Live(h) : Rank(h, o, i) \in 1..n
  <2> SUFFICES ASSUME NEW i \in Live(h) PROVE Rank(h, o, i) \in 1..n
    OBVIOUS
  <2> DEFINE Low == {j \in Live(h) : o[j] <= o[i]}
  <2>1. Low \in SUBSET Live(h) /\ i \in Low
    BY <1>1
  <2>2. IsFiniteSet(Low) /\ Cardinality(Low) <= n
    BY <1>1, <2>1, FS_Subset
  <2>3. Cardinality(Low) \in Nat /\ Cardinality(Low) # 0
    BY <2>1, <2>2, FS_EmptySet, FS_CardinalityType
  <2> QED
    BY <1>1, <2>2, <2>3 DEF Rank
<1>3. \A i, j \in Live(h) : Rank(h, o, i) = Rank(h, o, j) => i = j
  <2> SUFFICES ASSUME NEW i \in Live(h), NEW j \in Live(h), i # j
               PROVE  Rank(h, o, i) # Rank(h, o, j)
    OBVIOUS
  <2>1. o[i] < o[j] \/ o[j] < o[i]
    BY <1>1, OrderIsAnOrder
  <2> QED
    BY <1>1, <1>2, <2>1, RanksDiffer
<1>4. \A k \in 1..n : \E i \in Live(h) : Rank(h, o, i) = k
  <2> DEFINE R == {Rank(h, o, i) : i \in Live(h)}
  <2>1. rank \in Surjection(Live(h), R) /\ rank \in Injection(Live(h), R)
    <3>1. rank \in [Live(h) -> R] /\ \A t \in R : \E i \in Live(h) : rank[i] = t
      OBVIOUS
    <3>2. \A i, j \in Live(h) : rank[i] = rank[j] => i = j
      BY <1>3
    <3> QED
      BY <3>1, <3>2 DEF Surjection, Injection, IsInjective
  <2>3. IsFiniteSet(R) /\ Cardinality(R) = n
    BY <1>1, <2>1, FS_Surjection
  <2>4. R \in SUBSET (1..n) /\ IsFiniteSet(1..n) /\ Cardinality(1..n) = n
    BY <1>1, <1>2, FS_Interval
  <2>5. R = 1..n
    BY <2>3, <2>4, FS_Subset
  <2> QED
    BY <2>5
<1> QED
  BY <1>2, <1>3, <1>4

\* A scan yields the rows there are, and as many as there are.
LEMMA ScanYieldsTheRows ==
    ASSUME NEW h \in Heaps, NEW o \in Orders
    PROVE  /\ Scan(h, o) \in Seq(Rows)
           /\ Len(Scan(h, o)) = Cardinality(Live(h)) /\ Len(Scan(h, o)) \in Nat
           /\ \A i \in Live(h) : \E k \in 1..Len(Scan(h, o)) : Scan(h, o)[k] = h[i]
           /\ \A k \in 1..Len(Scan(h, o)) : \E i \in Live(h) : Scan(h, o)[k] = h[i]
<1> DEFINE n == Cardinality(Live(h))
           slot(k) == CHOOSE i \in Live(h) : Rank(h, o, i) = k
<1>1. n \in Nat
  BY LiveIsFinite
<1>2. \A k \in 1..n : slot(k) \in Live(h) /\ Rank(h, o, slot(k)) = k
  BY RanksAreAll
<1>3. \A i \in Live(h) : h[i] \in Rows
  BY DEF Live, Heaps
<1>4. Scan(h, o) = [k \in 1..n |-> h[slot(k)]]
  BY DEF Scan
<1>5. Scan(h, o) \in [1..n -> Rows]
  BY <1>2, <1>3, <1>4
<1>6. Scan(h, o) \in Seq(Rows) /\ Len(Scan(h, o)) = n
  BY <1>1, <1>5
<1>7. ASSUME NEW i \in Live(h) PROVE \E k \in 1..n : Scan(h, o)[k] = h[i]
  <2>1. Rank(h, o, i) \in 1..n
    BY RanksAreAll
  <2>2. slot(Rank(h, o, i)) = i
    BY <1>2, <2>1, RanksAreAll
  <2> QED
    BY <1>4, <2>1, <2>2
<1> QED
  BY <1>1, <1>2, <1>4, <1>6, <1>7

-----------------------------------------------------------------------------
(* Edits and the statements made of them.                                      *)

USE PlacesAssumption, TablesAssumption

\* A change was made for p, if under a URL that names a table, then under the one
\* that p has, with the key of the row.
MadeFor(ch, p) ==
    /\ ch.at \in Places /\ (ch.named => Route(ch.at) = Route(p))
    /\ ch.op \in {"update", "delete", "insert"}
    /\ ch.op # "insert" => \A c \in DOMAIN ch.key : ch.key[c] = Reads[ch.seen[c]]

TableInv == table \in [Places -> Table] /\ named \in BOOLEAN /\ at \in Places

\* Edits made under such a URL are gone when the page leaves it.
PendingInv == \A ch \in pending : MadeFor(ch, at) /\ (ch.named => named)

\* The submission is a record with the fields it starts with.
IsBatch ==
    /\ batch = [pc |-> batch.pc, at |-> batch.at, todo |-> batch.todo,
                shape |-> batch.shape, heap |-> batch.heap]
    /\ batch.at \in Places
    /\ batch.heap \in Heaps
    /\ \A ch \in batch.todo : MadeFor(ch, batch.at)

\* Statements that are built address their rows by the whole primary key.
Checked ==
    batch.pc \in {"built", "tx"} =>
        batch.shape # {} /\ \A ch \in batch.todo : Addressable(ch, batch.shape)

\* What the transaction sees satisfies the constraint it will be committed under.
TxIsValid == batch.pc = "tx" => Valid([table[batch.at] EXCEPT !.heap = batch.heap])

BatchInv == IsBatch /\ Checked /\ TxIsValid
IInv == TableInv /\ PendingInv /\ BatchInv

-----------------------------------------------------------------------------
LEMMA NoBatchIsFine ==
    ASSUME TableInv
    PROVE  /\ NoBatch.at \in Places /\ NoBatch.heap \in Heaps
           /\ NoBatch.todo = {} /\ NoBatch.pc = "none"
           /\ NoBatch = [pc |-> NoBatch.pc, at |-> NoBatch.at, todo |-> NoBatch.todo,
                         shape |-> NoBatch.shape, heap |-> NoBatch.heap]
BY DEF TableInv, NoBatch, Heaps

\* With no submission, or one whose answer is out, there is nothing to check.
LEMMA BatchEnds ==
    ASSUME TableInv', batch' = NoBatch \/ batch' = [NoBatch EXCEPT !.pc = "done"]
    PROVE  BatchInv'
<1>1. (NoBatch.at \in Places /\ NoBatch.heap \in Heaps)
  BY DEF TableInv, NoBatch, Heaps
<1>2. PICK pc \in {"none", "done"} :
        batch' = [pc |-> pc, at |-> NoBatch.at, todo |-> {}, shape |-> {}, heap |-> NoBatch.heap]
  <2>1. CASE batch' = NoBatch
    BY <2>1 DEF NoBatch
  <2>2. CASE batch' = [NoBatch EXCEPT !.pc = "done"]
    BY <2>2 DEF NoBatch
  <2> QED
    BY <2>1, <2>2
<1> QED
  BY <1>1, <1>2 DEF BatchInv, IsBatch, Checked, TxIsValid

LEMMA BatchStays ==
    ASSUME BatchInv, UNCHANGED batch, table' = table \/ (batch.pc # "tx")
    PROVE  BatchInv'
BY DEF BatchInv, IsBatch, Checked, TxIsValid

LEMMA OthersKeepInv ==
    ASSUME IInv, NEW p \in Places, NEW t, Others(p, t)
    PROVE  IInv'
<1>1. TableInv' /\ PendingInv'
  BY DEF IInv, Others, TableInv, PendingInv, MadeFor, urlVars
<1>2. batch.pc = "tx" => table'[batch.at] = table[batch.at]
  BY DEF IInv, Others, TableInv, BatchInv, IsBatch
<1>3. BatchInv'
  BY <1>2 DEF IInv, Others, BatchInv, IsBatch, Checked, TxIsValid
<1> QED
  BY <1>1, <1>3 DEF IInv

\* The page reads: neither the tables nor the changes move.
LEMMA ReadsKeepInv ==
    ASSUME IInv, FetchNextPage \/ Refetch \/ (\E n \in Spots : OpenCell(n)) \/ CloseCell
    PROVE  IInv'
<1>1. UNCHANGED <<table, named, at, pending, batch>>
  BY DEF FetchNextPage, Refetch, OpenCell, CloseCell, tableVars, urlVars
<1>2. BatchInv'
  BY <1>1, BatchStays DEF IInv
<1> QED
  BY <1>1, <1>2 DEF IInv, TableInv, PendingInv, MadeFor

\* The schema query shows another table only where the URL names none.
LEMMA ReadSchemaKeepsInv ==
    ASSUME IInv, NEW p \in Places, ReadSchema(p)
    PROVE  IInv'
<1>1. UNCHANGED <<table, named, pending, batch>> /\ at' = p /\ (named => p = at)
  BY DEF ReadSchema, Show, tableVars
<1>2. BatchInv'
  BY <1>1, BatchStays DEF IInv
<1>3. PendingInv'
  BY <1>1 DEF IInv, PendingInv, MadeFor
<1> QED
  BY <1>1, <1>2, <1>3 DEF IInv, TableInv

LEMMA GoKeepsInv ==
    ASSUME IInv, NEW p \in Places, NEW n \in BOOLEAN, Go(p, n)
    PROVE  IInv'
<1>1. UNCHANGED <<table, batch>> /\ at' = p /\ named' = n
  BY DEF Go, Navigate, Show, tableVars
<1>2. BatchInv'
  BY <1>1, BatchStays DEF IInv
<1>3. PendingInv'
  <2>1. CASE n = named /\ (n => Route(p) = Route(at))
    <3>1. pending' = pending
      BY <2>1 DEF Go
    <3> QED
      BY <1>1, <2>1, <3>1 DEF IInv, PendingInv, MadeFor
  <2>2. CASE ~ (n = named /\ (n => Route(p) = Route(at)))
    BY <2>2 DEF Go, PendingInv
  <2> QED
    BY <2>1, <2>2
<1> QED
  BY <1>1, <1>2, <1>3 DEF IInv, TableInv

\* An edit, a delete or a draft is made for the table that is shown.
LEMMA ChangeIsMadeFor ==
    ASSUME TableInv, NEW row, NEW opened, NEW op \in {"update", "delete"}
    PROVE  /\ MadeFor([op |-> op, key |-> pkFor(row), opened |-> opened, seen |-> row,
                     at |-> at, named |-> named], at)
           /\ MadeFor(Draft, at) /\ Draft.named = named
BY DEF TableInv, MadeFor, pkFor, Draft

LEMMA EditsKeepInv ==
    ASSUME IInv, CommitCell \/ (\E n \in Spots : ToggleDelete(n)) \/ AddDraft \/ Discard
    PROVE  IInv'
<1>1. UNCHANGED <<table, named, at, batch>>
  BY DEF CommitCell, ToggleDelete, AddDraft, Discard, tableVars, urlVars
<1>2. \A ch \in pending' : MadeFor(ch, at) /\ (ch.named => named)
  <2>1. CASE CommitCell
    <3> DEFINE ch == [op |-> "update", key |-> pkFor(RowAt(cell.spot)), opened |-> cell.row,
                      seen |-> RowAt(cell.spot), at |-> at, named |-> named]
    <3>1. MadeFor(ch, at)
      BY ChangeIsMadeFor DEF IInv
    <3>2. pending' \subseteq pending \cup {ch}
      BY <2>1 DEF CommitCell
    <3> QED
      BY <3>1, <3>2 DEF IInv, PendingInv
  <2>2. ASSUME NEW n \in Spots, ToggleDelete(n)
        PROVE  \A ch \in pending' : MadeFor(ch, at) /\ (ch.named => named)
    <3> DEFINE ch == [op |-> "delete", key |-> pkFor(RowAt(n)), opened |-> RowAt(n),
                      seen |-> RowAt(n), at |-> at, named |-> named]
    <3>1. MadeFor(ch, at)
      BY ChangeIsMadeFor DEF IInv
    <3>2. pending' \subseteq pending \cup {ch}
      BY <2>2 DEF ToggleDelete
    <3> QED
      BY <3>1, <3>2 DEF IInv, PendingInv
  <2>3. CASE AddDraft
    BY <2>3, ChangeIsMadeFor DEF IInv, PendingInv, AddDraft
  <2>4. CASE Discard
    BY <2>4 DEF IInv, PendingInv, Discard
  <2> QED
    BY <2>1, <2>2, <2>3, <2>4
<1>3. BatchInv'
  BY <1>1, BatchStays DEF IInv
<1> QED
  BY <1>1, <1>2, <1>3 DEF IInv, TableInv, PendingInv, MadeFor

-----------------------------------------------------------------------------
LEMMA SubmitKeepsInv ==
    ASSUME IInv, Submit
    PROVE  IInv'
<1>1. UNCHANGED <<table, named, at, pending>>
  BY DEF Submit, tableVars, urlVars
<1>2. NoBatch.heap \in Heaps
  BY NoBatchIsFine DEF IInv
<1>3. batch' = [pc |-> "sent", at |-> at, todo |-> buildChanges, shape |-> {}, heap |-> NoBatch.heap]
  BY DEF Submit, NoBatch
<1>4. \A ch \in buildChanges : MadeFor(ch, at)
  BY DEF IInv, PendingInv, buildChanges
<1>5. BatchInv'
  BY <1>1, <1>2, <1>3, <1>4 DEF IInv, TableInv, BatchInv, IsBatch, Checked, TxIsValid, MadeFor
<1> QED
  BY <1>1, <1>5 DEF IInv, TableInv, PendingInv, MadeFor

\* What the server does before the transaction, and how it ends.
LEMMA HandlerKeepsInv ==
    ASSUME IInv, Build \/ Ask \/ GiveUp \/ Begin \/ Rollback \/ Lost
    PROVE  IInv'
<1>1. UNCHANGED <<table, named, at, pending>>
  BY DEF Build, Ask, GiveUp, Begin, Rollback, Lost, tableVars, urlVars
<1>2. TableInv' /\ PendingInv'
  BY <1>1 DEF IInv, TableInv, PendingInv, MadeFor
<1>3. BatchInv'
  <2>1. CASE batch' = NoBatch
    BY <1>2, <2>1, BatchEnds
  <2>2. CASE Build /\ batch' # NoBatch
    BY <1>1, <2>2 DEF IInv, Build, BatchInv, IsBatch, Checked, TxIsValid, MadeFor
  <2>3. CASE Ask
    BY <1>1, <2>3 DEF IInv, Ask, BatchInv, IsBatch, Checked, TxIsValid, MadeFor
  <2>4. CASE Begin
    <3>1. table[batch.at] \in Table
      BY DEF IInv, TableInv, BatchInv, IsBatch
    <3>2. table[batch.at].heap \in Heaps /\ Valid(table[batch.at])
      BY <3>1 DEF Table
    <3>3. [table[batch.at] EXCEPT !.heap = table[batch.at].heap] = table[batch.at]
      BY <3>1 DEF Table
    <3>4. batch' = [pc |-> "tx", at |-> batch.at, todo |-> batch.todo, shape |-> batch.shape,
                    heap |-> table[batch.at].heap]
      BY <2>4 DEF IInv, Begin, BatchInv, IsBatch
    <3>5. Checked
      BY DEF IInv, BatchInv
    <3>6. Checked' /\ TxIsValid'
      BY <1>1, <2>4, <3>2, <3>3, <3>4, <3>5 DEF Begin, Checked, TxIsValid, Addressable
    <3>7. IsBatch'
      BY <1>1, <3>2, <3>4 DEF IInv, BatchInv, IsBatch, MadeFor
    <3> QED
      BY <3>6, <3>7 DEF BatchInv
  <2> QED
    BY <2>1, <2>2, <2>3, <2>4 DEF GiveUp, Rollback, Lost, Build
<1> QED
  BY <1>2, <1>3 DEF IInv

\* What a statement makes of a heap is a heap.
LEMMA EffectsAreHeaps ==
    ASSUME NEW h \in Heaps, NEW ch, ch.op \in {"update", "delete", "insert"},
           NEW shape, NEW g \in Effects(ch, shape, h)
    PROVE  g \in Heaps
<1>1. CASE ch.op = "insert"
  <2>1. PICK row \in Rows : g \in Insert(h, row)
    BY <1>1 DEF Effects
  <2>2. PICK i \in Slots : g = [h EXCEPT ![i] = row]
    BY <2>1 DEF Insert
  <2> QED
    BY <2>2 DEF Heaps
<1>2. CASE ch.op = "delete"
  BY <1>2 DEF Effects, Heaps
<1>3. CASE ch.op = "update"
  BY <1>3 DEF Effects
<1> QED
  BY <1>1, <1>2, <1>3

LEMMA StatementKeepsInv ==
    ASSUME IInv, NEW ch \in batch.todo, Statement(ch)
    PROVE  IInv'
<1>1. UNCHANGED <<table, named, at, pending>>
  BY DEF Statement, tableVars, urlVars
<1>2. PICK h \in Effects(ch, batch.shape, batch.heap) :
        /\ Valid([table[batch.at] EXCEPT !.heap = h])
        /\ batch' = [batch EXCEPT !.todo = @ \ {ch}, !.heap = h]
  BY DEF Statement
<1>3. h \in Heaps
  BY EffectsAreHeaps DEF IInv, BatchInv, IsBatch, MadeFor
<1>4. batch' = [pc |-> batch.pc, at |-> batch.at, todo |-> batch.todo \ {ch},
                shape |-> batch.shape, heap |-> h]
  BY <1>2 DEF IInv, BatchInv, IsBatch
<1>5. IsBatch'
  BY <1>1, <1>3, <1>4 DEF IInv, BatchInv, IsBatch, MadeFor
<1>6. Checked'
  BY <1>4 DEF IInv, BatchInv, Checked, Addressable
<1>7. TxIsValid'
  BY <1>1, <1>2, <1>4 DEF TxIsValid
<1>8. BatchInv'
  BY <1>5, <1>6, <1>7 DEF BatchInv
<1> QED
  BY <1>1, <1>8 DEF IInv, TableInv, PendingInv, MadeFor

LEMMA CommitKeepsInv ==
    ASSUME IInv, Commit
    PROVE  IInv'
<1>1. UNCHANGED <<named, at, pending>>
  BY DEF Commit, urlVars
<1>2. table[batch.at] \in Table /\ batch.at \in Places /\ batch.heap \in Heaps
  BY DEF IInv, TableInv, BatchInv, IsBatch
<1>3. [table[batch.at] EXCEPT !.heap = batch.heap] \in Table
  BY <1>2 DEF IInv, BatchInv, TxIsValid, Commit, Table
<1>4. table' \in [Places -> Table]
  BY <1>2, <1>3 DEF Commit, IInv, TableInv
<1>5. TableInv'
  BY <1>1, <1>4 DEF IInv, TableInv
<1>6. BatchInv'
  BY <1>5, BatchEnds DEF Commit
<1> QED
  BY <1>1, <1>5, <1>6 DEF IInv, PendingInv, MadeFor

LEMMA AppliedKeepsInv ==
    ASSUME IInv, Applied
    PROVE  IInv'
<1>1. UNCHANGED <<table, named, at>> /\ pending' = {} /\ batch' = NoBatch
  BY DEF Applied, tableVars, urlVars
<1>2. TableInv' /\ PendingInv'
  BY <1>1 DEF IInv, TableInv, PendingInv
<1> QED
  BY <1>1, <1>2, BatchEnds DEF IInv

\* The invariant holds at first and after every step.
THEOREM GridInvariance == Spec => []IInv
<1>1. Init => IInv
  <2> SUFFICES ASSUME Init PROVE IInv
    OBVIOUS
  <2>1. TableInv
    BY DEF Init, TableInv
  <2>2. NoBatch.at \in Places /\ NoBatch.heap \in Heaps
    BY <2>1, NoBatchIsFine
  <2> QED
    BY <2>1, <2>2 DEF Init, IInv, PendingInv, BatchInv, IsBatch, Checked, TxIsValid, NoBatch
<1>2. IInv /\ [Next]_vars => IInv'
  <2> SUFFICES ASSUME IInv, [Next]_vars PROVE IInv'
    OBVIOUS
  <2>1. CASE \E p \in Busy : Write(p) \/ Alter(p)
    <3>1. PICK p \in Places : Write(p) \/ Alter(p)
      BY <2>1
    <3>2. CASE Write(p)
      <4>1. PICK g : Others(p, [table[p] EXCEPT !.heap = g])
        BY <3>2, Zenon DEF Write
      <4> QED
        BY <4>1, OthersKeepInv
    <3>3. CASE Alter(p)
      <4>1. PICK pk : Others(p, [table[p] EXCEPT !.pk = pk])
        BY <3>3, Zenon DEF Alter
      <4> QED
        BY <4>1, OthersKeepInv
    <3> QED
      BY <3>1, <3>2, <3>3
  <2>2. CASE FetchNextPage \/ Refetch \/ (\E n \in Spots : OpenCell(n)) \/ CloseCell
    BY <2>2, ReadsKeepInv
  <2>3. CASE \E p \in Places : ReadSchema(p) \/ \E n \in BOOLEAN : Go(p, n)
    BY <2>3, ReadSchemaKeepsInv, GoKeepsInv
  <2>4. CASE CommitCell \/ (\E n \in Spots : ToggleDelete(n)) \/ AddDraft \/ Discard
    BY <2>4, EditsKeepInv
  <2>5. CASE Submit
    BY <2>5, SubmitKeepsInv
  <2>6. CASE Build \/ Ask \/ GiveUp \/ Begin \/ Rollback \/ Lost
    BY <2>6, HandlerKeepsInv
  <2>7. CASE \E ch \in batch.todo : Statement(ch)
    BY <2>7, StatementKeepsInv
  <2>8. CASE Commit
    BY <2>8, CommitKeepsInv
  <2>9. CASE Applied
    BY <2>9, AppliedKeepsInv
  <2>10. CASE UNCHANGED vars
    <3>1. UNCHANGED <<table, named, at, pending, batch>>
      BY <2>10 DEF vars, tableVars, urlVars
    <3>2. BatchInv'
      BY <3>1, BatchStays DEF IInv
    <3> QED
      BY <3>1, <3>2 DEF IInv, TableInv, PendingInv, MadeFor
  <2> QED
    BY <2>1, <2>2, <2>3, <2>4, <2>5, <2>6, <2>7, <2>8, <2>9, <2>10 DEF Next
<1> QED
  BY <1>1, <1>2, PTL DEF Spec

\* Edits made under the URL of a table never reach another table of the connection
\* (the effect of DataPage that resets the editor looks at the URL, and onSubmit
\* takes the table that is shown).  Edits made on /data may, when the list of tables
\* changes.
THEOREM EditsStayOnTheirTable == Spec => []BatchIsOwn
<1>1. IInv => BatchIsOwn
  BY DEF IInv, BatchInv, IsBatch, MadeFor, BatchIsOwn
<1> QED
  BY <1>1, GridInvariance, PTL

\* A change hits at most one row, the one that was opened, unless the table was
\* altered after IntrospectTable (pkFor, buildWhereByPK, the transaction).
THEOREM ChangesHitTheRightRow == Spec => []RightRow
<1>1. IInv => RightRow
  <2> SUFFICES ASSUME IInv, batch.pc = "tx", batch.shape = table[batch.at].pk,
                      NEW ch \in batch.todo, ch.op # "insert"
               PROVE  LET hit == Targets(ch, batch.shape, batch.heap) IN
                      /\ \A i, j \in hit : i = j
                      /\ ch.seen = ch.opened /\ (\A c \in batch.shape : Reads[ch.opened[c]] = ch.opened[c])
                         => \A i \in hit : KeyOf(batch.heap[i], batch.shape) = KeyOf(ch.opened, batch.shape)
    BY DEF RightRow
  <2> DEFINE hit == Targets(ch, batch.shape, batch.heap)
  <2>1. batch.shape # {} /\ batch.shape \subseteq DOMAIN ch.key
    BY DEF IInv, BatchInv, Checked, Addressable
  <2>2. \A c \in batch.shape : ch.key[c] = Reads[ch.seen[c]]
    BY <2>1 DEF IInv, BatchInv, IsBatch, MadeFor
  <2>3. \A i \in hit : i \in Live(batch.heap) /\ \A c \in batch.shape : batch.heap[i][c] = ch.key[c]
    BY DEF Targets
  <2>4. table[batch.at] \in Table
    BY DEF IInv, TableInv, BatchInv, IsBatch
  <2>5. \A i, j \in Live(batch.heap) :
          KeyOf(batch.heap[i], batch.shape) = KeyOf(batch.heap[j], batch.shape) => i = j
    BY <2>1, <2>4 DEF IInv, BatchInv, TxIsValid, Valid, Table
  <2>6. \A i, j \in hit : KeyOf(batch.heap[i], batch.shape) = KeyOf(batch.heap[j], batch.shape)
    BY <2>3 DEF KeyOf
  <2>7. \A i, j \in hit : i = j
    BY <2>3, <2>5, <2>6
  <2>8. ASSUME ch.seen = ch.opened, \A c \in batch.shape : Reads[ch.opened[c]] = ch.opened[c],
               NEW i \in hit
        PROVE  KeyOf(batch.heap[i], batch.shape) = KeyOf(ch.opened, batch.shape)
    BY <2>2, <2>3, <2>8 DEF KeyOf
  <2> QED
    BY <2>7, <2>8
<1> QED
  BY <1>1, GridInvariance, PTL

-----------------------------------------------------------------------------
(* Pages.                                                                      *)

USE GridAssumption

\* normalizePage leaves the page size of the page alone.
LEMMA PageSizeStays == normalizePage(PageSize) = PageSize /\ PageSize \in Nat \ {0}
  BY DEF normalizePage

\* The product with the page size is a number, and grows by a page.
LEMMA Times ==
    ASSUME NEW n \in Nat
    PROVE  n * PageSize \in Nat /\ (n + 1) * PageSize = n * PageSize + PageSize
  OBVIOUS

\* A page is the rows behind the ones of the pages before it, at most PageSize.
LEMMA SelectYieldsThePage ==
    ASSUME NEW h \in Heaps, NEW o \in Orders, NEW param \in Nat
    PROVE  LET all  == Scan(h, o)
               rows == Select(h, o, param)
           IN  /\ rows \in Seq(Rows) /\ Len(rows) \in 0..PageSize
               /\ Len(rows) > 0 => param * PageSize < Len(all)
               /\ Len(rows) < PageSize => Len(all) <= param * PageSize + Len(rows)
               /\ Len(rows) > 0 => param * PageSize + Len(rows) <= Len(all)
               /\ \A k \in 1..Len(all) :
                    param * PageSize < k /\ k <= (param + 1) * PageSize
                    => k - param * PageSize \in 1..Len(rows) /\ rows[k - param * PageSize] = all[k]
               /\ \A k \in 1..Len(rows) : k + param * PageSize \in 1..Len(all) /\ rows[k] = all[k + param * PageSize]
<1> DEFINE all  == Scan(h, o)
           from == param * PageSize
           to   == Limit(Len(all), from + PageSize)
           rows == Select(h, o, param)
<1>1. all \in Seq(Rows) /\ Len(all) \in Nat
  BY ScanYieldsTheRows
<1>2. from \in Nat /\ (param + 1) * PageSize = from + PageSize
  BY Times
<1>3. rows = SubSeq(all, from + 1, to)
  BY <1>2, PageSizeStays DEF Select
<1>4. to \in Nat /\ to <= Len(all) /\ to <= from + PageSize /\ (to = Len(all) \/ to = from + PageSize)
  BY <1>1, <1>2 DEF Limit
<1> HIDE DEF all, from, to, rows
<1>5. /\ rows \in Seq(Rows)
      /\ Len(rows) = IF from + 1 <= to THEN to - (from + 1) + 1 ELSE 0
      /\ \A k \in 1..(to - (from + 1) + 1) : rows[k] = all[(from + 1) + k - 1]
  <2>1. \A k \in (from + 1)..to : all[k] \in Rows
    BY <1>1, <1>2, <1>4
  <2> QED
    BY <1>2, <1>3, <1>4, <2>1, SubSeqProperties
<1>6. Len(rows) = IF from + 1 <= to THEN to - from ELSE 0
  BY <1>2, <1>4, <1>5
<1>7. \A k \in 1..Len(rows) : rows[k] = all[from + k]
  <2> SUFFICES ASSUME NEW k \in 1..Len(rows) PROVE rows[k] = all[from + k]
    OBVIOUS
  <2>1. k \in 1..(to - (from + 1) + 1) /\ (from + 1) + k - 1 = from + k
    BY <1>2, <1>4, <1>6
  <2> QED
    BY <1>5, <2>1
<1>8. \A k \in 1..Len(rows) : k + from \in 1..Len(all) /\ k + from = from + k
  BY <1>1, <1>2, <1>4, <1>6
<1>9. \A k \in 1..Len(all) : from < k /\ k <= from + PageSize
        => k - from \in 1..Len(rows) /\ rows[k - from] = all[k]
  <2> SUFFICES ASSUME NEW k \in 1..Len(all), from < k, k <= from + PageSize
               PROVE  k - from \in 1..Len(rows) /\ rows[k - from] = all[k]
    OBVIOUS
  <2>1. k - from \in 1..Len(rows) /\ from + (k - from) = k
    BY <1>1, <1>2, <1>4, <1>6
  <2> QED
    BY <1>7, <2>1
<1>10. /\ Len(rows) \in 0..PageSize
       /\ Len(rows) > 0 => from < Len(all) /\ from + Len(rows) <= Len(all)
       /\ Len(rows) < PageSize => Len(all) <= from + Len(rows)
  BY <1>1, <1>2, <1>4, <1>6
<1> QED
  BY <1>2, <1>5, <1>7, <1>8, <1>9, <1>10 DEF all, from, rows

\* It grows with its factor.
LEMMA TimesGrows ==
    ASSUME NEW m \in Nat, NEW n \in Nat, m * PageSize < n * PageSize
    PROVE  m < n
<1> SUFFICES ASSUME n <= m PROVE FALSE
  OBVIOUS
<1>1. PICK d \in Nat : m = n + d
  <2>1. m - n \in Nat /\ m = n + (m - n)
    OBVIOUS
  <2> QED
    BY <2>1
<1>2. m * PageSize = n * PageSize + d * PageSize
  BY <1>1
<1>3. n * PageSize \in Nat /\ d * PageSize \in Nat
  BY Times
<1> QED
  BY <1>2, <1>3

\* Every position is on some page.
LEMMA EveryRowHasItsPage ==
    ASSUME NEW k \in Nat, NEW m \in Nat, k < m * PageSize
    PROVE  \E n \in 0..(m - 1) : n * PageSize <= k /\ k < (n + 1) * PageSize
<1> DEFINE T == {n \in Nat : k < n * PageSize}
<1>1. T \in SUBSET Nat /\ m \in T
  OBVIOUS
<1>2. PICK n \in T : \A i \in T : n <= i
  BY <1>1, Least
<1>3. n # 0
  BY <1>2
<1>4. n - 1 \in Nat /\ n - 1 \notin T
  BY <1>2, <1>3
<1>5. (n - 1) * PageSize \in Nat /\ n * PageSize \in Nat
  BY <1>2, <1>4, Times
<1>6. (n - 1) * PageSize <= k /\ k < ((n - 1) + 1) * PageSize
  BY <1>2, <1>4, <1>5
<1>7. n - 1 \in 0..(m - 1)
  BY <1>1, <1>2, <1>4
<1> QED
  BY <1>6, <1>7

\* The rows of a table are finitely many, and so are the values of a column.
LEMMA DistinctIsFinite ==
    ASSUME NEW h, NEW c
    PROVE  Cardinality(Distinct(h, c)) \in Nat
<1> DEFINE f == [i \in Live(h) |-> h[i][c]]
<1>1. f \in Surjection(Live(h), Distinct(h, c))
  BY DEF Surjection, Distinct
<1> QED
  BY <1>1, LiveIsFinite, FS_Surjection, FS_CardinalityType

-----------------------------------------------------------------------------
(* The loaded pages.                                                           *)

\* A total that is called exact belongs to a short page, and counts up to its end.
IsExact(page) ==
    page.total # None =>
        /\ page.total = page.param * PageSize + Len(page.rows)
        /\ Len(page.rows) < PageSize
        /\ Len(page.rows) > 0 \/ page.param = 0

\* The pages are numbered through as long as the first of them is page 0.
Numbered(g) ==
    /\ \A n \in DOMAIN g : n > 1 => g[n].param > 0
    /\ g # <<>> /\ g[1].param = 0 => \A n \in DOMAIN g : g[n].param = n - 1

PagesInv ==
    /\ \A n \in DOMAIN pages : IsExact(pages[n])
    /\ Numbered(pages)

ShownInv == TypeOK /\ PagesInv

-----------------------------------------------------------------------------
\* What FetchRows answers.
LEMMA FetchRowsAnswersAPage ==
    ASSUME NEW h \in Heaps, NEW o \in Orders, NEW param \in Nat
    PROVE  LET page == FetchRows(h, o, param) IN
           page \in Page /\ page.param = param /\ IsExact(page)
<1> DEFINE rows  == Select(h, o, param)
           exact == Len(rows) < PageSize /\ (Len(rows) > 0 \/ param = 0)
<1>1. rows \in Seq(Rows) /\ Len(rows) \in Nat
  BY SelectYieldsThePage
<1>2. param * PageSize \in Nat
  BY Times
<1>3. FetchRows(h, o, param) =
        [param |-> param, rows |-> rows, order |-> o,
         total |-> IF exact THEN param * PageSize + Len(rows) ELSE None]
  BY PageSizeStays DEF FetchRows, PageOf
<1> HIDE DEF rows
<1>4. FetchRows(h, o, param) \in Page
  BY <1>1, <1>2, <1>3 DEF Page
<1> QED
  BY <1>3, <1>4 DEF IsExact

\* addToEnd drops the first page or none.
LEMMA AddToEndKeepsThePages ==
    ASSUME NEW g \in Seq(Page), Len(g) > 0, Len(g) <= MaxPages,
           NEW page \in Page, page.param = Len(g), IsExact(page),
           \A n \in DOMAIN g : IsExact(g[n]), Numbered(g)
    PROVE  LET new == AddToEnd(g, page) IN
           /\ new \in Seq(Page) /\ Len(new) <= MaxPages
           /\ \A n \in DOMAIN new : IsExact(new[n])
           /\ Numbered(new)
<1> DEFINE new == AddToEnd(g, page)
<1>1. CASE Len(g) < MaxPages
  <2>1. new = Append(g, page)
    BY <1>1 DEF AddToEnd
  <2>2. new \in Seq(Page) /\ Len(new) = Len(g) + 1 /\ DOMAIN new = 1..(Len(g) + 1)
    BY <2>1
  <2>3. /\ \A n \in DOMAIN g : n \in 1..Len(g) /\ new[n] = g[n]
        /\ new[Len(g) + 1] = page
    BY <2>1
  <2>4. \A n \in DOMAIN new : n \in DOMAIN g \/ n = Len(g) + 1
    BY <2>2
  <2>5. \A n \in DOMAIN new : IsExact(new[n]) /\ (n > 1 => new[n].param > 0)
    BY <2>2, <2>3, <2>4 DEF Numbered
  <2>6. ASSUME new[1].param = 0
        PROVE  \A n \in DOMAIN new : new[n].param = n - 1
    <3>1. new[1] = g[1] /\ g # <<>>
      BY <2>3
    <3> QED
      BY <2>2, <2>3, <2>4, <2>6, <3>1 DEF Numbered
  <2>7. Len(new) <= MaxPages
    BY <1>1, <2>2
  <2> QED
    BY <2>2, <2>5, <2>6, <2>7 DEF Numbered
<1>2. CASE ~ (Len(g) < MaxPages)
  <2>1. new = Append(Tail(g), page)
    BY <1>2 DEF AddToEnd
  <2>2. /\ Tail(g) \in Seq(Page) /\ Len(Tail(g)) = Len(g) - 1
        /\ \A n \in 1..(Len(g) - 1) : Tail(g)[n] = g[n + 1]
    <3>1. g # <<>>
      OBVIOUS
    <3> QED
      BY <3>1, HeadTailProperties
  <2>3. new \in Seq(Page) /\ Len(new) = Len(g) /\ DOMAIN new = 1..Len(g)
    BY <2>1, <2>2
  <2>4. /\ \A n \in 1..(Len(g) - 1) : n + 1 \in DOMAIN g /\ new[n] = g[n + 1]
        /\ new[Len(g)] = page
    BY <2>1, <2>2
  <2>5. \A n \in DOMAIN new : n \in 1..(Len(g) - 1) \/ n = Len(g)
    BY <2>3
  <2>6. ASSUME NEW n \in DOMAIN new
        PROVE  IsExact(new[n]) /\ new[n].param > 0
    <3>1. CASE n \in 1..(Len(g) - 1)
      <4>1. n + 1 \in DOMAIN g /\ n + 1 > 1 /\ new[n] = g[n + 1]
        BY <2>4, <3>1
      <4> QED
        BY <4>1 DEF Numbered
    <3>2. CASE n = Len(g)
      BY <2>4, <3>2
    <3> QED
      BY <2>5, <3>1, <3>2
  <2> QED
    BY <2>3, <2>6 DEF Numbered
<1> QED
  BY <1>1, <1>2

\* A refetch reads at most as many pages as there were, from the first one on.
LEMMA RefetchReadsThePages ==
    ASSUME NEW h \in Heaps, NEW first \in Nat, NEW m \in Nat, NEW order \in [1..m -> Orders]
    PROVE  LET new == Refetched(h, first, m, order) IN
           /\ new \in Seq(Page) /\ Len(new) <= m
           /\ \A n \in DOMAIN new : IsExact(new[n])
           /\ Numbered(new)
<1> DEFINE page == [k \in 1..m |-> FetchRows(h, order[k], IF k = 1 THEN first ELSE k - 1)]
           more == {k \in 1..m : \A j \in 1..(k - 1) : HasNext(SubSeq(page, 1, j))}
           new  == Refetched(h, first, m, order)
<1>1. \A k \in 1..m : /\ page[k] \in Page /\ IsExact(page[k])
                      /\ page[k].param = IF k = 1 THEN first ELSE k - 1
  BY FetchRowsAnswersAPage
<1>2. Cardinality(more) \in 0..m
  <2>1. IsFiniteSet(1..m) /\ Cardinality(1..m) = m
    BY FS_Interval
  <2>2. more \in SUBSET (1..m)
    OBVIOUS
  <2>3. IsFiniteSet(more) /\ Cardinality(more) <= m
    BY <2>1, <2>2, FS_Subset
  <2> QED
    BY <2>3, FS_CardinalityType
<1>3. new = SubSeq(page, 1, Cardinality(more))
  BY DEF Refetched
<1> HIDE DEF page, more, new
<1>4. \A k \in 1..Cardinality(more) : page[k] \in Page
  BY <1>1, <1>2
<1>5. /\ new \in Seq(Page) /\ Len(new) = Cardinality(more)
      /\ \A k \in 1..Cardinality(more) : new[k] = page[k]
  BY <1>2, <1>3, <1>4, SubSeqProperties
<1>6. DOMAIN new = 1..Cardinality(more)
  BY <1>5
<1>7. \A k \in DOMAIN new : /\ IsExact(new[k])
                            /\ new[k].param = IF k = 1 THEN first ELSE k - 1
  BY <1>1, <1>2, <1>5, <1>6
<1>8. Numbered(new)
  BY <1>2, <1>5, <1>6, <1>7 DEF Numbered
<1> QED
  BY <1>2, <1>5, <1>7, <1>8 DEF new

\* What the page does with what it reads.
LEMMA PagesReadKeepTypes ==
    ASSUME IInv, ShownInv, FetchNextPage \/ Refetch
    PROVE  ShownInv'
<1>1. UNCHANGED <<table, writes, schema, named, at, cell, pending, batch>>
  BY DEF FetchNextPage, Refetch, tableVars, urlVars
<1>2. table[at].heap \in Heaps
  BY DEF ShownInv, TypeOK, Table
<1>3. pages' \in Seq(Page) /\ Len(pages') <= MaxPages /\ PagesInv'
  <2>1. CASE FetchNextPage
    <3>0. PICK o \in Orders : pages' = AddToEnd(pages, FetchRows(table[at].heap, o, Len(pages)))
      BY <2>1 DEF FetchNextPage, getNextPageParam
    <3> DEFINE page == FetchRows(table[at].heap, o, Len(pages))
    <3>1. pages \in Seq(Page) /\ Len(pages) > 0 /\ Len(pages) <= MaxPages /\ PagesInv
      BY <2>1 DEF ShownInv, TypeOK, FetchNextPage, HasNext
    <3>2. page \in Page /\ page.param = Len(pages) /\ IsExact(page)
      BY <1>2, <3>1, FetchRowsAnswersAPage
    <3>3. pages' = AddToEnd(pages, page)
      BY <3>0
    <3> QED
      BY <3>1, <3>2, <3>3, AddToEndKeepsThePages DEF PagesInv
  <2>2. CASE Refetch /\ pages = <<>>
    <3>1. PICK order \in [1..1 -> Orders] : pages' = Refetched(table[at].heap, 0, 1, order)
      BY <2>2 DEF Refetch
    <3>2. 0 \in Nat /\ 1 \in Nat /\ 1 <= MaxPages
      BY GridAssumption
    <3> DEFINE new == Refetched(table[at].heap, 0, 1, order)
    <3>3. /\ new \in Seq(Page) /\ Len(new) <= 1
          /\ (\A n \in DOMAIN new : IsExact(new[n])) /\ Numbered(new)
      BY <1>2, <3>1, <3>2, RefetchReadsThePages
    <3>4. pages' = new
      BY <3>1
    <3> HIDE DEF new
    <3> QED
      BY <3>2, <3>3, <3>4 DEF PagesInv
  <2>3. CASE Refetch /\ pages # <<>>
    <3>1. PICK order \in [1..Len(pages) -> Orders] :
            pages' = Refetched(table[at].heap, pages[1].param, Len(pages), order)
      BY <2>3 DEF Refetch
    <3>2. pages \in Seq(Page) /\ Len(pages) \in Nat /\ Len(pages) <= MaxPages /\ pages[1] \in Page
      BY <2>3 DEF ShownInv, TypeOK
    <3>3. pages[1].param \in Nat
      BY <3>2 DEF Page
    <3> DEFINE new == Refetched(table[at].heap, pages[1].param, Len(pages), order)
    <3>4. /\ new \in Seq(Page) /\ Len(new) <= Len(pages)
          /\ (\A n \in DOMAIN new : IsExact(new[n])) /\ Numbered(new)
      BY <1>2, <3>1, <3>2, <3>3, RefetchReadsThePages
    <3>5. pages' = new
      BY <3>1
    <3> HIDE DEF new
    <3> QED
      BY <3>2, <3>4, <3>5, GridAssumption DEF PagesInv
  <2> QED
    BY <2>1, <2>2, <2>3
<1> QED
  BY <1>1, <1>3 DEF ShownInv, TypeOK

\* What is under a cell is a row, and pkFor makes a key of it.
LEMMA RowAtIsARow ==
    ASSUME TypeOK, NEW n, IsSpot(n)
    PROVE  RowAt(n) \in Rows /\ pkFor(RowAt(n)) \in Key
<1>1. pages[n[1]] \in Page
  <2>1. pages \in Seq(Page) /\ n[1] \in DOMAIN pages
    BY DEF TypeOK, IsSpot
  <2> QED
    BY <2>1
<1>5. pages[n[1]].rows \in Seq(Rows)
  BY <1>1 DEF Page
<1>2. RowAt(n) \in Rows
  BY <1>5 DEF IsSpot, RowAt
<1>3. schema[at] \in SUBSET Columns
  BY DEF TypeOK
<1>4. pkFor(RowAt(n)) \in [schema[at] -> Values]
  BY <1>2, <1>3 DEF pkFor, Rows
<1> QED
  BY <1>2, <1>3, <1>4 DEF Key

\* With no submission under way the batch has its type.
LEMMA NoBatchIsABatch ==
    ASSUME TypeOK
    PROVE  NoBatch \in Batch /\ [NoBatch EXCEPT !.pc = "done"] \in Batch
  BY DEF TypeOK, NoBatch, Batch, Heaps

\* The editor's handlers add changes of rows that are shown.
LEMMA EditorKeepsTypes ==
    ASSUME ShownInv,
           (\E n \in Spots : OpenCell(n) \/ ToggleDelete(n)) \/ CommitCell \/ CloseCell \/ AddDraft \/ Discard
    PROVE  ShownInv'
<1>1. UNCHANGED <<table, writes, schema, named, at, pages, batch>>
  BY DEF OpenCell, ToggleDelete, CommitCell, CloseCell, AddDraft, Discard, tableVars, urlVars
<1>2. TypeOK
  BY DEF ShownInv
<1>3. cell' \in Cell \cup {None} /\ pending' \subseteq Change
  <2>1. ASSUME NEW n \in Spots, OpenCell(n)
        PROVE  cell' \in Cell \cup {None} /\ pending' \subseteq Change
    <3>1. RowAt(n) \in Rows
      BY <1>2, <2>1, RowAtIsARow DEF OpenCell
    <3>2. n \in Nat \X Nat
      BY <2>1 DEF Spots, Slots
    <3> QED
      BY <1>2, <2>1, <3>1, <3>2 DEF OpenCell, TypeOK, Cell
  <2>2. ASSUME NEW n \in Spots, ToggleDelete(n)
        PROVE  cell' \in Cell \cup {None} /\ pending' \subseteq Change
    <3> DEFINE ch == [op |-> "delete", key |-> pkFor(RowAt(n)), opened |-> RowAt(n),
                      seen |-> RowAt(n), at |-> at, named |-> named]
    <3>1. RowAt(n) \in Rows /\ pkFor(RowAt(n)) \in Key
      BY <1>2, <2>2, RowAtIsARow DEF ToggleDelete
    <3>2. ch \in Change
      BY <1>2, <3>1 DEF TypeOK, Change, Line
    <3>3. pending' \subseteq pending \cup {ch} /\ cell' = cell
      BY <2>2 DEF ToggleDelete
    <3> QED
      BY <1>2, <3>2, <3>3 DEF TypeOK
  <2>3. CASE CommitCell
    <3> DEFINE ch == [op |-> "update", key |-> pkFor(RowAt(cell.spot)), opened |-> cell.row,
                      seen |-> RowAt(cell.spot), at |-> at, named |-> named]
    <3>1. RowAt(cell.spot) \in Rows /\ pkFor(RowAt(cell.spot)) \in Key
      BY <1>2, <2>3, RowAtIsARow DEF CommitCell
    <3>2. cell.row \in Rows
      BY <1>2, <2>3 DEF CommitCell, TypeOK, Cell
    <3>3. ch \in Change
      BY <1>2, <3>1, <3>2 DEF TypeOK, Change, Line
    <3>4. pending' \subseteq pending \cup {ch} /\ cell' = None
      BY <2>3 DEF CommitCell
    <3> QED
      BY <1>2, <3>3, <3>4 DEF TypeOK
  <2>4. CASE CloseCell \/ Discard
    BY <1>2, <2>4 DEF CloseCell, Discard, TypeOK
  <2>5. CASE AddDraft
    <3>1. [c \in {} |-> None] \in Key
      BY DEF Key
    <3>2. Draft \in Change
      BY <1>2, <3>1 DEF Draft, Change, Line, TypeOK
    <3> QED
      BY <1>2, <2>5, <3>2 DEF AddDraft, TypeOK
  <2> QED
    BY <2>1, <2>2, <2>3, <2>4, <2>5
<1> QED
  BY <1>1, <1>3 DEF ShownInv, TypeOK, PagesInv

\* The submission, its transaction and its end.
LEMMA SubmissionKeepsTypes ==
    ASSUME IInv, ShownInv,
           \/ Submit \/ Build \/ Ask \/ GiveUp \/ Begin \/ Rollback \/ Commit \/ Applied \/ Lost
           \/ \E ch \in batch.todo : Statement(ch)
    PROVE  ShownInv'
<1>1. UNCHANGED <<schema, named, at, pages, cell>>
  BY DEF Submit, Build, Ask, GiveUp, Begin, Rollback, Commit, Applied, Lost, Statement, urlVars
<1>2. pending' \subseteq Change
  BY DEF ShownInv, TypeOK, Submit, Build, Ask, GiveUp, Begin, Rollback, Commit, Applied, Lost, Statement
<1>3. TypeOK
  BY DEF ShownInv
<1>4. table' \in [Places -> Table] /\ writes' \in 0..MaxWrites
  <2>1. CASE Commit
    <3>1. IInv'
      BY <2>1, CommitKeepsInv
    <3> QED
      BY <1>3, <2>1, <3>1 DEF IInv, TableInv, Commit, TypeOK
  <2>2. CASE Begin
    BY <1>3, <2>2 DEF Begin, TypeOK
  <2>3. CASE UNCHANGED tableVars
    BY <1>3, <2>3 DEF TypeOK, tableVars, urlVars
  <2> QED
    BY <2>1, <2>2, <2>3 DEF Submit, Build, Ask, GiveUp, Rollback, Applied, Lost, Statement
<1>5. batch' \in Batch
  <2>1. batch \in Batch /\ NoBatch \in Batch /\ [NoBatch EXCEPT !.pc = "done"] \in Batch
    BY <1>3, NoBatchIsABatch DEF TypeOK
  <2>2. CASE Submit
    <3>1. at \in Places /\ buildChanges \subseteq Change
      BY <1>3 DEF TypeOK, buildChanges
    <3> QED
      BY <2>1, <2>2, <3>1 DEF Submit, Batch
  <2>3. table[batch.at] \in Table /\ table[batch.at].pk \subseteq Columns /\ table[batch.at].heap \in Heaps
    BY <1>3, <2>1 DEF TypeOK, Batch, Table
  <2>4. CASE Build
    BY <2>1, <2>3, <2>4 DEF Build, Batch
  <2>5. CASE Ask
    BY <2>1, <2>5 DEF Ask, Batch
  <2>6. CASE Begin
    BY <2>1, <2>3, <2>6 DEF Begin, Batch
  <2>7. ASSUME NEW ch \in batch.todo, Statement(ch) PROVE batch' \in Batch
    <3>1. PICK h \in Effects(ch, batch.shape, batch.heap) :
            batch' = [batch EXCEPT !.todo = @ \ {ch}, !.heap = h]
      BY <2>7 DEF Statement
    <3>2. batch.heap \in Heaps /\ ch.op \in {"update", "delete", "insert"}
      BY <2>1 DEF Batch, Change
    <3>3. h \in Heaps
      BY <3>2, EffectsAreHeaps
    <3> QED
      BY <2>1, <3>1, <3>3 DEF Batch
  <2>8. CASE batch' = NoBatch \/ batch' = [NoBatch EXCEPT !.pc = "done"]
    BY <2>1, <2>8
  <2> QED
    BY <2>2, <2>4, <2>5, <2>6, <2>7, <2>8 DEF GiveUp, Rollback, Commit, Applied, Lost
<1> QED
  BY <1>1, <1>2, <1>3, <1>4, <1>5 DEF ShownInv, TypeOK, PagesInv

\* Writes of others, the schema query and the navigation.
LEMMA RestKeepsTypes ==
    ASSUME ShownInv, \/ \E p \in Busy : Write(p) \/ Alter(p)
                     \/ \E p \in Places : ReadSchema(p) \/ \E n \in BOOLEAN : Go(p, n)
    PROVE  ShownInv'
<1>1. TypeOK
  BY DEF ShownInv
<1>2. ASSUME NEW p \in Places, NEW t, Others(p, t) PROVE ShownInv'
  BY <1>1, <1>2 DEF Others, ShownInv, TypeOK, PagesInv, urlVars
<1>3. CASE \E p \in Busy : Write(p) \/ Alter(p)
  <2>1. PICK p \in Places : Write(p) \/ Alter(p)
    BY <1>3
  <2>2. \E t : Others(p, t)
    BY <2>1, Zenon DEF Write, Alter
  <2> QED
    BY <1>2, <2>2
<1>4. ASSUME NEW p \in Places, Show(p)
      PROVE  at' \in Places /\ pages' \in Seq(Page) /\ Len(pages') <= MaxPages /\ PagesInv'
  <2>1. CASE p = at
    BY <1>1, <1>4, <2>1 DEF Show, ShownInv, TypeOK, PagesInv
  <2>2. CASE p # at
    <3>1. pages' = <<>> /\ at' = p
      BY <1>4, <2>2 DEF Show
    <3> QED
      BY <3>1 DEF PagesInv, Numbered
  <2> QED
    BY <2>1, <2>2
<1>5. ASSUME NEW p \in Places, ReadSchema(p) PROVE ShownInv'
  <2>1. \A q \in Places : table[q].pk \subseteq Columns
    BY <1>1 DEF TypeOK, Table
  <2>2. schema' \in [Places -> SUBSET Columns]
    BY <1>1, <1>5, <2>1 DEF ReadSchema, TypeOK
  <2>3. UNCHANGED <<table, writes, named, cell, pending, batch>> /\ Show(p)
    BY <1>5 DEF ReadSchema, tableVars
  <2> QED
    BY <1>1, <1>4, <2>2, <2>3 DEF ShownInv, TypeOK
<1>6. ASSUME NEW p \in Places, NEW n \in BOOLEAN, Go(p, n) PROVE ShownInv'
  <2>1. UNCHANGED <<table, writes, schema, cell, batch>> /\ named' = n /\ Show(p)
    BY <1>6 DEF Go, Navigate, tableVars
  <2>2. pending' \subseteq Change
    BY <1>1, <1>6 DEF Go, TypeOK
  <2> QED
    BY <1>1, <1>4, <2>1, <2>2 DEF ShownInv, TypeOK
<1> QED
  BY <1>3, <1>5, <1>6

\* Types, and what the loaded pages say of themselves, hold after every step.
THEOREM PagesInvariance == Spec => []ShownInv
<1>1. Init => ShownInv
  <2> SUFFICES ASSUME Init PROVE ShownInv
    OBVIOUS
  <2>1. table \in [Places -> Table] /\ at \in Places /\ named \in BOOLEAN
    BY DEF Init
  <2>2. schema \in [Places -> SUBSET Columns]
    BY <2>1 DEF Init, Table
  <2>3. NoBatch \in Batch
    BY <2>1 DEF NoBatch, Batch, Heaps
  <2>4. PagesInv /\ pages \in Seq(Page) /\ Len(pages) <= MaxPages
    BY DEF Init, PagesInv, Numbered
  <2> QED
    BY <2>1, <2>2, <2>3, <2>4 DEF Init, ShownInv, TypeOK
<1>2. IInv /\ ShownInv /\ [Next]_vars => ShownInv'
  <2> SUFFICES ASSUME IInv, ShownInv, [Next]_vars PROVE ShownInv'
    OBVIOUS
  <2>1. CASE UNCHANGED vars
    BY <2>1 DEF vars, tableVars, urlVars, ShownInv, TypeOK, PagesInv
  <2>2. CASE Next
    BY <2>2, PagesReadKeepTypes, EditorKeepsTypes, SubmissionKeepsTypes, RestKeepsTypes DEF Next
  <2> QED
    BY <2>1, <2>2
<1> QED
  BY <1>1, <1>2, GridInvariance, PTL DEF Spec

\* An exact total, the end of an export and of a list of values tell what was
\* left out (FetchRows, ExportRows, DistinctValues).
THEOREM LeftOutIsAlwaysSaid == Spec => []LeftOutIsSaid
<1>1. ShownInv => LeftOutIsSaid
  <2> SUFFICES ASSUME ShownInv PROVE LeftOutIsSaid
    OBVIOUS
  <2> DEFINE h    == table[at].heap
             size == Cardinality(Live(h))
  <2>1. h \in Heaps
    BY DEF ShownInv, TypeOK, Table
  <2>2. size \in Nat
    BY LiveIsFinite
  <2>3. ASSUME NEW n \in DOMAIN pages, UpToDate(pages[n]), pages[n].total # None
        PROVE  pages[n].total = size
    <3> DEFINE param == pages[n].param
               rows  == pages[n].rows
               o     == pages[n].order
    <3>1. pages[n] \in Page
      <4>1. pages \in Seq(Page)
        BY DEF ShownInv, TypeOK
      <4> QED
        BY <4>1
    <3>2. /\ pages[n].total = param * PageSize + Len(rows)
          /\ Len(rows) < PageSize
          /\ Len(rows) > 0 \/ param = 0
      BY <2>3 DEF ShownInv, PagesInv, IsExact
    <3>3. param \in Nat /\ o \in Orders /\ rows = Select(h, o, param)
      BY <2>3, <3>1 DEF Page, UpToDate
    <3> HIDE DEF h, param, rows, o
    <3>4. /\ Len(rows) \in 0..PageSize
          /\ size <= param * PageSize + Len(rows)
          /\ Len(rows) > 0 => param * PageSize + Len(rows) <= size
      <4>1. Len(Scan(h, o)) = size
        BY <2>1, <3>3, ScanYieldsTheRows
      <4> QED
        BY <2>1, <3>2, <3>3, <4>1, SelectYieldsThePage
    <3>5. param * PageSize \in Nat /\ (param = 0 => param * PageSize = 0)
      BY <3>3, Times
    <3> QED
      BY <2>2, <3>2, <3>4, <3>5 DEF param, rows
  <2>4. ExportRows(h).truncated <=> ExportRows(h).n < size
    <3> DEFINE x == size
               y == Limit(x, ExportRowCap + 1)
    <3>1. /\ ExportRows(h).truncated = (y > ExportRowCap + 1 \/ ExecuteWithLimit(y, ExportRowCap + 1).n > ExportRowCap)
          /\ ExportRows(h).n = Limit(ExecuteWithLimit(y, ExportRowCap + 1).n, ExportRowCap)
      BY Zenon DEF ExportRows, ExecuteWithLimit
    <3>2. ExecuteWithLimit(y, ExportRowCap + 1).n = y /\ ~ (y > ExportRowCap + 1)
      BY <2>2 DEF ExecuteWithLimit, Limit
    <3>3. /\ ExportRows(h).truncated <=> y > ExportRowCap
          /\ ExportRows(h).n = Limit(y, ExportRowCap)
      BY <3>1, <3>2, Zenon
    <3>4. (y > ExportRowCap) <=> Limit(y, ExportRowCap) < x
      BY <2>2 DEF Limit
    <3> QED
      BY <3>3, <3>4, Zenon
  <2>5. ASSUME NEW c \in Columns
        PROVE  DistinctValues(h, c).truncated <=> DistinctValues(h, c).n < Cardinality(Distinct(h, c))
    <3> DEFINE d == Cardinality(Distinct(h, c))
               y == Limit(d, MaxDistinctValues + 1)
    <3>1. /\ DistinctValues(h, c).truncated <=> y > MaxDistinctValues
          /\ DistinctValues(h, c).n = Limit(y, MaxDistinctValues)
      BY Zenon DEF DistinctValues
    <3>2. d \in Nat
      BY DistinctIsFinite
    <3>3. (y > MaxDistinctValues) <=> Limit(y, MaxDistinctValues) < d
      BY <3>2 DEF Limit
    <3> QED
      BY <3>1, <3>3, Zenon
  <2> QED
    BY <2>3, <2>4, <2>5 DEF LeftOutIsSaid
<1> QED
  BY <1>1, PagesInvariance, PTL

\* "end of data" is only said when the loaded pages hold every row there is, if the
\* server went through the table in one order for all of them (getNextPageParam,
\* and FetchRows, whose LIMIT and OFFSET come without an ORDER BY).
THEOREM EndOfDataIsTheEnd == Spec => []EndOfDataIsAll
<1>1. ShownInv => EndOfDataIsAll
  <2> DEFINE h == table[at].heap
             o == pages[1].order
             L == Len(pages)
             Shown == UNION {{pages[n].rows[k] : k \in DOMAIN pages[n].rows} : n \in DOMAIN pages}
  <2> SUFFICES ASSUME ShownInv, pages # <<>>, ~ HasNext(pages), pages[1].param = 0,
                      \A n \in DOMAIN pages : UpToDate(pages[n]) /\ pages[n].order = pages[1].order
               PROVE  {h[i] : i \in Live(h)} = Shown
    BY DEF EndOfDataIsAll
  <2>1. h \in Heaps
    BY DEF ShownInv, TypeOK, Table
  <2>2. pages \in Seq(Page) /\ L \in Nat \ {0} /\ DOMAIN pages = 1..L /\ o \in Orders
    <3>1. pages \in Seq(Page) /\ pages[1] \in Page
      BY DEF ShownInv, TypeOK
    <3> QED
      BY <3>1 DEF Page
  <2>3. \A n \in 1..L : pages[n].rows = Select(h, o, n - 1)
    BY <2>2 DEF ShownInv, PagesInv, Numbered, UpToDate
  <2> HIDE DEF h, L, o
  <2>4. \A n \in 1..L : n - 1 \in Nat
    BY <2>2
  <2>5. Len(Scan(h, o)) \in Nat /\ Len(Scan(h, o)) < L * PageSize
    <3>1. L - 1 \in Nat /\ L \in 1..L
      BY <2>2
    <3>2. Len(Select(h, o, L - 1)) < PageSize /\ Len(Select(h, o, L - 1)) \in Nat
      <4>1. Len(pages[L].rows) < PageSize
        <5>1. ~ (Len(pages[L].rows) >= PageSize)
          BY DEF HasNext, L
        <5>2. Len(pages[L].rows) \in Nat
          BY <2>1, <2>2, <2>3, <3>1, SelectYieldsThePage
        <5> QED
          BY <5>1, <5>2
      <4>2. pages[L].rows = Select(h, o, L - 1)
        BY <2>3, <3>1
      <4>3. Len(Select(h, o, L - 1)) \in 0..PageSize
        BY <2>1, <2>2, <3>1, SelectYieldsThePage
      <4> QED
        BY <4>1, <4>2, <4>3
    <3>3. Len(Scan(h, o)) <= (L - 1) * PageSize + Len(Select(h, o, L - 1)) /\ Len(Scan(h, o)) \in Nat
      <4>1. \A m \in Nat : Len(Select(h, o, m)) < PageSize
                          => Len(Scan(h, o)) <= m * PageSize + Len(Select(h, o, m))
        BY <2>1, <2>2, SelectYieldsThePage
      <4>2. Len(Scan(h, o)) \in Nat
        BY <2>1, <2>2, ScanYieldsTheRows
      <4> QED
        BY <3>1, <3>2, <4>1, <4>2, Zenon
    <3>4. (L - 1) * PageSize \in Nat /\ ((L - 1) + 1) * PageSize = (L - 1) * PageSize + PageSize /\ (L - 1) + 1 = L
      <4>1. \A m \in Nat : m * PageSize \in Nat /\ (m + 1) * PageSize = m * PageSize + PageSize
        BY Times
      <4>2. (L - 1) + 1 = L
        BY <2>2
      <4> QED
        BY <3>1, <4>1, <4>2, Zenon
    <3> QED
      BY <3>2, <3>3, <3>4
  <2>6. ASSUME NEW i \in Live(h) PROVE h[i] \in Shown
    <3>1. PICK k \in 1..Len(Scan(h, o)) : Scan(h, o)[k] = h[i]
      BY <2>1, <2>2, ScanYieldsTheRows
    <3>2. k - 1 \in Nat /\ k - 1 < L * PageSize
      <4>1. L * PageSize \in Nat
        BY <2>2, Times
      <4> QED
        BY <2>5, <4>1
    <3>3. PICK n \in 0..(L - 1) : n * PageSize <= k - 1 /\ k - 1 < (n + 1) * PageSize
      BY <2>2, <3>2, EveryRowHasItsPage
    <3>4. n \in Nat /\ n * PageSize \in Nat /\ (n + 1) * PageSize \in Nat
      BY <2>2, <3>3, Times
    <3>5. n * PageSize < k /\ k <= (n + 1) * PageSize
      BY <3>2, <3>3, <3>4
    <3>6. k - n * PageSize \in 1..Len(Select(h, o, n)) /\ Select(h, o, n)[k - n * PageSize] = h[i]
      <4>1. \A m \in Nat, l \in 1..Len(Scan(h, o)) :
              m * PageSize < l /\ l <= (m + 1) * PageSize
              => /\ l - m * PageSize \in 1..Len(Select(h, o, m))
                 /\ Select(h, o, m)[l - m * PageSize] = Scan(h, o)[l]
        BY <2>1, <2>2, SelectYieldsThePage
      <4> QED
        BY <3>1, <3>4, <3>5, <4>1, Zenon
    <3>7. n + 1 \in 1..L /\ pages[n + 1].rows = Select(h, o, n)
      <4>1. n + 1 \in 1..L /\ (n + 1) - 1 = n
        BY <2>2, <3>3
      <4>2. pages[n + 1].rows = Select(h, o, (n + 1) - 1)
        BY <2>3, <4>1, Zenon
      <4> QED
        BY <4>1, <4>2, Zenon
    <3>8. Select(h, o, n) \in Seq(Rows)
      BY <2>1, <2>2, <3>4, SelectYieldsThePage
    <3> QED
      BY <2>2, <3>6, <3>7, <3>8
  <2>7. ASSUME NEW n \in 1..L, NEW k \in DOMAIN pages[n].rows
        PROVE  pages[n].rows[k] \in {h[i] : i \in Live(h)}
    <3>1. pages[n].rows = Select(h, o, n - 1) /\ n - 1 \in Nat
      BY <2>3, <2>4
    <3>2. Select(h, o, n - 1) \in Seq(Rows)
      BY <2>1, <2>2, <3>1, SelectYieldsThePage
    <3>3. k \in 1..Len(Select(h, o, n - 1))
      BY <3>1, <3>2
    <3>4. /\ k + (n - 1) * PageSize \in 1..Len(Scan(h, o))
          /\ Select(h, o, n - 1)[k] = Scan(h, o)[k + (n - 1) * PageSize]
      BY <2>1, <2>2, <3>1, <3>3, SelectYieldsThePage
    <3> QED
      BY <2>1, <2>2, <3>1, <3>4, ScanYieldsTheRows
  <2> QED
    BY <2>2, <2>6, <2>7
<1> QED
  BY <1>1, PagesInvariance, PTL

\* Every variable of DataGrid keeps its type.
THEOREM TypeCorrect == Spec => []TypeOK
<1>1. ShownInv => TypeOK
  BY DEF ShownInv
<1> QED
  BY <1>1, PagesInvariance, PTL
===============================================================================
