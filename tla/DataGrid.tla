------------------------------- MODULE DataGrid -------------------------------
(***************************************************************************)
(* The data grid: DataPage with its infinite query and its pending edits,  *)
(* the handlers that read a table for it (FetchRows, DistinctValues,       *)
(* ExportRows) or write to it (IntrospectTable, BuildMutations, one        *)
(* transaction), and the tables, which others change and alter meanwhile.  *)
(*                                                                         *)
(* A table is a heap: a row sits in a slot, a scan without ORDER BY goes   *)
(* through the slots in an order of its own, and UPDATE moves a row to     *)
(* another slot.  What the policy says of a write, and how it may end, is  *)
(* in StatementGate.                                                       *)
(***************************************************************************)
EXTENDS Integers, Sequences, FiniteSets

CONSTANTS
    Places,     \* what the page can show: pairs of a connection and the
                \* :schema/:name of a table
    Columns, Values,
    Reads,      \* what a value is once JavaScript has read it as a number
    Size,       \* the slots of a heap
    Orders,     \* in which orders a query may go through them: PostgreSQL starts
                \* in the middle of a big table, or reads it in parallel
    None,       \* no row, no cell
    PageSize,   \* PAGE_SIZE of the page
    MaxPageSize,        \* and the limit of the server
    MaxPages,   \* maxPages of the infinite query
    MaxDistinctValues, ExportRowCap,
    Tables,     \* what the tables may be at first
    Busy,       \* bound: the tables that others write to, too
    MaxWrites,  \* bound: how often a table is written to
    MaxEdits    \* bound: the pending changes

Conn(p)  == p[1]
Route(p) == p[2]

ASSUME PlacesAssumption ==
    \A p, q \in Places : Conn(p) = Conn(q) /\ Route(p) = Route(q) => p = q

ASSUME GridAssumption ==
    /\ Size \in Nat
    /\ Reads \in [Values -> Values]
    /\ PageSize \in Nat \ {0}
    /\ MaxPageSize \in Nat /\ PageSize <= MaxPageSize
    /\ MaxPages \in Nat \ {0}
    /\ MaxDistinctValues \in Nat /\ ExportRowCap \in Nat
    /\ MaxWrites \in Nat /\ MaxEdits \in Nat

Rows  == [Columns -> Values]
Slots == 1..Size
ASSUME NoRowAssumption == None \notin Rows
ASSUME OrdersAssumption ==
    \A o \in Orders :
        o \in [Slots -> Nat] /\ \A i, j \in Slots : o[i] = o[j] => i = j

Heaps == [Slots -> Rows \cup {None}]
Live(h) == {i \in Slots : h[i] # None}
KeyOf(row, pk) == [c \in pk |-> row[c]]

\* A primary key tells the rows apart; without one nothing does.
Valid(t) ==
    t.pk # {} => \A i, j \in Live(t.heap) : KeyOf(t.heap[i], t.pk) = KeyOf(t.heap[j], t.pk) => i = j

Table == {t \in [heap : Heaps, pk : SUBSET Columns] : Valid(t)}
ASSUME TablesAssumption == Tables \subseteq [Places -> Table] /\ Busy \subseteq Places

VARIABLES
    table,      \* the tables
    writes,     \* how often the tables have been written to
    schema,     \* the primary keys, as the page's schema query has last read them
    named,      \* whether its URL names a table; /data does not
    at,         \* what the page shows: the table it names, or the first there is
    pages,      \* the pages of it that are loaded
    cell,       \* the open cell: where in the grid it is, and what row was there
    pending,    \* the edits, deletes and drafts of useTableEditor
    batch       \* the submission under way

tableVars == <<table, writes>>
urlVars   == <<named, at>>
vars      == <<tableVars, schema, urlVars, pages, cell, pending, batch>>

Key    == UNION {[pk -> Values] : pk \in SUBSET Columns}
Line   == Rows \cup {None}

\* opened and seen: the row when the cell was opened and when it was committed; at
\* and named: what the page showed then, under which URL; order: the server's.
Change == [op : {"update", "delete", "insert"}, key : Key, opened : Line, seen : Line,
           at : Places, named : BOOLEAN]
Page   == [param : Nat, rows : Seq(Rows), total : Nat \cup {None}, order : Orders]
Cell   == [spot : Nat \X Nat, row : Rows]
Batch  == [pc : {"none", "sent", "built", "tx", "done"}, at : Places, todo : SUBSET Change,
           shape : SUBSET Columns, heap : Heaps]

TypeOK ==
    /\ table \in [Places -> Table]
    /\ writes \in 0..MaxWrites
    /\ schema \in [Places -> SUBSET Columns]
    /\ named \in BOOLEAN
    /\ at \in Places
    /\ pages \in Seq(Page) /\ Len(pages) <= MaxPages
    /\ cell \in Cell \cup {None}
    /\ pending \subseteq Change
    /\ batch \in Batch

NoBatch == [pc |-> "none", at |-> CHOOSE p \in Places : TRUE, todo |-> {}, shape |-> {}, heap |-> [i \in Slots |-> None]]

-----------------------------------------------------------------------------
(* The tables, and what others do to them. *)

\* What others do, but not to a table that the transaction has locked.
Others(p, t) ==
    /\ writes < MaxWrites
    /\ ~ (batch.pc = "tx" /\ batch.at = p)
    /\ t \in Table
    /\ table' = [table EXCEPT ![p] = t]
    /\ writes' = writes + 1
    /\ UNCHANGED <<schema, urlVars, pages, cell, pending, batch>>

\* INSERT, DELETE and UPDATE of one row.
Insert(h, row)    == {[h EXCEPT ![i] = row] : i \in Slots \ Live(h)}
Delete(h, i)      == [h EXCEPT ![i] = None]
Update(h, i, row) == {[h EXCEPT ![i] = None, ![j] = row] : j \in Slots \ Live(h)}

OneRow(h) == UNION {Insert(h, row) : row \in Rows} \cup {Delete(h, i) : i \in Live(h)}
             \cup UNION {Update(h, i, row) : i \in Live(h), row \in Rows}

Write(p) == \E g \in OneRow(table[p].heap) : Others(p, [table[p] EXCEPT !.heap = g])

\* ALTER TABLE drops the primary key, or makes another.
Alter(p) == \E pk \in SUBSET Columns : Others(p, [table[p] EXCEPT !.pk = pk])

-----------------------------------------------------------------------------
(* The reading handlers. *)

normalizePage(size) == IF size > MaxPageSize THEN MaxPageSize ELSE size

\* What a scan yields, slot by slot in the order it takes, and what is left of it
\* by LIMIT and OFFSET.
Rank(h, o, i) == Cardinality({j \in Live(h) : o[j] <= o[i]})
Scan(h, o) == [k \in 1..Cardinality(Live(h)) |-> h[CHOOSE i \in Live(h) : Rank(h, o, i) = k]]
Limit(n, limit) == IF n > limit THEN limit ELSE n
Select(h, o, param) ==
    LET size == normalizePage(PageSize)
        all  == Scan(h, o)
    IN SubSeq(all, param * size + 1, Limit(Len(all), (param + 1) * size))

\* The page that FetchRows makes of the rows: None is what pg_class estimates.
PageOf(param, rows, exact, o) ==
    [param |-> param, rows |-> rows, order |-> o,
     total |-> IF exact THEN param * normalizePage(PageSize) + Len(rows) ELSE None]

\* Faulty variant: every short page is past the end.
FetchRowsShort(h, o, param) ==
    LET rows == Select(h, o, param)
    IN PageOf(param, rows, Len(rows) < normalizePage(PageSize), o)

\* A short page is past the end, an empty one perhaps further.
FetchRows(h, o, param) ==
    LET rows == Select(h, o, param)
    IN PageOf(param, rows, /\ Len(rows) < normalizePage(PageSize)
                           /\ Len(rows) > 0 \/ param = 0, o)

\* pool.ExecuteWithLimit: how many of n rows it returns, and whether that is all.
ExecuteWithLimit(n, cap) == [n |-> IF n > cap THEN cap ELSE n, truncated |-> n > cap]

ExportRows(h) ==
    LET res == ExecuteWithLimit(Limit(Cardinality(Live(h)), ExportRowCap + 1), ExportRowCap + 1)
    IN [n |-> Limit(res.n, ExportRowCap), truncated |-> res.truncated \/ res.n > ExportRowCap]

Distinct(h, c) == {h[i][c] : i \in Live(h)}

DistinctValues(h, c) ==
    LET n == Limit(Cardinality(Distinct(h, c)), MaxDistinctValues + 1)
    IN [n |-> Limit(n, MaxDistinctValues), truncated |-> n > MaxDistinctValues]

-----------------------------------------------------------------------------
(* The infinite query. *)

\* Faulty variant: a full page ends the data, too.
HasNextMore(g) == g # <<>> /\ Len(g[Len(g)].rows) > PageSize

\* getNextPageParam: after a full page, the number of pages there are.
HasNext(g) == g # <<>> /\ Len(g[Len(g)].rows) >= PageSize
getNextPageParam(g) == Len(g)

\* Faulty variant: without maxPages.
AddToEndAlways(g, page) == Append(g, page)

\* addToEnd: the first page goes when there are more than maxPages.
AddToEnd(g, page) == IF Len(g) < MaxPages THEN Append(g, page) ELSE Append(Tail(g), page)

\* The user has scrolled near the end of what is loaded, and the answer comes.
FetchNextPage ==
    /\ HasNext(pages)
    /\ \E o \in Orders :
         pages' = AddToEnd(pages, FetchRows(table[at].heap, o, getNextPageParam(pages)))
    /\ UNCHANGED <<tableVars, schema, urlVars, cell, pending, batch>>

\* What a refetch of n pages reads, the second by the number of pages so far.
Refetched(h, first, n, order) ==
    LET page == [k \in 1..n |-> FetchRows(h, order[k], IF k = 1 THEN first ELSE k - 1)]
        more == {k \in 1..n : \A j \in 1..(k - 1) : HasNext(SubSeq(page, 1, j))}
    IN SubSeq(page, 1, Cardinality(more))

\* The rows are read when the page shows another table, after a Submit and by the
\* Refresh button: as many pages as there were.  (One step: that the table may
\* change from page to page is FetchNextPage's matter, too.)
Refetch ==
    LET first == IF pages = <<>> THEN 0 ELSE pages[1].param
        n     == IF pages = <<>> THEN 1 ELSE Len(pages)
    IN
    /\ \E order \in [1..n -> Orders] : pages' = Refetched(table[at].heap, first, n, order)
    /\ UNCHANGED <<tableVars, schema, urlVars, cell, pending, batch>>

-----------------------------------------------------------------------------
(* What the page shows. *)

\* The page shows p from now on.  What the query cache still has of p counts as
\* not loaded: rows out of date are what a write of others leaves, too.
Show(p) ==
    /\ at' = p
    /\ pages' = IF p = at THEN pages ELSE <<>>

\* The schema query, a minute after the last: the primary keys of the connection's
\* tables and which tables there are.  On /data another may be the first of them,
\* and is shown, without any effect that resets the editor.
ReadSchema(p) ==
    /\ Conn(p) = Conn(at)
    /\ named => p = at
    /\ schema' = [q \in Places |-> IF Conn(q) = Conn(at) THEN table[q].pk ELSE schema[q]]
    /\ Show(p)
    /\ UNCHANGED <<tableVars, named, cell, pending, batch>>

\* Another URL: a table's own, or /data; or another connection under the same one.
\* A click closes an open cell, the Back key does not.  (The schema of the other
\* connection is in the cache: without it the page renders fewer hooks, and React
\* unmounts it.)
Navigate(p, n) ==
    /\ <<p, n>> # <<at, named>>
    /\ IF Conn(p) = Conn(at) THEN n \/ named
       ELSE n = named /\ (named => Route(p) = Route(at))
    /\ Show(p)
    /\ named' = n

\* Faulty variant: nothing resets the editor.
GoKeeping(p, n) ==
    /\ Navigate(p, n)
    /\ UNCHANGED <<tableVars, schema, cell, pending, batch>>

\* The effect that resets the editor looks at the parameters of the URL.
Go(p, n) ==
    /\ Navigate(p, n)
    /\ pending' = IF n = named /\ (n => Route(p) = Route(at)) THEN pending ELSE {}
    /\ UNCHANGED <<tableVars, schema, cell, batch>>

-----------------------------------------------------------------------------
(* useTableEditor. *)

\* A row, by the page it is on and its place there.
IsSpot(n) == n[1] \in DOMAIN pages /\ n[2] \in DOMAIN pages[n[1]].rows
RowAt(n) == pages[n[1]].rows[n[2]]

\* pkFor, of what JavaScript has of the row.
pkFor(row) == [c \in schema[at] |-> Reads[row[c]]]

Editable == schema[at] # {}
isDeleted(key) == \E ch \in pending : ch.op = "delete" /\ ch.key = key

\* A double-click.
OpenCell(n) ==
    /\ cell = None /\ Editable /\ IsSpot(n)
    /\ ~ isDeleted(pkFor(RowAt(n)))
    /\ cell' = [spot |-> n, row |-> RowAt(n)]
    /\ UNCHANGED <<tableVars, schema, urlVars, pages, pending, batch>>

\* Enter or a blur: the edit goes to the row that is under the cell now, into the
\* entry there may be of its key.
CommitCell ==
    LET row == RowAt(cell.spot)
        key == pkFor(row)
    IN
    /\ cell # None /\ Editable /\ IsSpot(cell.spot) /\ Cardinality(pending) < MaxEdits
    /\ cell' = None
    /\ pending' = pending \cup
         IF \E ch \in pending : ch.op = "update" /\ ch.key = key THEN {}
         ELSE {[op |-> "update", key |-> key, opened |-> cell.row, seen |-> row,
                at |-> at, named |-> named]}
    /\ UNCHANGED <<tableVars, schema, urlVars, pages, batch>>

\* Escape, or the row is gone.
CloseCell ==
    /\ cell # None
    /\ cell' = None
    /\ UNCHANGED <<tableVars, schema, urlVars, pages, pending, batch>>

ToggleDelete(n) ==
    LET key == pkFor(RowAt(n)) IN
    /\ cell = None /\ Editable /\ IsSpot(n)
    /\ \/ /\ isDeleted(key)
          /\ pending' = {ch \in pending : ~ (ch.op = "delete" /\ ch.key = key)}
       \/ /\ ~ isDeleted(key) /\ Cardinality(pending) < MaxEdits
          /\ pending' = pending \cup
               {[op |-> "delete", key |-> key, opened |-> RowAt(n), seen |-> RowAt(n),
                 at |-> at, named |-> named]}
    /\ UNCHANGED <<tableVars, schema, urlVars, pages, cell, batch>>

Draft == [op |-> "insert", key |-> [c \in {} |-> None], opened |-> None, seen |-> None,
          at |-> at, named |-> named]

\* addDraft and setDraftCell; bound: one draft.
AddDraft ==
    /\ cell = None /\ Editable /\ Cardinality(pending) < MaxEdits
    /\ \A ch \in pending : ch.op # "insert"
    /\ pending' = pending \cup {Draft}
    /\ UNCHANGED <<tableVars, schema, urlVars, pages, cell, batch>>

\* removeDraft, and Revert.
Discard ==
    /\ cell = None
    /\ \/ pending' = {ch \in pending : ch.op # "insert"}
       \/ batch.pc = "none" /\ pending' = {}
    /\ UNCHANGED <<tableVars, schema, urlVars, pages, cell, batch>>

\* A row that is deleted is not updated first.
buildChanges == {ch \in pending : ch.op = "update" => ~ isDeleted(ch.key)}

-----------------------------------------------------------------------------
(* Submit, and MutateTableHandler. *)

Submit ==
    /\ batch.pc = "none" /\ cell = None /\ pending # {} /\ Editable
    /\ batch' = [NoBatch EXCEPT !.pc = "sent", !.at = at, !.todo = buildChanges]
    /\ UNCHANGED <<tableVars, schema, urlVars, pages, cell, pending>>

\* buildWhereByPK: a value for every column of the primary key.
Addressable(ch, shape) == ch.op = "insert" \/ shape \subseteq DOMAIN ch.key

\* Faulty variant: IntrospectTable's ErrNoPrimaryKey is missing.
BuildKeyless ==
    /\ batch.pc = "sent"
    /\ batch' = IF \A ch \in batch.todo : Addressable(ch, table[batch.at].pk)
                THEN [batch EXCEPT !.pc = "built", !.shape = table[batch.at].pk]
                ELSE NoBatch
    /\ UNCHANGED <<tableVars, schema, urlVars, pages, cell, pending>>

\* IntrospectTable reads the primary key there is now; BuildMutations.
Build ==
    LET shape == table[batch.at].pk IN
    /\ batch.pc = "sent"
    /\ batch' = IF shape # {} /\ \A ch \in batch.todo : Addressable(ch, shape)
                THEN [batch EXCEPT !.pc = "built", !.shape = shape]
                ELSE NoBatch
    /\ UNCHANGED <<tableVars, schema, urlVars, pages, cell, pending>>

\* The server asks for a confirmation or a passphrase, which the user gives: the
\* same changes once more, to the same table.
Ask ==
    /\ batch.pc = "built"
    /\ batch' = [batch EXCEPT !.pc = "sent", !.shape = {}]
    /\ UNCHANGED <<tableVars, schema, urlVars, pages, cell, pending>>

\* An error before the transaction, or the user declines.
GiveUp ==
    /\ batch.pc \in {"sent", "built"}
    /\ batch' = NoBatch
    /\ UNCHANGED <<tableVars, schema, urlVars, pages, cell, pending>>

\* BEGIN, and the lock that the first statement takes.
Begin ==
    /\ batch.pc = "built" /\ writes < MaxWrites
    /\ writes' = writes + 1
    /\ batch' = [batch EXCEPT !.pc = "tx", !.heap = table[batch.at].heap]
    /\ UNCHANGED <<table, schema, urlVars, pages, cell, pending>>

\* WHERE pk1 = ... AND pk2 = ...
Targets(ch, shape, h) == {i \in Live(h) : \A c \in shape : h[i][c] = ch.key[c]}

\* What a statement makes of the heap; the rows an UPDATE hits move.
Effects(ch, shape, h) ==
    LET hit  == Targets(ch, shape, h)
        rest == [i \in Slots |-> IF i \in hit THEN None ELSE h[i]]
    IN CASE ch.op = "insert" -> UNION {Insert(h, row) : row \in Rows}
         [] ch.op = "delete" -> {rest}
         [] ch.op = "update" -> {g \in Heaps : /\ \A i \in Live(rest) : g[i] = rest[i]
                                               /\ Cardinality(Live(g)) = Cardinality(Live(h))}

\* Updates, then deletes, then inserts.
First(ch, todo) ==
    /\ ch.op = "delete" => \A d \in todo : d.op # "update"
    /\ ch.op = "insert" => \A d \in todo : d.op = "insert"

Statement(ch) ==
    /\ batch.pc = "tx"
    /\ First(ch, batch.todo)
    /\ \E h \in Effects(ch, batch.shape, batch.heap) :
         /\ Valid([table[batch.at] EXCEPT !.heap = h])
         /\ batch' = [batch EXCEPT !.todo = @ \ {ch}, !.heap = h]
    /\ UNCHANGED <<tableVars, schema, urlVars, pages, cell, pending>>

\* A statement fails, or the commit.
Rollback ==
    /\ batch.pc = "tx"
    /\ batch' = NoBatch
    /\ UNCHANGED <<tableVars, schema, urlVars, pages, cell, pending>>

Commit ==
    /\ batch.pc = "tx" /\ batch.todo = {}
    /\ table' = [table EXCEPT ![batch.at].heap = batch.heap]
    /\ batch' = [NoBatch EXCEPT !.pc = "done"]
    /\ UNCHANGED <<writes, schema, urlVars, pages, cell, pending>>

\* The page hears of it: editor.reset, and rowsQuery.refetch of what it shows now.
Applied ==
    /\ batch.pc = "done"
    /\ batch' = NoBatch
    /\ pending' = {}
    /\ UNCHANGED <<tableVars, schema, urlVars, pages, cell>>

\* The answer is lost: the changes stay pending.
Lost ==
    /\ batch.pc = "done"
    /\ batch' = NoBatch
    /\ UNCHANGED <<tableVars, schema, urlVars, pages, cell, pending>>

-----------------------------------------------------------------------------
Init ==
    /\ table \in Tables
    /\ writes = 0
    /\ schema = [p \in Places |-> table[p].pk]
    /\ named \in BOOLEAN
    /\ at \in Places
    /\ pages = <<>>
    /\ cell = None
    /\ pending = {}
    /\ batch = NoBatch

Spots == (1..MaxPages) \X Slots

Next ==
    \/ \E p \in Busy : Write(p) \/ Alter(p)
    \/ FetchNextPage \/ Refetch
    \/ \E p \in Places : ReadSchema(p) \/ \E n \in BOOLEAN : Go(p, n)
    \/ \E n \in Spots : OpenCell(n) \/ ToggleDelete(n)
    \/ CommitCell \/ CloseCell
    \/ AddDraft
    \/ Discard
    \/ Submit \/ Build \/ Ask \/ GiveUp
    \/ Begin
    \/ \E ch \in batch.todo : Statement(ch)
    \/ Rollback \/ Commit \/ Applied \/ Lost

Spec == Init /\ [][Next]_vars

-----------------------------------------------------------------------------
(* Properties. *)

\* Pending edits made under the URL of a table never reach another table of the
\* connection, although the page navigates, retries and resets asynchronously.
\* (Switching the connection keeps them, and they reach the table of the same name
\* there; and on /data the table under them may change, although DataPage says that
\* they are discarded "whenever the selected table changes".)
BatchIsOwn ==
    \A ch \in batch.todo : ch.named /\ Conn(ch.at) = Conn(batch.at) => ch.at = batch.at

\* Unless the table was altered after it was introspected, a change touches at
\* most one row: the one whose cell the user opened, if another row has not come
\* under the open cell meanwhile and its key survives JavaScript's numbers.
RightRow ==
    batch.pc = "tx" /\ batch.shape = table[batch.at].pk =>
        \A ch \in {ch \in batch.todo : ch.op # "insert"} :
            LET hit == Targets(ch, batch.shape, batch.heap) IN
            /\ \A i, j \in hit : i = j
            /\ ch.seen = ch.opened /\ (\A c \in batch.shape : Reads[ch.opened[c]] = ch.opened[c])
               => \A i \in hit : KeyOf(batch.heap[i], batch.shape) = KeyOf(ch.opened, batch.shape)

\* The loaded page is what the table holds now, in the order it was read.
UpToDate(g) == g.rows = Select(table[at].heap, g.order, g.param)

\* What an answer leaves out it admits: a total that is called exact is the
\* number of rows, as long as the page is what the table holds; an export or a
\* list of values that is not marked truncated has them all.  (DataPage calls the
\* estimate exact, too, once there are no more pages.)
LeftOutIsSaid ==
    LET h    == table[at].heap
        size == Cardinality(Live(h))
    IN
    /\ \A n \in DOMAIN pages : UpToDate(pages[n]) /\ pages[n].total # None => pages[n].total = size
    /\ ExportRows(h).truncated <=> ExportRows(h).n < size
    /\ \A c \in Columns :
         DistinctValues(h, c).truncated <=> DistinctValues(h, c).n < Cardinality(Distinct(h, c))

\* "end of data" is the end: while the loaded pages begin with the first and are
\* what the table holds, they hold all of it; provided that the server has read
\* them in one order, which nothing asks it to.
EndOfDataIsAll ==
    LET h == table[at].heap IN
    /\ pages # <<>> /\ ~ HasNext(pages)
    /\ pages[1].param = 0
    /\ \A n \in DOMAIN pages : UpToDate(pages[n]) /\ pages[n].order = pages[1].order
    => {h[i] : i \in Live(h)} = UNION {{pages[n].rows[k] : k \in DOMAIN pages[n].rows} : n \in DOMAIN pages}
===============================================================================
