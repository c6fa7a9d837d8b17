------------------------------ MODULE MCDataGrid ------------------------------
(* Instances of DataGrid for TLC. *)
EXTENDS DataGrid, TLC

\* Two tables on one connection; a table of the first one's name on another.
MCPlaces == {<<"c1", "t">>, <<"c1", "u">>, <<"c2", "t">>}

MCBusy == {<<"c1", "t">>}

\* 2 is a number that JavaScript rounds.
MCReads == [v \in Values |-> 1]

\* Two rows in the first table, none in the others; the namesake is a view.
Row(v) == [c \in Columns |-> v]
MCTables ==
    {[p \in Places |->
        [heap |-> [i \in 1..Size |-> IF p = <<"c1", "t">> /\ i \in Values THEN Row(i) ELSE None],
         pk |-> IF p[1] = "c1" THEN {"a"} ELSE {}]]}

\* A small table is read from its first slot on.
InOrder == {[i \in 1..Size |-> i]}

\* One table, which a scan may begin to read anywhere.
MCPlace    == {<<"c1", "t">>}
FromAnySlot == {[i \in 1..Size |-> (i + k) % Size] : k \in 1..Size}
===============================================================================
