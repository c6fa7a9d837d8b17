------------------------------ MODULE MCAuditLog ------------------------------
(* Instances of AuditLog for TLC. *)
EXTENDS AuditLog, SequencesExt

MCTexts == {<<>>, <<1>>, <<1, 1>>}
MCRests == {0, 1}

Says(u, a, r, x) == [user |-> u, action |-> a, resource |-> r, rest |-> x]

\* The genesis entry, two events that differ in their details only, and one
\* whose texts join to the same bytes as those of another.
MCGenesis == Says(<<>>, <<1>>, <<>>, 0)
MCActions == {Says(<<1>>, <<1>>, <<>>, 0), Says(<<1>>, <<1>>, <<>>, 1),
              Says(<<>>, <<1, 1>>, <<>>, 0)}

\* A hash onto a small set of digests that happens to have no collision among
\* the encodings of the logs explored (MutationIsFlagged would show one).
Modulus   == 10007
MCDigests == 0..(Modulus - 1)
TextCode(t) == FoldLeft(LAMBDA n, b : 2 * n + b, 0, t)
MCSha256(i, enc, p) == (131 * p + 17 * i + 1000 * enc.rest + TextCode(enc.text)) % Modulus
=============================================================================
