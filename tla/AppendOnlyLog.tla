----------------------------- MODULE AppendOnlyLog -----------------------------
(***************************************************************************)
(* What the audit log promises its readers: it begins with one genesis     *)
(* entry, and from there on it only ever grows at its end, by an event     *)
(* that is not in it yet.                                                  *)
(***************************************************************************)
EXTENDS Naturals, Sequences

CONSTANTS Genesis, Event

VARIABLE entries

Init == entries = <<>>

Begin == entries = <<>> /\ entries' = <<Genesis>>

Add(e) ==
    /\ entries # <<>>
    /\ \A k \in 1..Len(entries) : entries[k] # e
    /\ entries' = Append(entries, e)

Next == Begin \/ \E e \in Event : Add(e)

Spec == Init /\ [][Next]_entries
=============================================================================
