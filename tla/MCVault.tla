------------------------------- MODULE MCVault -------------------------------
(* An instance of Vault for TLC. *)
EXTENDS Vault, TLC

CONSTANTS h1, h2, old, new, f1, f2, f3

\* Two hosts one after the other under one alias, at different addresses.
OneAlias == [h \in Hosts |-> "bastion"]
Address  == (h1 :> old @@ h2 :> new)
Keys     == (old :> {f1, f2} @@ new :> {f3})

VaultSymmetry == Permutations(Requests) \cup Permutations(MasterKeys)
=============================================================================
