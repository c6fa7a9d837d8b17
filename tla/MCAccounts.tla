------------------------------ MODULE MCAccounts ------------------------------
(* Instances of Accounts for TLC. *)
EXTENDS Accounts, TLC

\* User ids, tokens and requests are interchangeable.
AccountSymmetry ==
    Permutations(Ids) \cup Permutations(Tokens) \cup Permutations(Requests)
=============================================================================
