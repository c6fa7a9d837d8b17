------------------------------ MODULE GatedWrite ------------------------------
(***************************************************************************)
(* What the gate promises the client and the owner of the database: each   *)
(* request is refused, or it runs once under rules that allow it and then  *)
(* takes effect as a whole or not at all.  A refused request can be sent   *)
(* again with a confirmation or a passphrase added to it; one that has run *)
(* is never run again, whatever its client was told.                       *)
(***************************************************************************)
EXTENDS Naturals

CONSTANTS
    Requests,
    Jobs,           \* what a client may ask for
    NoJob,
    Rules,          \* the rule sets a connection may be under
    Allows(_, _),   \* whether a rule set lets a job run
    Size(_)         \* the statements of a job

VARIABLES
    rules,      \* the connection's rules
    job,        \* what each request asks for
    fate,       \* "none", "running", "applied" or "undone"
    effects,    \* how many statements took effect
    word        \* what its client knows: "unsent", "pending", "refused", "done", "unknown"

vars == <<rules, job, fate, effects, word>>

Init ==
    /\ rules \in Rules
    /\ job = [q \in Requests |-> NoJob]
    /\ fate = [q \in Requests |-> "none"]
    /\ effects = [q \in Requests |-> 0]
    /\ word = [q \in Requests |-> "unsent"]

Tell(q, from, to) ==
    /\ word[q] = from
    /\ word' = [word EXCEPT ![q] = to]

Become(q, from, to) ==
    /\ fate[q] = from
    /\ fate' = [fate EXCEPT ![q] = to]

Submit(q) ==
    /\ Tell(q, "unsent", "pending")
    /\ \E j \in Jobs : job' = [job EXCEPT ![q] = j]
    /\ UNCHANGED <<rules, fate, effects>>

\* The question is answered: the same request, with one more header.
Repeat(q) ==
    /\ fate[q] = "none"
    /\ Tell(q, "refused", "pending")
    /\ \E header \in {"confirm", "passphrase"} :
          job' = [job EXCEPT ![q][header] = TRUE]
    /\ UNCHANGED <<rules, fate, effects>>

Refuse(q) ==
    /\ fate[q] = "none"
    /\ Tell(q, "pending", "refused")
    /\ UNCHANGED <<rules, job, fate, effects>>

Execute(q) ==
    /\ word[q] = "pending"
    /\ Allows(rules, job[q])
    /\ Become(q, "none", "running")
    /\ UNCHANGED <<rules, job, effects, word>>

Apply(q) ==
    /\ Become(q, "running", "applied")
    /\ effects' = [effects EXCEPT ![q] = Size(job[q])]
    /\ UNCHANGED <<rules, job, word>>

Undo(q) ==
    /\ Become(q, "running", "undone")
    /\ UNCHANGED <<rules, job, effects, word>>

\* The client is told of the effect,
Report(q) ==
    /\ fate[q] = "applied"
    /\ Tell(q, "pending", "done")
    /\ UNCHANGED <<rules, job, fate, effects>>

\* or is left in doubt: a timeout, a lost connection, a result cut short.
Doubt(q) ==
    /\ Tell(q, "pending", "unknown")
    /\ UNCHANGED <<rules, job, fate, effects>>

Next ==
    \E q \in Requests :
        \/ Submit(q) \/ Repeat(q) \/ Refuse(q)
        \/ Execute(q) \/ Apply(q) \/ Undo(q)
        \/ Report(q) \/ Doubt(q)

Spec == Init /\ [][Next]_vars
===============================================================================
