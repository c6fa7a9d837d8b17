------------------------------- MODULE Discovery -------------------------------
(***************************************************************************)
(* discover.Manager, store.DiscoveredRepo and the approve and reject       *)
(* handlers.  One goroutine scans the environment every 30 s and upserts   *)
(* what it finds; users settle the entries from the Discover page.  Upsert *)
(* and the handlers read an entry in one statement and write it in         *)
(* another, so a tick and several requests interleave between the two.     *)
(***************************************************************************)
EXTENDS Naturals, FiniteSets

CONSTANTS
    Keys,        \* (source, source_key) pairs
    Sources,     \* "env", "docker"
    SourceOf,    \* the source of each key
    Changing,    \* the sources whose candidates change while DBil runs: "docker"
    Data,        \* what a candidate can look like: host, credentials, alias, tag
    DataOf,      \* the looks each key can have: a container keeps its tag and an
                 \* env entry its alias, host, port, database and user
    Aliases,
    AliasOf,     \* the alias in it
    Production,  \* the data tagged "production"
    Ids,         \* connection ids (never used again); bounds the creations
    Requests,    \* HTTP requests in flight
    None

ASSUME DiscoveryAssumption ==
    /\ SourceOf \in [Keys -> Sources]
    /\ DataOf \in [Keys -> SUBSET Data]
    /\ AliasOf \in [Data -> Aliases]
    /\ Production \subseteq Data
    /\ None \notin Keys \cup Data \cup Ids

VARIABLES
    world,    \* what a scan would find under each key right now
    status,   \* discovered_connections.status, "absent" without a row
    data,     \* the row's fields
    link,     \* approved_conn_id
    conns,    \* the connections table
    scan,     \* the discovery goroutine
    req       \* each request

entryVars == <<status, data, link>>
vars      == <<world, entryVars, conns, scan, req>>

Settled == {"approved", "rejected"}
Open    == {"pending", "unreachable"}
Status  == Open \cup Settled \cup {"absent"}

Connection == [state : {"unused", "live", "deleted"}, data : Data \cup {None},
               from : Keys \cup {None}, requiresPassphrase : BOOLEAN]

\* todo: the entries of the scan still to upsert; key: the one being upserted.
Scan == [pc : {"idle", "lookup", "refresh", "insert"}, source : Sources \cup {None},
         found : [Keys -> Data \cup {None}], todo : SUBSET Keys, key : Keys \cup {None}]

\* data and phrase: the entry Get returned and whether a passphrase was sent.
Request == [pc : {"idle", "create", "mark", "reject"}, key : Keys \cup {None},
            data : Data \cup {None}, phrase : BOOLEAN, id : Ids \cup {None}]

Asleep == [pc |-> "idle", source |-> None, found |-> [k \in Keys |-> None],
           todo |-> {}, key |-> None]
Idle   == [pc |-> "idle", key |-> None, data |-> None, phrase |-> FALSE, id |-> None]

TypeOK ==
    /\ world \in [Keys -> Data \cup {None}]
    /\ status \in [Keys -> Status]
    /\ data \in [Keys -> Data \cup {None}]
    /\ link \in [Keys -> Ids \cup {None}]
    /\ conns \in [Ids -> Connection]
    /\ scan \in Scan
    /\ req \in [Requests -> Request]

Init ==
    /\ world = [k \in Keys |-> None]
    /\ status = [k \in Keys |-> "absent"]
    /\ data = [k \in Keys |-> None]
    /\ link = [k \in Keys |-> None]
    /\ conns = [c \in Ids |-> [state |-> "unused", data |-> None, from |-> None,
                               requiresPassphrase |-> FALSE]]
    /\ scan = Asleep
    /\ req = [q \in Requests |-> Idle]

\* A container starts, stops, or comes back with another name or address.
Change(k, d) ==
    /\ SourceOf[k] \in Changing
    /\ world[k] # d
    /\ world' = [world EXCEPT ![k] = d]
    /\ UNCHANGED <<entryVars, conns, scan, req>>

\* DBil is restarted, with another DBIL_AUTO_CONNECT perhaps.
Restart(w) ==
    /\ \A k \in Keys : IF SourceOf[k] \in Changing THEN w[k] = world[k]
                                                   ELSE w[k] \in DataOf[k] \cup {None}
    /\ world' = w
    /\ scan' = Asleep
    /\ req' = [q \in Requests |-> Idle]
    /\ UNCHANGED <<entryVars, conns>>

-----------------------------------------------------------------------------
(* The discovery goroutine: RunOnce, one scanner after the other. *)

\* The containers DockerScanner cannot inspect for once are left out of its
\* list, without an error.
Skippable == {k \in Keys : SourceOf[k] \in Changing}

\* What s.Scan returns when it leaves out the ones in skipped.
Candidates(s, skipped) ==
    [k \in Keys |-> IF SourceOf[k] = s /\ k \notin skipped THEN world[k] ELSE None]

\* s.Scan succeeds; a failing scanner is passed over and nothing happens.
Find(s, skipped) ==
    /\ scan.pc = "idle"
    /\ LET found == Candidates(s, skipped)
       IN  scan' = [pc |-> "lookup", source |-> s, found |-> found,
                    todo |-> {k \in Keys : found[k] # None}, key |-> None]
    /\ UNCHANGED <<world, entryVars, conns, req>>

\* Faulty variant: a rejected entry is refreshed like a pending one.
LookupRevives(k) ==
    /\ scan.pc = "lookup"
    /\ k \in scan.todo
    /\ scan' = [scan EXCEPT !.todo = @ \ {k},
                            !.key = IF status[k] = "approved" THEN None ELSE k,
                            !.pc = CASE status[k] = "approved" -> "lookup"
                                     [] status[k] = "absent"   -> "insert"
                                     [] OTHER                  -> "refresh"]
    /\ UNCHANGED <<world, entryVars, conns, req>>

\* Upsert's SELECT of one entry found decides what it will write: nothing
\* (but last_seen) to a settled one.
Lookup(k) ==
    /\ scan.pc = "lookup"
    /\ k \in scan.todo
    /\ scan' = [scan EXCEPT !.todo = @ \ {k},
                            !.key = IF status[k] \in Settled THEN None ELSE k,
                            !.pc = CASE status[k] \in Settled -> "lookup"
                                     [] status[k] \in Open    -> "refresh"
                                     [] OTHER                 -> "insert"]
    /\ UNCHANGED <<world, entryVars, conns, req>>

\* Faulty variant: the fields are refreshed, the status is not.
RefreshFieldsOnly ==
    /\ scan.pc = "refresh"
    /\ data' = [data EXCEPT ![scan.key] = scan.found[scan.key]]
    /\ scan' = [scan EXCEPT !.pc = "lookup", !.key = None]
    /\ UNCHANGED <<world, status, link, conns, req>>

\* Its UPDATE ... SET status = 'pending' WHERE id = ?
Refresh ==
    /\ scan.pc = "refresh"
    /\ status' = [status EXCEPT ![scan.key] = "pending"]
    /\ data' = [data EXCEPT ![scan.key] = scan.found[scan.key]]
    /\ scan' = [scan EXCEPT !.pc = "lookup", !.key = None]
    /\ UNCHANGED <<world, link, conns, req>>

\* Its INSERT; (source, source_key) is UNIQUE.
Insert ==
    /\ scan.pc = "insert"
    /\ status[scan.key] = "absent"
    /\ status' = [status EXCEPT ![scan.key] = "pending"]
    /\ data' = [data EXCEPT ![scan.key] = scan.found[scan.key]]
    /\ scan' = [scan EXCEPT !.pc = "lookup", !.key = None]
    /\ UNCHANGED <<world, link, conns, req>>

\* One Upsert fails (a locked database): RunOnce goes on with the next entry.
UpsertFails ==
    /\ scan.pc # "idle"
    /\ \/ /\ scan.key # None
          /\ scan' = [scan EXCEPT !.pc = "lookup", !.key = None]
       \/ \E k \in scan.todo : scan' = [scan EXCEPT !.pc = "lookup", !.key = None, !.todo = @ \ {k}]
    /\ UNCHANGED <<world, entryVars, conns, req>>

\* Faulty variant: with an empty list of keys there is nothing to do.
MarkUnreachableUnlessEmpty ==
    /\ scan.pc = "lookup"
    /\ scan.todo = {}
    /\ status' = [k \in Keys |->
                    IF /\ SourceOf[k] = scan.source
                       /\ status[k] = "pending"
                       /\ scan.found[k] = None
                       /\ \E j \in Keys : scan.found[j] # None
                    THEN "unreachable" ELSE status[k]]
    /\ scan' = Asleep
    /\ UNCHANGED <<world, data, link, conns, req>>

\* MarkUnreachable: pending entries of the source that the scan did not find,
\* an upsert that failed counting as found.
MarkUnreachable ==
    /\ scan.pc = "lookup"
    /\ scan.todo = {}
    /\ status' = [k \in Keys |->
                    IF /\ SourceOf[k] = scan.source
                       /\ status[k] = "pending"
                       /\ scan.found[k] = None
                    THEN "unreachable" ELSE status[k]]
    /\ scan' = Asleep
    /\ UNCHANGED <<world, data, link, conns, req>>

\* The tick's 8 s are over, or MarkUnreachable fails.
TickAborts ==
    /\ scan.pc # "idle"
    /\ scan' = Asleep
    /\ UNCHANGED <<world, entryVars, conns, req>>

-----------------------------------------------------------------------------
(* The requests. *)

Becomes(q, r) == req' = [req EXCEPT ![q] = r]

\* ConnectionsRepo.Create: alias is UNIQUE.
Create(c, d, k, phrase) ==
    /\ conns[c].state = "unused"
    /\ \A b \in Ids : conns[b].state = "live" => AliasOf[conns[b].data] # AliasOf[d]
    /\ conns' = [conns EXCEPT ![c] = [state |-> "live", data |-> d, from |-> k,
                                      requiresPassphrase |-> phrase]]

\* ApproveDiscoverHandler, Get and the checks on what it returned.
ApproveGet(q, k, phrase) ==
    /\ req[q].pc = "idle"
    /\ status[k] \in Open
    /\ data[k] \in Production => phrase
    /\ Becomes(q, [pc |-> "create", key |-> k, data |-> data[k], phrase |-> phrase, id |-> None])
    /\ UNCHANGED <<world, entryVars, conns, scan>>

\* Conns.Create of the entry Get returned (RevealPassword reads once more).
ApproveCreate(q, c) ==
    /\ req[q].pc = "create"
    /\ Create(c, req[q].data, req[q].key, req[q].phrase)
    /\ Becomes(q, [req[q] EXCEPT !.pc = "mark", !.id = c])
    /\ UNCHANGED <<world, entryVars, scan>>

\* MarkApproved, whatever the status is by now; approved_conn_id is a foreign
\* key (without the row: Return).
ApproveMark(q) ==
    /\ req[q].pc = "mark"
    /\ conns[req[q].id].state = "live"
    /\ status' = [status EXCEPT ![req[q].key] = "approved"]
    /\ link' = [link EXCEPT ![req[q].key] = req[q].id]
    /\ Becomes(q, Idle)
    /\ UNCHANGED <<world, data, conns, scan>>

\* RejectDiscoverHandler: Get, for the audit entry ...
RejectGet(q, k) ==
    /\ req[q].pc = "idle"
    /\ status[k] # "absent"
    /\ Becomes(q, [pc |-> "reject", key |-> k, data |-> None, phrase |-> FALSE, id |-> None])
    /\ UNCHANGED <<world, entryVars, conns, scan>>

\* ... and Reject, which asks for no particular status.
RejectWrite(q) ==
    /\ req[q].pc = "reject"
    /\ status' = [status EXCEPT ![req[q].key] = "rejected"]
    /\ Becomes(q, Idle)
    /\ UNCHANGED <<world, data, link, conns, scan>>

\* The request ends here: a refusal, or a failing statement.
Return(q) ==
    /\ req[q].pc # "idle"
    /\ Becomes(q, Idle)
    /\ UNCHANGED <<world, entryVars, conns, scan>>

\* POST /api/connections: any tag, with or without a passphrase.
CreateConnection(c, d, phrase) ==
    /\ Create(c, d, None, phrase)
    /\ UNCHANGED <<world, entryVars, scan, req>>

\* Faulty variant: approved_conn_id is no foreign key.
DeleteConnectionDangles(c) ==
    /\ conns[c].state = "live"
    /\ conns' = [conns EXCEPT ![c].state = "deleted"]
    /\ UNCHANGED <<world, entryVars, scan, req>>

\* DELETE /api/connections/{id}: approved_conn_id is ON DELETE SET NULL.
DeleteConnection(c) ==
    /\ conns[c].state = "live"
    /\ conns' = [conns EXCEPT ![c].state = "deleted"]
    /\ link' = [k \in Keys |-> IF link[k] = c THEN None ELSE link[k]]
    /\ UNCHANGED <<world, status, data, scan, req>>

-----------------------------------------------------------------------------
Tick ==
    \/ \E s \in Sources, skipped \in SUBSET Skippable : Find(s, skipped)
    \/ \E k \in Keys : Lookup(k)
    \/ Refresh
    \/ Insert
    \/ UpsertFails
    \/ MarkUnreachable
    \/ TickAborts

Next ==
    \/ \E k \in Keys : \E d \in DataOf[k] \cup {None} : Change(k, d)
    \/ \E w \in [Keys -> Data \cup {None}] : Restart(w)
    \/ Tick
    \/ \E q \in Requests :
         \/ \E k \in Keys : RejectGet(q, k) \/ \E phrase \in BOOLEAN : ApproveGet(q, k, phrase)
         \/ \E c \in Ids : ApproveCreate(q, c)
         \/ ApproveMark(q)
         \/ RejectWrite(q)
         \/ Return(q)
    \/ \E c \in Ids :
         \/ \E d \in Data, phrase \in BOOLEAN : CreateConnection(c, d, phrase)
         \/ DeleteConnection(c)

Spec == Init /\ [][Next]_vars

\* The ticker keeps firing; among infinitely many ticks some scan succeeds
\* and leaves nothing out, and some upsert of each entry, whether it is listed
\* then or not, and some MarkUnreachable succeeds.
Fairness ==
    /\ \A s \in Sources : SF_vars(Find(s, {}))
    /\ \A k \in Keys :
         /\ SF_vars(Lookup(k))
         /\ SF_vars((Refresh \/ Insert) /\ scan.key = k)
    /\ \A s \in Sources : SF_vars(MarkUnreachable /\ scan.source = s)

FairSpec == Spec /\ Fairness

-----------------------------------------------------------------------------
(* Properties. *)

\* approved_conn_id of an entry names a live connection that was approved from
\* this very entry, however approvals, deletions and refreshes interleave.
LinkIsOwn ==
    \A k \in Keys : link[k] # None =>
        conns[link[k]].state = "live" /\ conns[link[k]].from = k

\* A scan that has read the entry while it was open may still refresh it, and an
\* approval that has may still mark it.
RefreshUnderWay(k) == scan.key = k
ApprovalUnderWay(k) == \E q \in Requests : req[q].pc \in {"create", "mark"} /\ req[q].key = k

\* Outside these two windows a settled entry never resurfaces: a rejected one
\* stays rejected and an approved one can only be rejected, for all later ticks.
SettledStaysSettled ==
    [][\A k \in Keys : ~ RefreshUnderWay(k) =>
         /\ status[k] = "approved" => status'[k] \in Settled /\ ~ RefreshUnderWay(k)'
         /\ status[k] = "rejected" /\ ~ ApprovalUnderWay(k) =>
              /\ status'[k] = "rejected"
              /\ ~ RefreshUnderWay(k)'
              /\ ~ ApprovalUnderWay(k)']_vars

\* "Body: passphrase - required when entry.tag == production" (approve handler):
\* no production candidate becomes an unprotected connection, whatever the ticks
\* and the restarts with another tag write into the entry.  (Proved only.)
ApprovedProductionIsProtected ==
    \A c \in Ids : conns[c].from # None /\ conns[c].data \in Production =>
        conns[c].requiresPassphrase

\* A candidate that is gone for good does not stay in the pending list.
VanishedIsMarked ==
    \A k \in Keys : <>[](world[k] = None) => <>[](status[k] # "pending")

\* A candidate that stays as it is gets listed as it is, unless a user settles
\* it, and again after every scan that left it out: no failing upsert or aborted
\* tick hides it for ever.
FoundIsListed ==
    \A k \in Keys, d \in Data :
        <>[](world[k] = d /\ status[k] \notin Settled)
            => []<>(status[k] = "pending" /\ data[k] = d)

\* "Rejected entries are not resurrected - they remain rejected" (Upsert): not so
\* when the rejection falls between the SELECT and the UPDATE of an Upsert, whose
\* Refresh asks for no particular status.
RejectedStays ==
    [][\A k \in Keys : status[k] = "rejected" => status'[k] # "pending"]_vars
=============================================================================
