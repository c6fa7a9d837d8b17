---------------------------- MODULE DiscoveryProofs ----------------------------
(***************************************************************************)
(* Proofs about Discovery, for any candidates, connections and requests.   *)
(***************************************************************************)
EXTENDS Discovery, TLAPS

USE DiscoveryAssumption

\* A row has fields.
DataInv == \A k \in Keys : status[k] # "absent" => data[k] \in Data

\* What the goroutine is about to write belongs to an entry its scan found.
ScanInv ==
    /\ \A k \in scan.todo : scan.found[k] \in Data
    /\ scan.pc \in {"refresh", "insert"} => scan.key \in Keys /\ scan.found[scan.key] \in Data
    /\ scan.pc \in {"idle", "lookup"} => scan.key = None

\* An approval carries the entry it checked, and then the connection it made.
RequestInv ==
    \A q \in Requests :
        /\ req[q].pc # "idle" => req[q].key \in Keys /\ status[req[q].key] # "absent"
        /\ req[q].pc \in {"create", "mark"} =>
             req[q].data \in Data /\ (req[q].data \in Production => req[q].phrase)
        /\ req[q].pc = "mark" =>
             /\ req[q].id \in Ids
             /\ conns[req[q].id].state # "unused"
             /\ conns[req[q].id].from = req[q].key

IInv ==
    /\ TypeOK
    /\ DataInv
    /\ ScanInv
    /\ RequestInv
    /\ LinkIsOwn
    /\ ApprovedProductionIsProtected

\* The record a request has between two approvals.
LEMMA IdleIsRequest == Idle \in Request
BY DEF Idle, Request

\* The record the goroutine has between two ticks.
LEMMA AsleepIsScan == Asleep \in Scan
BY DEF Asleep, Scan

-----------------------------------------------------------------------------
(* The invariant, one lemma per group of actions. *)

\* An empty database and no tick yet.
LEMMA InitInv == Init => IInv
<1> SUFFICES ASSUME Init PROVE IInv
  OBVIOUS
<1>1. TypeOK
  BY IdleIsRequest, AsleepIsScan DEF Init, TypeOK, Status, Connection
<1>2. DataInv /\ ScanInv /\ RequestInv
  BY DEF Init, DataInv, ScanInv, RequestInv, Asleep, Idle
<1>3. LinkIsOwn /\ ApprovedProductionIsProtected
  BY DEF Init, LinkIsOwn, ApprovedProductionIsProtected
<1> QED
  BY <1>1, <1>2, <1>3 DEF IInv

\* A tick touches neither connections nor requests: only what it carries and
\* the rows it writes are at stake.
LEMMA TickInv ==
    ASSUME IInv, Tick
    PROVE  IInv'
<1> USE DEF IInv, entryVars
<1>0. /\ UNCHANGED <<world, link, conns, req>>
      /\ RequestInv' /\ LinkIsOwn' /\ ApprovedProductionIsProtected'
  <2>1. UNCHANGED <<world, link, conns, req>>
    BY DEF Tick, Find, Lookup, Refresh, Insert, UpsertFails, MarkUnreachable, TickAborts
  <2>2. \A k \in Keys : status[k] # "absent" => status'[k] # "absent"
    <3>1. CASE Refresh \/ Insert
      BY <3>1 DEF Refresh, Insert, TypeOK
    <3>2. CASE MarkUnreachable
      BY <3>2 DEF MarkUnreachable
    <3> QED
      BY <3>1, <3>2 DEF Tick, Find, Lookup, UpsertFails, TickAborts
  <2>3. RequestInv'
    BY <2>1, <2>2 DEF RequestInv
  <2> QED
    BY <2>1, <2>3 DEF LinkIsOwn, ApprovedProductionIsProtected
<1>1. ASSUME NEW s \in Sources, NEW skipped \in SUBSET Skippable, Find(s, skipped)
      PROVE  TypeOK' /\ DataInv' /\ ScanInv'
  <2> DEFINE found == Candidates(s, skipped)
  <2>1. found \in [Keys -> Data \cup {None}]
    BY DEF TypeOK, Candidates
  <2>2. scan' = [pc |-> "lookup", source |-> s, found |-> found,
                 todo |-> {k \in Keys : found[k] # None}, key |-> None]
    BY <1>1 DEF Find, Asleep
  <2>3. scan' \in Scan
    BY <2>1, <2>2 DEF Scan
  <2>4. ScanInv'
    BY <2>1, <2>2 DEF ScanInv
  <2> QED
    BY <1>0, <1>1, <2>3, <2>4 DEF Find, TypeOK, DataInv
<1>2. ASSUME NEW k \in Keys, Lookup(k)
      PROVE  TypeOK' /\ DataInv' /\ ScanInv'
  <2>1. scan' \in Scan /\ ScanInv'
    BY <1>2 DEF Lookup, TypeOK, Scan, ScanInv, Status, Settled, Open
  <2> QED
    BY <1>0, <1>2, <2>1 DEF Lookup, TypeOK, DataInv
<1>3. ASSUME Refresh \/ Insert
      PROVE  TypeOK' /\ DataInv' /\ ScanInv'
  <2>1. /\ scan.key \in Keys
        /\ scan.found[scan.key] \in Data
        /\ status' = [status EXCEPT ![scan.key] = "pending"]
        /\ data' = [data EXCEPT ![scan.key] = scan.found[scan.key]]
        /\ scan' = [scan EXCEPT !.pc = "lookup", !.key = None]
    BY <1>3 DEF Refresh, Insert, ScanInv
  <2>2. scan' \in Scan /\ ScanInv'
    BY <2>1 DEF TypeOK, Scan, ScanInv
  <2>3. TypeOK'
    BY <1>0, <2>1, <2>2 DEF TypeOK, Status, Open
  <2>4. DataInv'
    BY <2>1 DEF TypeOK, DataInv
  <2> QED
    BY <2>2, <2>3, <2>4
<1>4. ASSUME UpsertFails
      PROVE  TypeOK' /\ DataInv' /\ ScanInv'
  <2>1. ASSUME scan' = [scan EXCEPT !.pc = "lookup", !.key = None]
        PROVE  scan' \in Scan /\ ScanInv'
    <3>1. scan' \in Scan
      BY <2>1 DEF TypeOK, Scan
    <3>2. scan'.pc = "lookup" /\ scan'.key = None /\ scan'.todo = scan.todo
          /\ scan'.found = scan.found
      BY <2>1 DEF TypeOK, Scan
    <3> QED
      BY <3>1, <3>2 DEF ScanInv
  <2>2. ASSUME NEW k \in scan.todo,
               scan' = [scan EXCEPT !.pc = "lookup", !.key = None, !.todo = @ \ {k}]
        PROVE  scan' \in Scan /\ ScanInv'
    BY <2>2 DEF TypeOK, Scan, ScanInv
  <2>3. scan' \in Scan /\ ScanInv'
    BY <1>4, <2>1, <2>2 DEF UpsertFails, TypeOK, Scan, ScanInv
  <2> QED
    BY <1>0, <1>4, <2>3 DEF UpsertFails, TypeOK, DataInv
<1>5. ASSUME MarkUnreachable \/ TickAborts
      PROVE  TypeOK' /\ DataInv' /\ ScanInv'
  <2>0. scan' = Asleep
    BY <1>5 DEF MarkUnreachable, TickAborts
  <2>1. scan' \in Scan /\ ScanInv'
    <3>1. ScanInv'
      BY <2>0 DEF ScanInv, Asleep
    <3> QED
      BY <2>0, <3>1, AsleepIsScan
  <2>2. status' \in [Keys -> Status] /\ data' = data
    BY <1>5 DEF MarkUnreachable, TickAborts, TypeOK, Status, Open
  <2>3. DataInv'
    BY <1>5 DEF MarkUnreachable, TickAborts, TypeOK, DataInv
  <2> QED
    BY <1>0, <2>1, <2>2, <2>3 DEF TypeOK
<1> QED
  BY <1>0, <1>1, <1>2, <1>3, <1>4, <1>5 DEF Tick

\* A request that changes nothing but its own record.
LEMMA ReadingInv ==
    ASSUME IInv, NEW q \in Requests, NEW k \in Keys, NEW phrase \in BOOLEAN,
           ApproveGet(q, k, phrase) \/ RejectGet(q, k) \/ Return(q)
    PROVE  IInv'
<1> USE DEF IInv, entryVars
<1>1. UNCHANGED <<world, status, data, link, conns, scan>>
  BY DEF ApproveGet, RejectGet, Return
<1>2. DataInv' /\ ScanInv' /\ LinkIsOwn' /\ ApprovedProductionIsProtected'
  BY <1>1 DEF DataInv, ScanInv, LinkIsOwn, ApprovedProductionIsProtected
<1>3. req' \in [Requests -> Request] /\ RequestInv'
  <2>1. CASE ApproveGet(q, k, phrase)
    <3>1. data[k] \in Data /\ status[k] # "absent"
      BY <2>1 DEF ApproveGet, DataInv, Open
    <3>2. req' = [req EXCEPT ![q] = [pc |-> "create", key |-> k, data |-> data[k],
                                     phrase |-> phrase, id |-> None]]
      BY <2>1 DEF ApproveGet, Becomes
    <3> QED
      BY <1>1, <2>1, <3>1, <3>2 DEF ApproveGet, TypeOK, Request, RequestInv
  <2>2. CASE RejectGet(q, k)
    <3>1. req' = [req EXCEPT ![q] = [pc |-> "reject", key |-> k, data |-> None,
                                     phrase |-> FALSE, id |-> None]]
      BY <2>2 DEF RejectGet, Becomes
    <3> QED
      BY <1>1, <2>2, <3>1 DEF RejectGet, TypeOK, Request, RequestInv
  <2>3. CASE Return(q)
    BY <1>1, <2>3, IdleIsRequest DEF Return, Becomes, TypeOK, RequestInv, Idle
  <2> QED
    BY <2>1, <2>2, <2>3
<1> QED
  BY <1>1, <1>2, <1>3 DEF TypeOK

\* What Create does to the table: one unused id becomes a live row.
LEMMA CreateIs ==
    ASSUME TypeOK, NEW c \in Ids, NEW d \in Data, NEW k \in Keys \cup {None},
           NEW phrase \in BOOLEAN, Create(c, d, k, phrase)
    PROVE  /\ conns' \in [Ids -> Connection]
           /\ conns[c].state = "unused"
           /\ conns'[c] = [state |-> "live", data |-> d, from |-> k,
                           requiresPassphrase |-> phrase]
           /\ \A b \in Ids \ {c} : conns'[b] = conns[b]
BY DEF Create, TypeOK, Connection

\* An approval creates the connection of the entry it checked, a user any.
LEMMA CreatingInv ==
    ASSUME IInv, NEW c \in Ids,
           \/ \E q \in Requests : ApproveCreate(q, c)
           \/ \E d \in Data, phrase \in BOOLEAN : CreateConnection(c, d, phrase)
    PROVE  IInv'
<1> USE DEF IInv, entryVars
<1>1. CASE \E q \in Requests : ApproveCreate(q, c)
  <2>1. PICK q \in Requests : ApproveCreate(q, c)
    BY <1>1
  <2>2. /\ req[q].key \in Keys /\ req[q].data \in Data /\ req[q].phrase \in BOOLEAN
        /\ req[q].data \in Production => req[q].phrase
        /\ req[q] \in Request
    BY <2>1 DEF ApproveCreate, RequestInv, TypeOK, Request
  <2>3. /\ conns' \in [Ids -> Connection]
        /\ conns[c].state = "unused"
        /\ conns'[c] = [state |-> "live", data |-> req[q].data, from |-> req[q].key,
                        requiresPassphrase |-> req[q].phrase]
        /\ \A b \in Ids \ {c} : conns'[b] = conns[b]
    <3>1. TypeOK /\ Create(c, req[q].data, req[q].key, req[q].phrase)
      BY <2>1 DEF ApproveCreate
    <3> QED
      BY <2>2, <3>1, CreateIs
  <2>4. req' = [req EXCEPT ![q] = [req[q] EXCEPT !.pc = "mark", !.id = c]]
    BY <2>1 DEF ApproveCreate, Becomes
  <2>5. req' \in [Requests -> Request]
    BY <2>2, <2>4 DEF TypeOK, Request
  <2>6. RequestInv'
    <3>1. UNCHANGED status
      BY <2>1 DEF ApproveCreate
    <3>2. req'[q].pc = "mark" /\ req'[q].id = c /\ req'[q].key = req[q].key
          /\ req'[q].data = req[q].data /\ req'[q].phrase = req[q].phrase
      BY <2>2, <2>4 DEF TypeOK, Request
    <3>3. status[req[q].key] # "absent"
      BY <2>1 DEF ApproveCreate, RequestInv
    <3>4. \A p \in Requests \ {q} : req'[p] = req[p]
      BY <2>4 DEF TypeOK
    <3> QED
      BY <2>2, <2>3, <3>1, <3>2, <3>3, <3>4 DEF RequestInv
  <2>7. LinkIsOwn'
    <3>1. UNCHANGED link
      BY <2>1 DEF ApproveCreate
    <3> QED
      BY <2>3, <3>1 DEF TypeOK, LinkIsOwn
  <2>7a. ApprovedProductionIsProtected'
    BY <2>2, <2>3 DEF ApprovedProductionIsProtected
  <2>8. DataInv' /\ ScanInv'
    BY <2>1 DEF ApproveCreate, DataInv, ScanInv
  <2> QED
    BY <2>1, <2>3, <2>5, <2>6, <2>7, <2>7a, <2>8 DEF ApproveCreate, TypeOK
<1>2. CASE \E d \in Data, phrase \in BOOLEAN : CreateConnection(c, d, phrase)
  <2>1. PICK d \in Data, phrase \in BOOLEAN : CreateConnection(c, d, phrase)
    BY <1>2
  <2>2. /\ conns' \in [Ids -> Connection]
        /\ conns[c].state = "unused"
        /\ conns'[c] = [state |-> "live", data |-> d, from |-> None,
                        requiresPassphrase |-> phrase]
        /\ \A b \in Ids \ {c} : conns'[b] = conns[b]
    BY <2>1, CreateIs DEF CreateConnection
  <2>3. LinkIsOwn' /\ ApprovedProductionIsProtected'
    BY <2>1, <2>2 DEF CreateConnection, TypeOK, LinkIsOwn, ApprovedProductionIsProtected
  <2>4. DataInv' /\ ScanInv'
    BY <2>1 DEF CreateConnection, DataInv, ScanInv
  <2>5. RequestInv'
    BY <2>1, <2>2 DEF CreateConnection, RequestInv
  <2> QED
    BY <2>1, <2>2, <2>3, <2>4, <2>5 DEF CreateConnection, TypeOK
<1> QED
  BY <1>1, <1>2

\* The writes that settle an entry, and the delete that unlinks it.
LEMMA WritingInv ==
    ASSUME IInv, \/ \E q \in Requests : ApproveMark(q) \/ RejectWrite(q)
                 \/ \E c \in Ids : DeleteConnection(c)
    PROVE  IInv'
<1> USE DEF IInv, entryVars
<1>1. ASSUME NEW q \in Requests, ApproveMark(q)
      PROVE  IInv'
  <2>1. req[q].key \in Keys /\ req[q].id \in Ids /\ conns[req[q].id].from = req[q].key
        /\ data[req[q].key] \in Data
    BY <1>1 DEF ApproveMark, RequestInv, DataInv
  <2>2. TypeOK'
    BY <1>1, <2>1, IdleIsRequest DEF ApproveMark, Becomes, TypeOK, Status, Settled
  <2>3. RequestInv'
    BY <1>1, <2>1 DEF ApproveMark, Becomes, TypeOK, RequestInv, Idle
  <2>3a. ScanInv' /\ ApprovedProductionIsProtected'
    BY <1>1 DEF ApproveMark, ScanInv, ApprovedProductionIsProtected
  <2>4. LinkIsOwn'
    BY <1>1, <2>1 DEF ApproveMark, TypeOK, LinkIsOwn
  <2>5. DataInv'
    BY <1>1, <2>1 DEF ApproveMark, TypeOK, DataInv
  <2> QED
    BY <2>2, <2>3, <2>3a, <2>4, <2>5
<1>2. ASSUME NEW q \in Requests, RejectWrite(q)
      PROVE  IInv'
  <2>1. req[q].key \in Keys /\ data[req[q].key] \in Data
    BY <1>2 DEF RejectWrite, RequestInv, DataInv
  <2>2. TypeOK'
    BY <1>2, <2>1, IdleIsRequest DEF RejectWrite, Becomes, TypeOK, Status, Settled
  <2>3. RequestInv'
    BY <1>2, <2>1 DEF RejectWrite, Becomes, TypeOK, RequestInv, Idle
  <2>3a. ScanInv' /\ LinkIsOwn' /\ ApprovedProductionIsProtected'
    BY <1>2 DEF RejectWrite, ScanInv, LinkIsOwn, ApprovedProductionIsProtected
  <2>4. DataInv'
    BY <1>2, <2>1 DEF RejectWrite, TypeOK, DataInv
  <2> QED
    BY <2>2, <2>3, <2>3a, <2>4
<1>3. ASSUME NEW c \in Ids, DeleteConnection(c)
      PROVE  IInv'
  <2>1. TypeOK'
    BY <1>3 DEF DeleteConnection, TypeOK, Connection
  <2>2. /\ conns'[c].from = conns[c].from /\ conns'[c].data = conns[c].data
        /\ conns'[c].requiresPassphrase = conns[c].requiresPassphrase
        /\ conns'[c].state = "deleted"
        /\ \A b \in Ids \ {c} : conns'[b] = conns[b]
    BY <1>3 DEF DeleteConnection, TypeOK, Connection
  <2>3. RequestInv'
    BY <1>3, <2>2 DEF DeleteConnection, RequestInv
  <2>4. LinkIsOwn' /\ ApprovedProductionIsProtected'
    BY <1>3, <2>2 DEF DeleteConnection, TypeOK, LinkIsOwn, ApprovedProductionIsProtected
  <2>5. DataInv' /\ ScanInv'
    BY <1>3 DEF DeleteConnection, DataInv, ScanInv
  <2> QED
    BY <2>1, <2>3, <2>4, <2>5
<1> QED
  BY <1>1, <1>2, <1>3

\* A container comes or goes.
LEMMA ChangeInv ==
    ASSUME IInv, NEW k \in Keys, NEW d \in DataOf[k] \cup {None}, Change(k, d)
    PROVE  IInv'
<1>1. d \in Data \cup {None}
  OBVIOUS
<1> QED
  BY <1>1 DEF IInv, Change, entryVars, TypeOK, DataInv, ScanInv, RequestInv, LinkIsOwn,
              ApprovedProductionIsProtected

\* A restart leaves the rows alone and forgets the rest.
LEMMA RestartInv ==
    ASSUME IInv, NEW w \in [Keys -> Data \cup {None}], Restart(w)
    PROVE  IInv'
<1>1. UNCHANGED <<status, data, link, conns>> /\ world' = w /\ scan' = Asleep
      /\ req' = [q \in Requests |-> Idle]
  BY DEF Restart, entryVars
<1>2. TypeOK'
  BY <1>1, IdleIsRequest, AsleepIsScan DEF IInv, TypeOK
<1>3. ScanInv' /\ RequestInv'
  BY <1>1 DEF ScanInv, RequestInv, Asleep, Idle
<1>4. DataInv' /\ LinkIsOwn' /\ ApprovedProductionIsProtected'
  BY <1>1 DEF IInv, DataInv, LinkIsOwn, ApprovedProductionIsProtected
<1> QED
  BY <1>2, <1>3, <1>4 DEF IInv

\* Every step keeps the invariant.
LEMMA NextInv == IInv /\ [Next]_vars => IInv'
<1> SUFFICES ASSUME IInv, [Next]_vars PROVE IInv'
  OBVIOUS
<1>1. CASE \E q \in Requests, k \in Keys :
             RejectGet(q, k) \/ \E phrase \in BOOLEAN : ApproveGet(q, k, phrase)
  <2>1. PICK q \in Requests, k \in Keys :
            RejectGet(q, k) \/ \E phrase \in BOOLEAN : ApproveGet(q, k, phrase)
    BY <1>1
  <2>2. CASE RejectGet(q, k)
    <3>1. TRUE \in BOOLEAN
      OBVIOUS
    <3> QED
      BY <2>2, <3>1, ReadingInv
  <2>3. CASE \E phrase \in BOOLEAN : ApproveGet(q, k, phrase)
    BY <2>3, ReadingInv
  <2> QED
    BY <2>1, <2>2, <2>3
<1>2. CASE \E q \in Requests : Return(q)
  <2>1. PICK q \in Requests : Return(q)
    BY <1>2
  <2>2. req[q].key \in Keys
    BY <2>1 DEF IInv, RequestInv, Return
  <2> QED
    BY <2>1, <2>2, ReadingInv
<1>3. CASE UNCHANGED vars
  BY <1>3 DEF vars, entryVars, IInv, TypeOK, DataInv, ScanInv, RequestInv, LinkIsOwn,
              ApprovedProductionIsProtected
<1> QED
  BY <1>1, <1>2, <1>3, ChangeInv, RestartInv, TickInv, CreatingInv, WritingInv DEF Next

\* IInv holds in every reachable state.
THEOREM Invariance == Spec => []IInv
<1> QED
  BY InitInv, NextInv, PTL DEF Spec

\* TypeOK: every value the goroutine and the requests carry has its type.
THEOREM TypeCorrect == Spec => []TypeOK
<1>1. IInv => TypeOK
  BY DEF IInv
<1> QED
  BY <1>1, Invariance, PTL

\* LinkIsOwn: approved_conn_id always names a live connection made from the
\* entry, under any interleaving of approvals, deletions and ticks.
THEOREM LinksAreOwn == Spec => []LinkIsOwn
<1>1. IInv => LinkIsOwn
  BY DEF IInv
<1> QED
  BY <1>1, Invariance, PTL

\* ApprovedProductionIsProtected: the passphrase check of the approve handler
\* covers the entry that is then created.
THEOREM ApprovalsKeepPassphrase == Spec => []ApprovedProductionIsProtected
<1>1. IInv => ApprovedProductionIsProtected
  BY DEF IInv
<1> QED
  BY <1>1, Invariance, PTL

\* One entry in one step: outside the two windows it stays settled.
LEMMA SettledStep ==
    ASSUME IInv, Next, NEW k \in Keys, ~ RefreshUnderWay(k)
    PROVE  /\ status[k] = "approved" => status'[k] \in Settled /\ ~ RefreshUnderWay(k)'
           /\ status[k] = "rejected" /\ ~ ApprovalUnderWay(k) =>
                status'[k] = "rejected" /\ ~ RefreshUnderWay(k)' /\ ~ ApprovalUnderWay(k)'
<1> USE DEF IInv, entryVars, RefreshUnderWay, ApprovalUnderWay, Settled, Open
<1>0. /\ req \in [Requests -> Request] /\ status \in [Keys -> Status] /\ scan \in Scan
      /\ None \notin Keys
  BY DEF TypeOK
<1>1. CASE Tick
  <2>1. UNCHANGED req
    BY <1>1 DEF Tick, Find, Lookup, Refresh, Insert, UpsertFails, MarkUnreachable, TickAborts
  <2>2. status[k] \in Settled => status'[k] = status[k]
    <3>1. CASE Refresh \/ Insert
      BY <1>0, <3>1 DEF Refresh, Insert
    <3>2. CASE MarkUnreachable
      BY <1>0, <3>2 DEF MarkUnreachable
    <3> QED
      BY <1>1, <3>1, <3>2 DEF Tick, Find, Lookup, UpsertFails, TickAborts
  <2>3. status[k] \in Settled => scan'.key # k
    <3>1. ASSUME NEW j \in Keys, Lookup(j), status[k] \in Settled
          PROVE  scan'.key # k
      <4>1. scan'.key = IF status[j] \in Settled THEN None ELSE j
        BY <1>0, <3>1 DEF Lookup, Scan
      <4> QED
        BY <1>0, <3>1, <4>1
    <3>2. CASE Refresh \/ Insert \/ UpsertFails
      BY <1>0, <3>2 DEF Refresh, Insert, UpsertFails, Scan
    <3>3. CASE MarkUnreachable \/ TickAborts \/ \E s \in Sources, skipped \in SUBSET Skippable : Find(s, skipped)
      <4>1. CASE MarkUnreachable \/ TickAborts
        BY <1>0, <4>1 DEF MarkUnreachable, TickAborts, Asleep
      <4>2. CASE \E s \in Sources, skipped \in SUBSET Skippable : Find(s, skipped)
        BY <1>0, <4>2 DEF Find
      <4> QED
        BY <3>3, <4>1, <4>2
    <3> QED
      BY <1>1, <3>1, <3>2, <3>3 DEF Tick
  <2> QED
    BY <2>1, <2>2, <2>3
<1>2. ASSUME NEW q \in Requests, NEW j \in Keys,
             RejectGet(q, j) \/ (\E phrase \in BOOLEAN : ApproveGet(q, j, phrase)) \/ Return(q)
      PROVE  /\ UNCHANGED <<status, scan>>
             /\ status[k] = "rejected" /\ ~ ApprovalUnderWay(k) => ~ ApprovalUnderWay(k)'
  <2>1. UNCHANGED <<status, scan>>
    BY <1>2 DEF RejectGet, ApproveGet, Return
  <2>2. /\ \A p \in Requests \ {q} : req'[p] = req[p]
        /\ req'[q].pc \in {"create", "mark"} => req'[q].key = j /\ status[j] \in Open
    <3>1. CASE RejectGet(q, j)
      BY <1>0, <3>1 DEF RejectGet, Becomes
    <3>2. ASSUME NEW phrase \in BOOLEAN, ApproveGet(q, j, phrase)
          PROVE  /\ \A p \in Requests \ {q} : req'[p] = req[p]
                 /\ req'[q].pc \in {"create", "mark"} => req'[q].key = j /\ status[j] \in Open
      BY <1>0, <3>2 DEF ApproveGet, Becomes
    <3>3. CASE Return(q)
      BY <1>0, <3>3 DEF Return, Becomes, Idle
    <3> QED
      BY <1>2, <3>1, <3>2, <3>3
  <2> QED
    BY <2>1, <2>2
<1>3. ASSUME NEW q \in Requests, NEW c \in Ids, ApproveCreate(q, c)
      PROVE  /\ UNCHANGED <<status, scan>>
             /\ ~ ApprovalUnderWay(k) => ~ ApprovalUnderWay(k)'
  <2>1. \A p \in Requests : req'[p].key = req[p].key /\ (p # q => req'[p] = req[p])
    BY <1>0, <1>3 DEF ApproveCreate, Becomes, Request
  <2> QED
    BY <1>3, <2>1 DEF ApproveCreate
<1>4. ASSUME NEW q \in Requests, ApproveMark(q) \/ RejectWrite(q)
      PROVE  /\ UNCHANGED scan
             /\ status[k] = "approved" => status'[k] \in Settled
             /\ status[k] = "rejected" /\ ~ ApprovalUnderWay(k) =>
                  status'[k] = "rejected" /\ ~ ApprovalUnderWay(k)'
  <2>1. \A p \in Requests : req'[p] = IF p = q THEN Idle ELSE req[p]
    BY <1>0, <1>4 DEF ApproveMark, RejectWrite, Becomes
  <2>2. ~ ApprovalUnderWay(k) => ~ ApprovalUnderWay(k)'
    BY <2>1 DEF Idle
  <2> QED
    BY <1>0, <1>4, <2>2 DEF ApproveMark, RejectWrite
<1>5. ASSUME \/ \E j \in Keys : \E d \in DataOf[j] \cup {None} : Change(j, d)
             \/ \E c \in Ids, d \in Data, phrase \in BOOLEAN : CreateConnection(c, d, phrase)
             \/ \E c \in Ids : DeleteConnection(c)
      PROVE  UNCHANGED <<status, scan, req>>
  BY <1>5 DEF Change, CreateConnection, DeleteConnection
<1>6. ASSUME NEW w \in [Keys -> Data \cup {None}], Restart(w)
      PROVE  UNCHANGED status /\ scan'.key = None /\ ~ ApprovalUnderWay(k)'
  <2>1. UNCHANGED status /\ scan' = Asleep /\ req' = [q \in Requests |-> Idle]
    BY <1>6 DEF Restart
  <2> QED
    BY <2>1 DEF Asleep, Idle
<1> QED
  BY <1>0, <1>1, <1>2, <1>3, <1>4, <1>5, <1>6 DEF Next

\* SettledStaysSettled: only a refresh or an approval that had read the entry
\* before it was settled can reopen it.
THEOREM SettledIsFinal == Spec => SettledStaysSettled
<1>1. IInv /\ [Next]_vars =>
        [\A k \in Keys : ~ RefreshUnderWay(k) =>
           /\ status[k] = "approved" => status'[k] \in Settled /\ ~ RefreshUnderWay(k)'
           /\ status[k] = "rejected" /\ ~ ApprovalUnderWay(k) =>
                /\ status'[k] = "rejected"
                /\ ~ RefreshUnderWay(k)'
                /\ ~ ApprovalUnderWay(k)']_vars
  BY SettledStep
<1> QED
  BY <1>1, Invariance, PTL DEF Spec, SettledStaysSettled

-----------------------------------------------------------------------------
(* Rejections and refreshes that do not meet. *)

\* A rejection is not written while a tick is between the SELECT and the UPDATE
\* of the same entry's Upsert, as if Upsert were one statement.
UndividedNext ==
    /\ Next
    /\ \A q \in Requests : RejectWrite(q) => scan.key # req[q].key

UndividedSpec == Init /\ [][UndividedNext]_vars

\* What is being refreshed is not rejected.
RefreshInv == scan.pc = "refresh" => status[scan.key] # "rejected"

\* Only RejectWrite rejects an entry, and a refresh begins with one that is open.
LEMMA RefreshStep ==
    ASSUME IInv, RefreshInv, [UndividedNext]_vars
    PROVE  RefreshInv'
<1> USE DEF RefreshInv
<1>0. /\ req \in [Requests -> Request] /\ status \in [Keys -> Status] /\ scan \in Scan
      /\ None \notin Keys
      /\ scan.pc \in {"refresh", "insert"} => scan.key \in Keys
      /\ scan.pc \in {"idle", "lookup"} => scan.key = None
  BY DEF IInv, TypeOK, ScanInv
<1>1. ASSUME NEW k \in Keys, Lookup(k)
      PROVE  RefreshInv'
  <2>1. /\ scan'.pc = "refresh" => status[k] \in Open /\ scan'.key = k
        /\ status' = status
    <3>1. /\ scan'.key = IF status[k] \in Settled THEN None ELSE k
          /\ scan'.pc = CASE status[k] \in Settled -> "lookup"
                           [] status[k] \in Open    -> "refresh"
                           [] OTHER                 -> "insert"
          /\ status' = status
      BY <1>0, <1>1 DEF Lookup, Scan, entryVars
    <3>2. CASE status[k] \in Open
      BY <3>1, <3>2 DEF Settled, Open
    <3>3. CASE status[k] \in Settled
      BY <3>1, <3>3 DEF Settled, Open
    <3>4. CASE status[k] \notin Settled \cup Open
      BY <3>1, <3>4
    <3> QED
      BY <3>2, <3>3, <3>4
  <2> QED
    BY <2>1 DEF Open
<1>2. CASE Refresh \/ Insert \/ UpsertFails \/ MarkUnreachable \/ TickAborts
  <2>1. scan'.pc # "refresh"
    <3>1. CASE Refresh \/ Insert \/ UpsertFails
      BY <1>0, <3>1 DEF Refresh, Insert, UpsertFails, Scan
    <3>2. CASE MarkUnreachable \/ TickAborts
      BY <3>2 DEF MarkUnreachable, TickAborts, Asleep
    <3> QED
      BY <1>2, <3>1, <3>2
  <2> QED
    BY <2>1
<1>3. ASSUME NEW s \in Sources, NEW skipped \in SUBSET Skippable, Find(s, skipped)
      PROVE  RefreshInv'
  BY <1>3 DEF Find
<1>4. ASSUME NEW q \in Requests, RejectWrite(q), scan.key # req[q].key
      PROVE  RefreshInv'
  BY <1>0, <1>4 DEF RejectWrite
<1>5. ASSUME NEW q \in Requests, ApproveMark(q)
      PROVE  RefreshInv'
  BY <1>0, <1>5 DEF ApproveMark
<1>6. ASSUME UNCHANGED <<status, scan>>
      PROVE  RefreshInv'
  BY <1>6
<1>7. ASSUME NEW w \in [Keys -> Data \cup {None}], Restart(w)
      PROVE  RefreshInv'
  BY <1>7 DEF Restart, Asleep
<1>8. CASE \/ \E k \in Keys : \E d \in DataOf[k] \cup {None} : Change(k, d)
           \/ \E q \in Requests :
                \/ \E k \in Keys : RejectGet(q, k) \/ \E phrase \in BOOLEAN : ApproveGet(q, k, phrase)
                \/ \E c \in Ids : ApproveCreate(q, c)
                \/ Return(q)
           \/ \E c \in Ids :
                \/ \E d \in Data, phrase \in BOOLEAN : CreateConnection(c, d, phrase)
                \/ DeleteConnection(c)
           \/ UNCHANGED vars
  BY <1>6, <1>8 DEF Change, RejectGet, ApproveGet, ApproveCreate, Return, CreateConnection,
                    DeleteConnection, entryVars, vars
<1> QED
  BY <1>1, <1>2, <1>3, <1>4, <1>5, <1>7, <1>8 DEF UndividedNext, Next, Tick

\* RejectedStays: Upsert's comment holds as long as no rejection falls between
\* its SELECT and its UPDATE; one that does breaks it.
THEOREM UndividedRejectedStays == UndividedSpec => RejectedStays
<1>1. UndividedSpec => Spec
  <2>1. [UndividedNext]_vars => [Next]_vars
    BY DEF UndividedNext
  <2> QED
    BY <2>1, PTL DEF UndividedSpec, Spec
<1>2. Init => RefreshInv
  BY DEF Init, RefreshInv, Asleep
<1>3. IInv /\ RefreshInv /\ [UndividedNext]_vars => RefreshInv'
  BY RefreshStep
<1>4. IInv /\ RefreshInv /\ [UndividedNext]_vars =>
        [\A k \in Keys : status[k] = "rejected" => status'[k] # "pending"]_vars
  <2> SUFFICES ASSUME IInv, RefreshInv, Next, NEW k \in Keys, status[k] = "rejected"
               PROVE  status'[k] # "pending"
    BY DEF UndividedNext
  <2>1. status \in [Keys -> Status] /\ (scan.pc \in {"refresh", "insert"} => scan.key \in Keys)
    BY DEF IInv, TypeOK, ScanInv
  <2>2. CASE Refresh \/ Insert
    BY <2>1, <2>2 DEF Refresh, Insert, RefreshInv
  <2>3. CASE MarkUnreachable
    BY <2>3 DEF MarkUnreachable
  <2>4. ASSUME NEW q \in Requests, ApproveMark(q) \/ RejectWrite(q)
        PROVE  status'[k] # "pending"
    BY <2>1, <2>4 DEF ApproveMark, RejectWrite
  <2>5. status' = status \/ Refresh \/ Insert \/ MarkUnreachable
          \/ \E q \in Requests : ApproveMark(q) \/ RejectWrite(q)
    BY DEF Next, Tick, Change, Restart, Find, Lookup, UpsertFails, TickAborts, RejectGet, ApproveGet,
           ApproveCreate, Return, CreateConnection, DeleteConnection, entryVars
  <2> QED
    BY <2>2, <2>3, <2>4, <2>5
<1> QED
  BY <1>1, <1>2, <1>3, <1>4, Invariance, PTL DEF UndividedSpec, RejectedStays
=============================================================================
