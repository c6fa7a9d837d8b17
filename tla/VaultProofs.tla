------------------------------ MODULE VaultProofs ------------------------------
(***************************************************************************)
(* Proofs about Vault, for any number of keys, hosts and requests: types,  *)
(* one master key over all starts, and what trust on first use guarantees. *)
(* The invariant adds what a request carries, that only a serving process  *)
(* has a key or requests, and that between the two loads of a start the    *)
(* key that is configured is the audit log's.                              *)
(***************************************************************************)
EXTENDS Vault, TLAPS

USE VaultAssumption

\* A source without a key is absent, and the other way round.
SourceInv == \A s \in Sources : source[s].state = "absent" <=> source[s].key = None

\* Only a process that serves has a key and requests.
ProcessInv ==
    /\ boot = "up" <=> mk # None
    /\ boot # "up" => \A q \in Requests : req[q] = Idle

\* The first load of a start has been held against the log; the second will
\* return the key that is configured.
BetweenLoads == steady /\ boot = "init" => log = {Configured(source)}

\* What is stored is sealed under a key, only hosts there are have a pin, and a
\* connection's bastion is there.
RowInv ==
    /\ \A h \in Hosts : /\ Live(hosts[h]) => hosts[h].seal.mk # None
                        /\ hosts[h].pin # None => Live(hosts[h])
    /\ \A c \in Conns : Live(conns[c]) =>
         conns[c].seal.mk # None /\ conns[c].via \in Hosts /\ Live(hosts[conns[c].via])

\* Only a first connect gets to write a pin, one of the machine it dialled.
Carries(r) ==
    /\ r.pc # "idle" => r.host \in Hosts
    /\ r.pc = "pin" => r.pin = None /\ r.seen \in KeysOf[AddressOf[r.host]]

RequestInv == \A q \in Requests : Carries(req[q])

IInv ==
    /\ TypeOK /\ SourceInv /\ ProcessInv /\ BetweenLoads
    /\ RowInv /\ RequestInv /\ OneKey /\ PinIsOwn

\* A live connection's bastion is there, whatever deletes are tried.
NoDanglingHost ==
    \A c \in Conns : Live(conns[c]) => conns[c].via \in Hosts /\ Live(hosts[conns[c].via])

LEMMA IdleIsRequest == Idle \in Request /\ Carries(Idle)
BY DEF Idle, Request, Carries

\* A load returns a key that is the configured one from then on; one that was
\* configured before stays so.
LEMMA LoadIsConfigured ==
    ASSUME source \in [Sources -> Source], SourceInv, NEW k \in MasterKeys, Load(k)
    PROVE  /\ source' \in [Sources -> Source]
           /\ SourceInv'
           /\ Configured(source') = k
           /\ Configured(source) \in {None, k}
<1>1. CASE source[Stops(source)] = [state |-> "ok", key |-> k] /\ source' = source
  BY <1>1 DEF Configured, SourceInv
<1>2. CASE /\ source[Stops(source)].state = "absent"
           /\ source' = [source EXCEPT !["auto"] = [state |-> "ok", key |-> k]]
  <2>1. Stops(source) = "auto"
    BY <1>2 DEF Stops
  <2>2. Stops(source') = "auto"
    BY <1>2, <2>1 DEF Stops, Sources
  <2>3. source' \in [Sources -> Source] /\ SourceInv'
    BY <1>2 DEF SourceInv, Sources, Source
  <2>4. Configured(source) = None
    BY <1>2, <2>1 DEF Configured, SourceInv, Sources
  <2> QED
    BY <1>2, <2>2, <2>3, <2>4 DEF Configured, Sources
<1> QED
  BY <1>1, <1>2 DEF Load

\* Damaging or mending a source changes no key that is configured.
LEMMA DamageKeepsKey ==
    ASSUME source \in [Sources -> Source], SourceInv, NEW s \in Sources, Damage(s)
    PROVE  /\ source' \in [Sources -> Source]
           /\ SourceInv'
           /\ Configured(source') = Configured(source)
<1>1. \A t \in Sources : /\ source'[t].key = source[t].key
                         /\ source'[t].state = "absent" <=> source[t].state = "absent"
  BY DEF Damage, Source
<1>2. source' \in [Sources -> Source] /\ SourceInv'
  BY <1>1 DEF Damage, Source, SourceInv
<1>3. Stops(source') = Stops(source) /\ Stops(source) \in Sources
  BY <1>1 DEF Stops, Sources
<1> QED
  BY <1>1, <1>2, <1>3 DEF Configured

\* A source that is given a key or none stays in order.
LEMMA ProvisionKeepsOrder ==
    ASSUME source \in [Sources -> Source], SourceInv, NEW s \in Sources,
           NEW k \in MasterKeys \cup {None}, Provision(s, k)
    PROVE  source' \in [Sources -> Source] /\ SourceInv'
BY DEF Provision, Source, SourceInv

-----------------------------------------------------------------------------
(* The invariant, one lemma per group of actions. *)

LEMMA InitInv == Init => IInv
<1> SUFFICES ASSUME Init PROVE IInv
  OBVIOUS
<1>1. PICK f \in MasterKeys \cup {None}, e \in MasterKeys \cup {None} :
         source = [s \in Sources |->
                     LET k == CASE s = "file" -> f [] s = "env" -> e [] OTHER -> None
                     IN  [state |-> IF k = None THEN "absent" ELSE "ok", key |-> k]]
  BY DEF Init
<1>2. source \in [Sources -> Source] /\ SourceInv
  BY <1>1 DEF Source, Sources, SourceInv
<1>3. hosts \in [Hosts -> Host] /\ conns \in [Conns -> Conn]
  BY DEF Init, Host, Conn, NoHost, NoConn, NoSeal, Seal, RowState
<1>4. TypeOK
  BY <1>2, <1>3, IdleIsRequest DEF Init, TypeOK
<1>5. \A h \in Hosts : ~ Live(hosts[h]) /\ hosts[h].pin = None
  BY DEF Init, NoHost, NoSeal, Live
<1>6. \A c \in Conns : ~ Live(conns[c])
  BY DEF Init, NoConn, NoSeal, Live
<1>7. ProcessInv /\ RequestInv
  BY IdleIsRequest DEF Init, ProcessInv, RequestInv
<1>8. BetweenLoads /\ RowInv /\ OneKey /\ PinIsOwn
  BY <1>5, <1>6 DEF Init, BetweenLoads, RowInv, OneKey, PinIsOwn
<1> QED
  BY <1>2, <1>4, <1>7, <1>8 DEF IInv

\* The starts.
LEMMA StartInv ==
    ASSUME IInv, NEW k \in MasterKeys, BootInit(k) \/ BootServe(k) \/ BootFails(k)
    PROVE  IInv'
<1>1. /\ source' \in [Sources -> Source] /\ SourceInv'
      /\ Configured(source') = k /\ Configured(source) \in {None, k}
  BY LoadIsConfigured DEF IInv, TypeOK, BootInit, BootServe, BootFails
<1>2. TypeOK'
  BY <1>1 DEF IInv, TypeOK, BootInit, BootServe, BootFails, rowVars
<1>3. ProcessInv' /\ RowInv' /\ RequestInv' /\ PinIsOwn'
  BY DEF IInv, ProcessInv, RowInv, RequestInv, PinIsOwn, BootInit, BootServe, BootFails, rowVars, Live
<1>4. CASE BootInit(k)
  <2>1. log' = {k} /\ (log = {} \/ log = {k}) /\ UNCHANGED <<steady, hosts, conns>> /\ boot' = "init"
    BY <1>4 DEF BootInit, rowVars
  <2>2. BetweenLoads'
    BY <1>1, <2>1 DEF BetweenLoads
  <2>3. OneKey'
    BY <2>1 DEF IInv, OneKey, Live
  <2> QED
    BY <1>1, <1>2, <1>3, <2>2, <2>3 DEF IInv
<1>5. CASE BootServe(k)
  <2>1. UNCHANGED <<log, steady, hosts, conns>> /\ boot = "init" /\ boot' = "up" /\ mk' = k
    BY <1>5 DEF BootServe, rowVars
  <2>2. steady => log = {k}
    <3>1. steady => log = {Configured(source)}
      BY <2>1 DEF IInv, BetweenLoads
    <3>2. steady => Configured(source) # None
      BY <3>1 DEF IInv, TypeOK
    <3> QED
      BY <1>1, <3>1, <3>2
  <2>3. BetweenLoads' /\ OneKey'
    BY <2>1, <2>2 DEF IInv, BetweenLoads, OneKey, Live
  <2> QED
    BY <1>1, <1>2, <1>3, <2>3 DEF IInv
<1>6. CASE BootFails(k)
  <2>1. BetweenLoads' /\ OneKey'
    BY <1>6 DEF IInv, BetweenLoads, OneKey, Live, BootFails, rowVars
  <2> QED
    BY <1>1, <1>2, <1>3, <2>1 DEF IInv
<1> QED
  BY <1>4, <1>5, <1>6

\* The end of the process, and what the operator does.
LEMMA OperateInv ==
    ASSUME IInv, Stop \/ Append \/ Operate
    PROVE  IInv'
<1>1. CASE Stop
  BY <1>1, IdleIsRequest DEF IInv, TypeOK, SourceInv, ProcessInv, BetweenLoads, RowInv, RequestInv,
                             OneKey, PinIsOwn, Stop, rowVars, Live
<1>3. CASE Append
  <2>1. UNCHANGED <<source, boot, mk, steady, hosts, conns, req>> /\ boot = "up" /\ log' = log \cup {mk}
    BY <1>3 DEF Append, rowVars
  <2>2. mk \in MasterKeys
    BY <2>1 DEF IInv, TypeOK, ProcessInv
  <2>3. TypeOK'
    BY <2>1, <2>2 DEF IInv, TypeOK
  <2>4. OneKey'
    BY <2>1 DEF IInv, OneKey, Live
  <2>5. SourceInv' /\ ProcessInv' /\ BetweenLoads' /\ RowInv' /\ RequestInv' /\ PinIsOwn'
    BY <2>1 DEF IInv, SourceInv, ProcessInv, BetweenLoads, RowInv, RequestInv, PinIsOwn, Live
  <2> QED
    BY <2>3, <2>4, <2>5 DEF IInv
<1>2. CASE Operate
  <2>1. PICK s \in Sources : Damage(s) \/ \E k \in MasterKeys \cup {None} : Provision(s, k)
    BY <1>2 DEF Operate
  <2>2. /\ source' \in [Sources -> Source] /\ SourceInv'
        /\ steady' \in BOOLEAN
        /\ steady' => steady /\ (boot = "init" => Configured(source') = Configured(source))
    <3>1. CASE Damage(s)
      <4>1. source' \in [Sources -> Source] /\ SourceInv' /\ Configured(source') = Configured(source)
        BY <3>1, DamageKeepsKey DEF IInv, TypeOK
      <4> QED
        BY <3>1, <4>1 DEF IInv, TypeOK, Damage
    <3>2. ASSUME NEW k \in MasterKeys \cup {None}, Provision(s, k)
          PROVE  /\ source' \in [Sources -> Source] /\ SourceInv'
                 /\ steady' \in BOOLEAN
                 /\ steady' => steady /\ (boot = "init" => Configured(source') = Configured(source))
      <4>1. source' \in [Sources -> Source] /\ SourceInv'
        BY <3>2, ProvisionKeepsOrder DEF IInv, TypeOK
      <4>2. steady' = (steady /\ (boot = "init" => Configured(source') = Configured(source)))
        BY <3>2 DEF Provision
      <4>3. steady' \in BOOLEAN /\ (steady' => steady /\ (boot = "init" => Configured(source') = Configured(source)))
        BY <4>2, Zenon
      <4> QED
        BY <4>1, <4>3
    <3> QED
      BY <2>1, <3>1, <3>2
  <2>3. UNCHANGED <<boot, mk, log, hosts, conns, req>>
    BY <2>1 DEF Damage, Provision, rowVars
  <2> QED
    BY <2>2, <2>3 DEF IInv, TypeOK, ProcessInv, BetweenLoads, RowInv, RequestInv, OneKey, PinIsOwn, Live
<1> QED
  BY <1>1, <1>2, <1>3

\* The handlers that write rows.
LEMMA RowsInv ==
    ASSUME IInv, Store \/ Remove
    PROVE  IInv'
<1> USE DEF keyVars
<1>0. UNCHANGED <<source, boot, mk, log, steady, req>> /\ boot = "up"
  BY DEF Store, Remove, CreateHost, CreateConn, DeleteHost, DeleteConn
<1>1. SourceInv' /\ ProcessInv' /\ BetweenLoads' /\ RequestInv'
  BY <1>0 DEF IInv, SourceInv, ProcessInv, BetweenLoads, RequestInv
<1>2. mk \in MasterKeys /\ mk # None
  BY <1>0 DEF IInv, TypeOK, ProcessInv
<1>3. ASSUME NEW phrase \in Phrases \cup {None}, NEW h \in Hosts, CreateHost(h, phrase)
      PROVE  IInv'
  <2>1. Sealed(phrase) \in Seal /\ Sealed(phrase).mk = mk
    BY <1>2 DEF Sealed, Seal, RowState
  <2>2. TypeOK'
    BY <1>0, <1>3, <2>1 DEF IInv, TypeOK, CreateHost, Host
  <2>3. RowInv' /\ OneKey' /\ PinIsOwn'
    BY <1>0, <1>2, <1>3, <2>1 DEF IInv, TypeOK, CreateHost, RowInv, OneKey, PinIsOwn, Live, Sealed
  <2> QED
    BY <1>1, <2>2, <2>3 DEF IInv
<1>4. ASSUME NEW phrase \in Phrases \cup {None}, NEW c \in Conns, NEW h \in Hosts,
             CreateConn(c, h, phrase)
      PROVE  IInv'
  <2>1. Sealed(phrase) \in Seal /\ Sealed(phrase).mk = mk
    BY <1>2 DEF Sealed, Seal, RowState
  <2>2. TypeOK'
    BY <1>0, <1>4, <2>1 DEF IInv, TypeOK, CreateConn, Conn
  <2>3. RowInv' /\ OneKey' /\ PinIsOwn'
    BY <1>0, <1>2, <1>4, <2>1 DEF IInv, TypeOK, CreateConn, RowInv, OneKey, PinIsOwn, Live, Sealed
  <2> QED
    BY <1>1, <2>2, <2>3 DEF IInv
<1>5. ASSUME NEW h \in Hosts, DeleteHost(h)
      PROVE  IInv'
  <2>1. NoHost("deleted") \in Host /\ ~ Live(NoHost("deleted")) /\ NoHost("deleted").pin = None
    BY DEF NoHost, NoSeal, Host, Seal, RowState, Live
  <2>2. \A g \in Hosts : hosts'[g] = IF g = h THEN NoHost("deleted") ELSE hosts[g]
    BY <1>5 DEF IInv, TypeOK, DeleteHost
  <2>3. TypeOK'
    BY <1>0, <1>5, <2>1 DEF IInv, TypeOK, DeleteHost
  <2>4. RowInv'
    BY <1>5, <2>1, <2>2 DEF IInv, DeleteHost, RowInv, Live
  <2>5. OneKey' /\ PinIsOwn'
    BY <1>0, <1>5, <2>1, <2>2 DEF IInv, DeleteHost, OneKey, PinIsOwn, Live
  <2> QED
    BY <1>1, <2>3, <2>4, <2>5 DEF IInv
<1>6. ASSUME NEW c \in Conns, DeleteConn(c)
      PROVE  IInv'
  <2>1. NoConn("deleted") \in Conn /\ ~ Live(NoConn("deleted"))
    BY DEF NoConn, NoSeal, Conn, Seal, RowState, Live
  <2>2. \A d \in Conns : conns'[d] = IF d = c THEN NoConn("deleted") ELSE conns[d]
    BY <1>6 DEF IInv, TypeOK, DeleteConn
  <2>3. TypeOK'
    BY <1>0, <1>6, <2>1 DEF IInv, TypeOK, DeleteConn
  <2>4. RowInv' /\ OneKey' /\ PinIsOwn'
    BY <1>0, <1>6, <2>1, <2>2 DEF IInv, DeleteConn, RowInv, OneKey, PinIsOwn, Live
  <2> QED
    BY <1>1, <2>3, <2>4 DEF IInv
<1> QED
  BY <1>3, <1>4, <1>5, <1>6 DEF Store, Remove

\* A step of a request changes its own record only, and only in a process that
\* serves.
LEMMA RequestStep ==
    ASSUME IInv, NEW q \in Requests, NEW r \in Request, Carries(r), Becomes(q, r),
           boot = "up" \/ req[q].pc # "idle", UNCHANGED <<source, boot, mk, log, steady>>
    PROVE  /\ req' \in [Requests -> Request] /\ RequestInv' /\ SourceInv' /\ ProcessInv'
           /\ BetweenLoads' /\ boot = "up"
<1>1. boot = "up"
  BY DEF IInv, ProcessInv, Idle
<1>2. \A p \in Requests : req'[p] = IF p = q THEN r ELSE req[p]
  BY DEF IInv, TypeOK, Becomes
<1> QED
  BY <1>1, <1>2 DEF IInv, TypeOK, RequestInv, SourceInv, ProcessInv, BetweenLoads, Becomes

\* One that leaves the tables alone.
LEMMA ReadStep ==
    ASSUME IInv, NEW q \in Requests, NEW r \in Request, Carries(r), Becomes(q, r),
           boot = "up" \/ req[q].pc # "idle", UNCHANGED <<keyVars, rowVars>>
    PROVE  IInv'
<1>1. UNCHANGED <<source, boot, mk, log, steady, hosts, conns>>
  BY DEF keyVars, rowVars
<1>2. req' \in [Requests -> Request] /\ RequestInv' /\ SourceInv' /\ ProcessInv' /\ BetweenLoads'
  BY <1>1, RequestStep
<1> QED
  BY <1>1, <1>2 DEF IInv, TypeOK, RowInv, OneKey, PinIsOwn, Live

\* The tunnel a request ends up with.
LEMMA OpenedIsRequest ==
    ASSUME NEW h \in Hosts, NEW k \in HostKeys
    PROVE  Opened(h, k) \in Request /\ Carries(Opened(h, k))
BY DEF Opened, Idle, Request, Carries

\* The steps of a connect.
LEMMA ConnectInv ==
    ASSUME IInv, NEW q \in Requests, Connect(q)
    PROVE  IInv'
<1>0. req[q] \in Request /\ Carries(req[q])
  BY DEF IInv, TypeOK, RequestInv
<1>1. ASSUME NEW phrase \in Phrases \cup {None}, NEW c \in Conns, RevealConn(q, c, phrase)
      PROVE  IInv'
  <2> DEFINE r == [Idle EXCEPT !.pc = "host", !.host = conns[c].via, !.phrase = phrase]
  <2>1. conns[c].via \in Hosts
    BY <1>1 DEF IInv, RowInv, RevealConn, Opens
  <2>2. r \in Request /\ Carries(r)
    BY <2>1 DEF Idle, Request, Carries
  <2> HIDE DEF r
  <2>3. boot = "up" /\ Becomes(q, r) /\ UNCHANGED <<keyVars, rowVars>>
    BY <1>1 DEF RevealConn, r
  <2> QED
    BY <2>2, <2>3, ReadStep
<1>2. ASSUME NEW phrase \in Phrases \cup {None}, NEW h \in Hosts, TestHost(q, h, phrase)
      PROVE  IInv'
  <2> DEFINE r == [Idle EXCEPT !.pc = "dial", !.host = h, !.pin = hosts[h].pin]
  <2>1. hosts[h].pin \in HostKeys \cup {None}
    BY DEF IInv, TypeOK, Host
  <2>2. r \in Request /\ Carries(r)
    BY <2>1 DEF Idle, Request, Carries
  <2> HIDE DEF r
  <2>3. boot = "up" /\ Becomes(q, r) /\ UNCHANGED <<keyVars, rowVars>>
    BY <1>2 DEF TestHost, r
  <2> QED
    BY <2>2, <2>3, ReadStep
<1>3. CASE RevealHost(q)
  <2> DEFINE r == [req[q] EXCEPT !.pc = "dial", !.phrase = None, !.pin = hosts[req[q].host].pin]
  <2>1. req[q].host \in Hosts
    BY <1>0, <1>3 DEF Carries, RevealHost
  <2>2. hosts[req[q].host].pin \in HostKeys \cup {None}
    BY <2>1 DEF IInv, TypeOK, Host
  <2>3. r \in Request /\ Carries(r)
    BY <1>0, <2>1, <2>2 DEF Request, Carries
  <2> HIDE DEF r
  <2>4. req[q].pc # "idle" /\ Becomes(q, r) /\ UNCHANGED <<keyVars, rowVars>>
    BY <1>3 DEF RevealHost, r
  <2> QED
    BY <2>3, <2>4, ReadStep
<1>4. ASSUME NEW k \in HostKeys, Dial(q, k)
      PROVE  IInv'
  <2> DEFINE r == IF req[q].pin = None THEN [req[q] EXCEPT !.pc = "pin", !.seen = k]
                                       ELSE Opened(req[q].host, k)
  <2>1. req[q].host \in Hosts
    BY <1>0, <1>4 DEF Carries, Dial
  <2>2. k \in KeysOf[AddressOf[req[q].host]]
    BY <1>4 DEF Dial
  <2>3. r \in Request /\ Carries(r)
    BY <1>0, <2>1, <2>2, OpenedIsRequest DEF Request, Carries
  <2> HIDE DEF r
  <2>4. req[q].pc # "idle" /\ Becomes(q, r) /\ UNCHANGED <<keyVars, rowVars>>
    BY <1>4 DEF Dial, r
  <2> QED
    BY <2>3, <2>4, ReadStep
<1>5. ASSUME req[q].pc = "pin"
      PROVE  /\ req[q].host \in Hosts
             /\ req[q].seen \in KeysOf[AddressOf[req[q].host]]
             /\ req[q].seen \in HostKeys
             /\ Opened(req[q].host, req[q].seen) \in Request
             /\ Carries(Opened(req[q].host, req[q].seen))
  <2>1. req[q].host \in Hosts /\ req[q].seen \in KeysOf[AddressOf[req[q].host]]
    BY <1>0, <1>5 DEF Carries
  <2>2. req[q].seen \in HostKeys
    BY <2>1
  <2> QED
    BY <2>1, <2>2, OpenedIsRequest
<1>6. CASE Pin(q)
  <2> DEFINE h == req[q].host
             k == req[q].seen
  <2>1. h \in Hosts /\ k \in HostKeys /\ k \in KeysOf[AddressOf[h]]
    BY <1>5, <1>6 DEF Pin
  <2>2. UNCHANGED <<source, boot, mk, log, steady, conns>>
    BY <1>6 DEF Pin, keyVars
  <2>3. req' \in [Requests -> Request] /\ RequestInv' /\ SourceInv' /\ ProcessInv' /\ BetweenLoads'
    BY <1>5, <1>6, <2>2, RequestStep DEF Pin
  <2>4. hosts' \in [Hosts -> Host]
    BY <1>6, <2>1 DEF IInv, TypeOK, Pin, Host
  <2>5. \A g \in Hosts : /\ hosts'[g].seal = hosts[g].seal
                         /\ \/ hosts'[g].pin = hosts[g].pin
                            \/ g = h /\ hosts'[g].pin = k /\ Live(hosts[g])
    BY <1>6, <2>1 DEF IInv, TypeOK, Pin, Host
  <2>6. TypeOK'
    BY <2>2, <2>3, <2>4 DEF IInv, TypeOK
  <2>7. RowInv' /\ OneKey'
    BY <2>2, <2>5 DEF IInv, RowInv, OneKey, Live
  <2>8. PinIsOwn'
    BY <2>1, <2>5 DEF IInv, PinIsOwn
  <2> QED
    BY <2>3, <2>6, <2>7, <2>8 DEF IInv
<1>7. CASE PinFails(q)
  BY <1>5, <1>7, ReadStep DEF PinFails
<1>8. CASE Return(q)
  BY <1>8, IdleIsRequest, ReadStep DEF Return
<1> QED
  BY <1>1, <1>2, <1>3, <1>4, <1>6, <1>7, <1>8 DEF Connect

LEMMA InductiveStep == IInv /\ [Next]_vars => IInv'
<1> SUFFICES ASSUME IInv, [Next]_vars PROVE IInv'
  OBVIOUS
<1>1. CASE Next
  BY <1>1, StartInv, OperateInv, RowsInv, ConnectInv DEF Next, Start
<1>2. CASE UNCHANGED vars
  BY <1>2 DEF IInv, TypeOK, SourceInv, ProcessInv, BetweenLoads, RowInv, RequestInv, OneKey, PinIsOwn,
              Live, vars, keyVars, rowVars
<1> QED
  BY <1>1, <1>2

LEMMA Inductive == Spec => []IInv
BY InitInv, InductiveStep, PTL DEF Spec

-----------------------------------------------------------------------------
\* Every variable keeps its type.
THEOREM TypeCorrect == Spec => []TypeOK
<1>1. IInv => TypeOK
  BY DEF IInv
<1> QED
  BY <1>1, Inductive, PTL

\* However often DBil starts, and whatever happens to its keys meanwhile, all
\* that is stored is sealed under one key and the process that is up holds it.
THEOREM OneMasterKey == Spec => []OneKey
<1>1. IInv => OneKey
  BY DEF IInv
<1> QED
  BY <1>1, Inductive, PTL

\* SetFingerprint never pins another machine's key.
THEOREM PinsAreOwn == Spec => []PinIsOwn
<1>1. IInv => PinIsOwn
  BY DEF IInv
<1> QED
  BY <1>1, Inductive, PTL

\* One host in one step: nobody is behind its pin, and nobody will be.
LEMMA PinStep ==
    ASSUME IInv, Next, NEW h \in Hosts, hosts[h].pin # None, ~ Behind(h)
    PROVE  /\ Live(hosts[h])' => hosts'[h].pin = hosts[h].pin /\ ~ Behind(h)'
           /\ \A q \in Requests : req[q].pc = "dial" /\ req[q].host = h /\ req'[q].pc = "open"
                 => req'[q].seen = hosts[h].pin
<1>0. /\ req \in [Requests -> Request] /\ hosts \in [Hosts -> Host]
      /\ Live(hosts[h])
      /\ \A q \in Requests : Carries(req[q])
  BY DEF IInv, TypeOK, RowInv, RequestInv
<1>1. CASE Start \/ Append \/ Operate
  <2>1. UNCHANGED <<hosts, req>>
    BY <1>1 DEF Start, Append, Operate, BootInit, BootServe, BootFails, Damage, Provision, rowVars
  <2> QED
    BY <2>1 DEF Behind
<1>2. CASE Stop
  <2>1. hosts' = hosts /\ \A q \in Requests : req'[q] = Idle
    BY <1>2 DEF Stop, rowVars
  <2> QED
    BY <2>1 DEF Behind, Idle
<1>3. CASE Store \/ Remove
  <2>1. req' = req
    BY <1>3 DEF Store, Remove, CreateHost, CreateConn, DeleteHost, DeleteConn
  <2>2. ASSUME NEW g \in Hosts, NEW phrase \in Phrases \cup {None}, CreateHost(g, phrase)
        PROVE  hosts'[h] = hosts[h]
    BY <1>0, <2>2 DEF CreateHost, Live
  <2>3. ASSUME NEW g \in Hosts, DeleteHost(g), Live(hosts[h])'
        PROVE  hosts'[h] = hosts[h]
    BY <1>0, <2>3 DEF DeleteHost, Live, NoHost, NoSeal
  <2>4. Live(hosts[h])' => hosts'[h] = hosts[h]
    BY <1>3, <2>2, <2>3 DEF Store, Remove, CreateConn, DeleteConn
  <2> QED
    BY <2>1, <2>4 DEF Behind
<1>4. ASSUME NEW q \in Requests, Connect(q)
      PROVE  /\ hosts'[h].pin = hosts[h].pin
             /\ \A p \in Requests \ {q} : req'[p] = req[p]
             /\ req'[q].host = h /\ req'[q].pc \in {"dial", "pin"} => req'[q].pin = hosts[h].pin
             /\ req[q].pc = "dial" /\ req[q].host = h /\ req'[q].pc = "open" =>
                  req'[q].seen = hosts[h].pin
  <2>0. req[q].host = h /\ req[q].pc \in {"dial", "pin"} => req[q].pin = hosts[h].pin
    BY DEF Behind
  <2>1. ASSUME NEW phrase \in Phrases \cup {None}, NEW c \in Conns, RevealConn(q, c, phrase)
        PROVE  /\ hosts'[h].pin = hosts[h].pin
               /\ \A p \in Requests \ {q} : req'[p] = req[p]
               /\ req'[q].host = h /\ req'[q].pc \in {"dial", "pin"} => req'[q].pin = hosts[h].pin
               /\ req[q].pc = "dial" /\ req[q].host = h /\ req'[q].pc = "open" =>
                    req'[q].seen = hosts[h].pin
    BY <1>0, <2>1 DEF RevealConn, Becomes, Idle, rowVars
  <2>2. ASSUME NEW phrase \in Phrases \cup {None}, NEW g \in Hosts, TestHost(q, g, phrase)
        PROVE  /\ hosts'[h].pin = hosts[h].pin
               /\ \A p \in Requests \ {q} : req'[p] = req[p]
               /\ req'[q].host = h /\ req'[q].pc \in {"dial", "pin"} => req'[q].pin = hosts[h].pin
               /\ req[q].pc = "dial" /\ req[q].host = h /\ req'[q].pc = "open" =>
                    req'[q].seen = hosts[h].pin
    BY <1>0, <2>2 DEF TestHost, Becomes, Idle, rowVars
  <2>3. CASE RevealHost(q)
    BY <1>0, <2>3 DEF RevealHost, Becomes, Request, rowVars
  <2>4. ASSUME NEW k \in HostKeys, Dial(q, k)
        PROVE  /\ hosts'[h].pin = hosts[h].pin
               /\ \A p \in Requests \ {q} : req'[p] = req[p]
               /\ req'[q].host = h /\ req'[q].pc \in {"dial", "pin"} => req'[q].pin = hosts[h].pin
               /\ req[q].pc = "dial" /\ req[q].host = h /\ req'[q].pc = "open" =>
                    req'[q].seen = hosts[h].pin
    BY <1>0, <2>0, <2>4 DEF Dial, Becomes, Opened, Idle, Request, rowVars
  <2>5. CASE Pin(q)
    <3>1. req[q].host # h
      BY <1>0, <2>0, <2>5 DEF Pin, Carries
    <3> QED
      BY <1>0, <2>5, <3>1 DEF Pin, Becomes, Opened, Idle
  <2>6. CASE PinFails(q)
    BY <1>0, <2>6 DEF PinFails, Becomes, Opened, Idle, rowVars
  <2>7. CASE Return(q)
    BY <1>0, <2>7 DEF Return, Becomes, Idle, rowVars
  <2> QED
    BY <1>4, <2>1, <2>2, <2>3, <2>4, <2>5, <2>6, <2>7 DEF Connect
<1>5. CASE \E q \in Requests : Connect(q)
  BY <1>4, <1>5 DEF Behind
<1> QED
  BY <1>1, <1>2, <1>3, <1>5 DEF Next

\* Trust on first use: once a pin is there and nobody who started before it is
\* left, it stays and is verified.
THEOREM TrustOnFirstUse == Spec => PinHolds
<1>1. IInv /\ [Next]_vars =>
        [\A h \in Hosts : hosts[h].pin # None /\ ~ Behind(h) =>
           /\ Live(hosts[h])' => hosts'[h].pin = hosts[h].pin /\ ~ Behind(h)'
           /\ \A q \in Requests : req[q].pc = "dial" /\ req[q].host = h /\ req'[q].pc = "open"
                 => req'[q].seen = hosts[h].pin]_vars
  BY PinStep
<1> QED
  BY <1>1, Inductive, PTL DEF Spec, PinHolds

\* DeleteSSHHost never takes the bastion of a connection away.
THEOREM HostsStay == Spec => []NoDanglingHost
<1>1. IInv => NoDanglingHost
  BY DEF IInv, RowInv, NoDanglingHost
<1> QED
  BY <1>1, Inductive, PTL
=============================================================================
