--------------------------------- MODULE Vault ---------------------------------
(***************************************************************************)
(* What is kept under the master key, and the bastions it leads to:        *)
(* crypto.Chain and its loaders at every start of `dbil serve`,            *)
(* store.SSHHostsRepo and store.ConnectionsRepo, whose secrets are sealed  *)
(* under the key loaded then, and the trust on first use of postgres'      *)
(* openTunnel.  A start loads the key twice, and only the first load is    *)
(* held against the audit log; a connect reads the pinned fingerprint,     *)
(* dials and writes the pin in steps of their own.                         *)
(***************************************************************************)
EXTENDS Naturals, FiniteSets

CONSTANTS
    MasterKeys,  \* 32-byte keys; bounds how many can be generated
    Phrases,     \* passphrases
    Hosts,       \* ssh_hosts ids (AUTOINCREMENT: an id is never used again)
    AliasOf,     \* the alias each of them is created with
    AddressOf,   \* its host and port: no handler updates them
    Addresses,
    HostKeys,    \* fingerprints
    KeysOf,      \* the ones that whatever answers at an address presents over time
    Conns,       \* connections ids that get an ssh_host_id
    Requests,    \* HTTP requests and collector ticks in flight
    None

ASSUME VaultAssumption ==
    /\ AddressOf \in [Hosts -> Addresses]
    /\ KeysOf \in [Addresses -> SUBSET HostKeys]
    /\ None \notin MasterKeys \cup Phrases \cup Hosts \cup HostKeys

VARIABLES
    source,   \* the key file, the environment variable, DataDir/master.key
    boot,     \* the process: down, in RunInit, or serving
    mk,       \* the master key its repositories hold
    log,      \* the keys the audit entries are sealed under
    steady,   \* history: no start had its key replaced between its two loads
    hosts,    \* the ssh_hosts table
    conns,    \* the connections table
    req       \* each request

keyVars == <<source, boot, mk, log, steady>>
rowVars == <<hosts, conns>>
vars    == <<keyVars, rowVars, req>>

Sources  == {"file", "env", "auto"}
Source   == [state : {"absent", "ok", "broken"}, key : MasterKeys \cup {None}]
RowState == {"unused", "live", "deleted"}

\* A row's secret is sealed under a master key and, perhaps, a passphrase.
Seal == [state : RowState, mk : MasterKeys \cup {None}, phrase : Phrases \cup {None}]
Host == [seal : Seal, pin : HostKeys \cup {None}]
Conn == [seal : Seal, via : Hosts \cup {None}]

\* host: the bastion it goes to; pin: the fingerprint Reveal returned;
\* seen: the one the server presented.
Request == [pc : {"idle", "host", "dial", "pin", "open"}, host : Hosts \cup {None},
            phrase : Phrases \cup {None}, pin : HostKeys \cup {None},
            seen : HostKeys \cup {None}]

NoSeal(state) == [state |-> state, mk |-> None, phrase |-> None]
NoHost(state) == [seal |-> NoSeal(state), pin |-> None]
NoConn(state) == [seal |-> NoSeal(state), via |-> None]
Idle == [pc |-> "idle", host |-> None, phrase |-> None, pin |-> None, seen |-> None]

TypeOK ==
    /\ source \in [Sources -> Source]
    /\ boot \in {"down", "init", "up"}
    /\ mk \in MasterKeys \cup {None}
    /\ log \in SUBSET MasterKeys
    /\ steady \in BOOLEAN
    /\ hosts \in [Hosts -> Host]
    /\ conns \in [Conns -> Conn]
    /\ req \in [Requests -> Request]

\* A new data directory, with a key configured or not.
Init ==
    /\ \E f, e \in MasterKeys \cup {None} :
         source = [s \in Sources |->
                     LET k == CASE s = "file" -> f [] s = "env" -> e [] OTHER -> None
                     IN  [state |-> IF k = None THEN "absent" ELSE "ok", key |-> k]]
    /\ boot = "down"
    /\ mk = None
    /\ log = {}
    /\ steady = TRUE
    /\ hosts = [h \in Hosts |-> NoHost("unused")]
    /\ conns = [c \in Conns |-> NoConn("unused")]
    /\ req = [q \in Requests |-> Idle]

-----------------------------------------------------------------------------
(* The master key. *)

\* The loader the chain stops at: the first that does not report
\* ErrLoaderUnavailable (KMS, keychain and TTY always do).
Stops(src) ==
    CASE src["file"].state # "absent" -> "file"
      [] src["env"].state # "absent"  -> "env"
      [] OTHER                        -> "auto"

\* The key that is configured, readable or not.
Configured(src) == src[Stops(src)].key

\* The keys there are: a generated one is none of them.
InUse == {source[s].key : s \in Sources} \cup {mk} \cup log
            \cup {hosts[h].seal.mk : h \in Hosts} \cup {conns[c].seal.mk : c \in Conns}

\* Faulty variant: the chain goes on after any error of a loader.
LoadSkipsBroken(k) ==
    LET Broken == {s \in Sources : source[s].state = "broken"}
        rest   == [s \in Sources |-> IF s \in Broken THEN [state |-> "absent", key |-> None]
                                                     ELSE source[s]]
    IN  \/ /\ rest[Stops(rest)] = [state |-> "ok", key |-> k]
           /\ source' = source
        \/ /\ rest[Stops(rest)].state = "absent"
           /\ k \notin InUse
           /\ source' = [source EXCEPT !["auto"] = [state |-> "ok", key |-> k]]

\* Chain.Load returns k.  A key file that is there and too short ends the
\* chain with an error; AutoLoader persists what it generates before it
\* returns it, by a rename.
Load(k) ==
    \/ /\ source[Stops(source)] = [state |-> "ok", key |-> k]
       /\ source' = source
    \/ /\ source[Stops(source)].state = "absent"
       /\ k \notin InUse
       /\ source' = [source EXCEPT !["auto"] = [state |-> "ok", key |-> k]]

\* RunInit: its load, then the genesis entry in an empty log, or VerifyChain,
\* which decrypts every entry.
BootInit(k) ==
    /\ boot = "down"
    /\ Load(k)
    /\ log \subseteq {k}
    /\ log' = {k}
    /\ boot' = "init"
    /\ UNCHANGED <<mk, steady, rowVars, req>>

\* The load in serveCmd, for the repositories.
BootServe(k) ==
    /\ boot = "init"
    /\ Load(k)
    /\ boot' = "up"
    /\ mk' = k
    /\ UNCHANGED <<log, steady, rowVars, req>>

\* A start that ends after one of its loads: VerifyChain fails, an error, a crash.
BootFails(k) ==
    /\ boot # "up"
    /\ Load(k)
    /\ boot' = "down"
    /\ UNCHANGED <<mk, log, steady, rowVars, req>>

\* The process ends: an error of a load, a crash, a signal.
Stop ==
    /\ boot # "down"
    /\ boot' = "down"
    /\ mk' = None
    /\ req' = [q \in Requests |-> Idle]
    /\ UNCHANGED <<source, log, steady, rowVars>>

\* AuditRepo.Append of any handler (AuditLog says when it fails).
Append ==
    /\ boot = "up"
    /\ log' = log \cup {mk}
    /\ UNCHANGED <<source, boot, mk, steady, rowVars, req>>

\* The operator gives a source another key (k), or none.  A process keeps its
\* environment.
Provision(s, k) ==
    /\ s = "env" => boot = "down"
    /\ source[s].key # k
    /\ source' = [source EXCEPT ![s] = [state |-> IF k = None THEN "absent" ELSE "ok",
                                        key |-> k]]
    /\ steady' = (steady /\ (boot = "init" => Configured(source') = Configured(source)))
    /\ UNCHANGED <<boot, mk, log, rowVars, req>>

\* A key becomes unreadable (truncated, wrong permissions), or readable again.
Damage(s) ==
    /\ s = "env" => boot = "down"
    /\ source[s].state # "absent"
    /\ source' = [source EXCEPT ![s].state = IF @ = "ok" THEN "broken" ELSE "ok"]
    /\ UNCHANGED <<boot, mk, log, steady, rowVars, req>>

-----------------------------------------------------------------------------
(* The tables. *)

Live(r) == r.seal.state = "live"

\* A fresh DEK under the master key seals the secret, or a key derived from the
\* passphrase does.
Sealed(phrase) == [state |-> "live", mk |-> mk, phrase |-> phrase]

\* The DEK unwraps under the key of this process, and the secret under it or
\* under the passphrase that was sent.
Unseals(seal, phrase) ==
    /\ seal.mk = mk
    /\ seal.phrase \in {None, phrase}

\* Reveal returns the row's secret.
Opens(r, phrase) == Live(r) /\ Unseals(r.seal, phrase)

\* POST /api/ssh-hosts: alias is UNIQUE.
CreateHost(h, phrase) ==
    /\ boot = "up"
    /\ hosts[h].seal.state = "unused"
    /\ \A g \in Hosts : Live(hosts[g]) => AliasOf[g] # AliasOf[h]
    /\ hosts' = [hosts EXCEPT ![h] = [seal |-> Sealed(phrase), pin |-> None]]
    /\ UNCHANGED <<keyVars, conns, req>>

\* DELETE /api/ssh-hosts/{id}: connections.ssh_host_id is ON DELETE RESTRICT.
DeleteHost(h) ==
    /\ boot = "up"
    /\ Live(hosts[h])
    /\ ~ \E c \in Conns : Live(conns[c]) /\ conns[c].via = h
    /\ hosts' = [hosts EXCEPT ![h] = NoHost("deleted")]
    /\ UNCHANGED <<keyVars, conns, req>>

\* POST /api/connections with an ssh_host_id.
CreateConn(c, h, phrase) ==
    /\ boot = "up"
    /\ conns[c].seal.state = "unused"
    /\ Live(hosts[h])
    /\ conns' = [conns EXCEPT ![c] = [seal |-> Sealed(phrase), via |-> h]]
    /\ UNCHANGED <<keyVars, hosts, req>>

DeleteConn(c) ==
    /\ boot = "up"
    /\ Live(conns[c])
    /\ conns' = [conns EXCEPT ![c] = NoConn("deleted")]
    /\ UNCHANGED <<keyVars, hosts, req>>

-----------------------------------------------------------------------------
(* The bastions. *)

Becomes(q, r) == req' = [req EXCEPT ![q] = r]
Opened(h, k)  == [Idle EXCEPT !.pc = "open", !.host = h, !.seen = k]

\* OpenByID finds no pool and reveals the connection.
RevealConn(q, c, phrase) ==
    /\ boot = "up"
    /\ req[q].pc = "idle"
    /\ Opens(conns[c], phrase)
    /\ Becomes(q, [Idle EXCEPT !.pc = "host", !.host = conns[c].via, !.phrase = phrase])
    /\ UNCHANGED <<keyVars, rowVars>>

\* openTunnelFor reveals its bastion, with the connection's passphrase.
RevealHost(q) ==
    /\ req[q].pc = "host"
    /\ Opens(hosts[req[q].host], req[q].phrase)
    /\ Becomes(q, [req[q] EXCEPT !.pc = "dial", !.phrase = None, !.pin = hosts[req[q].host].pin])
    /\ UNCHANGED <<keyVars, rowVars>>

\* POST /api/ssh-hosts/{id}/test reveals the bastion.
TestHost(q, h, phrase) ==
    /\ boot = "up"
    /\ req[q].pc = "idle"
    /\ Opens(hosts[h], phrase)
    /\ Becomes(q, [Idle EXCEPT !.pc = "dial", !.host = h, !.pin = hosts[h].pin])
    /\ UNCHANGED <<keyVars, rowVars>>

\* Faulty variant: the callback only takes note of the fingerprint.
DialBlindly(q, k) ==
    /\ req[q].pc = "dial"
    /\ k \in KeysOf[AddressOf[req[q].host]]
    /\ Becomes(q, IF req[q].pin = None THEN [req[q] EXCEPT !.pc = "pin", !.seen = k]
                                      ELSE Opened(req[q].host, k))
    /\ UNCHANGED <<keyVars, rowVars>>

\* openTunnel: whatever answers at the address presents key k; one that is not
\* the pinned one ends the handshake.
Dial(q, k) ==
    /\ req[q].pc = "dial"
    /\ k \in KeysOf[AddressOf[req[q].host]]
    /\ req[q].pin \in {None, k}
    /\ Becomes(q, IF req[q].pin = None THEN [req[q] EXCEPT !.pc = "pin", !.seen = k]
                                      ELSE Opened(req[q].host, k))
    /\ UNCHANGED <<keyVars, rowVars>>

\* Faulty variant: the pin is written to the host that has the alias.
PinByAlias(q) ==
    /\ req[q].pc = "pin"
    /\ hosts' = [h \in Hosts |->
                   IF Live(hosts[h]) /\ AliasOf[h] = AliasOf[req[q].host]
                   THEN [hosts[h] EXCEPT !.pin = req[q].seen] ELSE hosts[h]]
    /\ Becomes(q, Opened(req[q].host, req[q].seen))
    /\ UNCHANGED <<keyVars, conns>>

\* SetFingerprint, by id, whatever the pin is by now.
Pin(q) ==
    /\ req[q].pc = "pin"
    /\ hosts' = IF Live(hosts[req[q].host])
                THEN [hosts EXCEPT ![req[q].host].pin = req[q].seen] ELSE hosts
    /\ Becomes(q, Opened(req[q].host, req[q].seen))
    /\ UNCHANGED <<keyVars, conns>>

\* It fails, and the caller goes on all the same.
PinFails(q) ==
    /\ req[q].pc = "pin"
    /\ Becomes(q, Opened(req[q].host, req[q].seen))
    /\ UNCHANGED <<keyVars, rowVars>>

\* A refusal or an error; or the tunnel is closed again.
Return(q) ==
    /\ req[q].pc \in {"host", "dial", "open"}
    /\ Becomes(q, Idle)
    /\ UNCHANGED <<keyVars, rowVars>>

-----------------------------------------------------------------------------
Start == \E k \in MasterKeys : BootInit(k) \/ BootServe(k) \/ BootFails(k)

Operate ==
    \E s \in Sources : Damage(s) \/ \E k \in MasterKeys \cup {None} : Provision(s, k)

Store ==
    \E phrase \in Phrases \cup {None} :
        \/ \E h \in Hosts : CreateHost(h, phrase)
        \/ \E c \in Conns, h \in Hosts : CreateConn(c, h, phrase)

Remove == (\E h \in Hosts : DeleteHost(h)) \/ (\E c \in Conns : DeleteConn(c))

Connect(q) ==
    \/ \E phrase \in Phrases \cup {None} :
         \/ \E c \in Conns : RevealConn(q, c, phrase)
         \/ \E h \in Hosts : TestHost(q, h, phrase)
    \/ RevealHost(q)
    \/ \E k \in HostKeys : Dial(q, k)
    \/ Pin(q)
    \/ PinFails(q)
    \/ Return(q)

Next == Start \/ Stop \/ Append \/ Operate \/ Store \/ Remove \/ \E q \in Requests : Connect(q)

Spec == Init /\ [][Next]_vars

-----------------------------------------------------------------------------
(* Properties. *)

\* Unless the key is replaced between the two loads of a start, all that is
\* stored is sealed under the one key that the audit log is sealed under, and the
\* process that is up holds it: nothing that is damaged, mended, replaced or
\* generated at any other time makes DBil serve, or write, under another.
OneKey ==
    steady =>
        /\ boot = "up" => log = {mk}
        /\ \A h \in Hosts : Live(hosts[h]) => log = {hosts[h].seal.mk}
        /\ \A c \in Conns : Live(conns[c]) => log = {conns[c].seal.mk}

\* A connect to h that read no pin, or one that is not the pin any more.
Behind(h) ==
    \E q \in Requests : /\ req[q].host = h
                        /\ req[q].pc \in {"dial", "pin"}
                        /\ req[q].pin # hosts[h].pin

\* "Bastion host keys are pinned on first connect and verified thereafter (no
\* blind trust)" (SECURITY.md), as far as it goes: once a key is pinned and no
\* connect that started before is left, the host keeps its pin and every tunnel
\* opened to the host from then on has presented it.
PinHolds ==
    [][\A h \in Hosts : hosts[h].pin # None /\ ~ Behind(h) =>
         /\ Live(hosts[h])' => hosts'[h].pin = hosts[h].pin /\ ~ Behind(h)'
         /\ \A q \in Requests : req[q].pc = "dial" /\ req[q].host = h /\ req'[q].pc = "open"
               => req'[q].seen = hosts[h].pin]_vars

\* A pin is a key of the machine at the host's own address, however hosts are
\* deleted and made anew under the same alias while a test is under way.
PinIsOwn ==
    \A h \in Hosts : hosts[h].pin # None => hosts[h].pin \in KeysOf[AddressOf[h]]
=============================================================================
