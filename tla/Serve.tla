--------------------------------- MODULE Serve ---------------------------------
(***************************************************************************)
(* `dbil serve`: the main goroutine that starts everything and closes the  *)
(* database and wipes the master key on its way out, the goroutine that    *)
(* waits for SIGTERM and shuts discovery, collectors, pools and the HTTP   *)
(* server down, the HTTP server, and the requests in flight meanwhile,     *)
(* composed with Collectors (and so with PoolManager).                     *)
(*                                                                         *)
(* http.Server.Serve returns as soon as Shutdown is called, so the main    *)
(* goroutine leaves while the other one still drains: from then on the     *)
(* database, the key and the process go away under the requests.           *)
(***************************************************************************)
EXTENDS Collectors

CONSTANTS
    Closer,     \* the shutdown goroutine; while it is not there, the main one
    Scanner     \* the discovery goroutine

ASSUME ServeAssumption ==
    /\ Closer \in Handlers
    /\ Scanner \notin Callers

Requests == Handlers \ {Closer}
Writers  == Requests \cup {Scanner}    \* who seals secrets under the master key

VARIABLES
    main,       \* the main goroutine
    db,         \* whether the connection pool of the database is open
    mk,         \* the bytes of the master key: what they were, or zeroes
    signalled,  \* whether the context of the command has ended
    closing,    \* the shutdown goroutine
    server,     \* Server.srv: nil, serving, or told to shut down
    inflight,   \* the requests the server has accepted and not yet answered
    scanner,    \* the discovery goroutine
    draft       \* the row a writer has sealed, and with which bytes as the key

processVars == <<main, db, mk>>
serveVars   == <<processVars, signalled, closing, server, inflight, scanner, draft>>
everyVars   == <<allVars, serveVars>>

Draft   == [at : {"none", "sealed", "begun"}, key : {"key", "zeroes"}]
NoDraft == [at |-> "none", key |-> "key"]

ServeTypeOK ==
    /\ CollectorsTypeOK
    /\ main \in {"boot", "listen", "serving", "returned", "exited"}
    /\ db \in {"open", "closed"}
    /\ mk \in {"key", "zeroes"}
    /\ signalled \in BOOLEAN
    /\ closing \in {"wait", "scanner", "runners", "pools", "drain", "over"}
    /\ server \in {"nil", "up", "down"}
    /\ inflight \subseteq Requests
    /\ scanner \in {"off", "loop", "done"}
    /\ draft \in [Writers -> Draft]

ServeInit ==
    /\ CollectorsInit
    /\ main = "boot"
    /\ db = "open"
    /\ mk = "key"
    /\ signalled = FALSE
    /\ closing = "wait"
    /\ server = "nil"
    /\ inflight = {}
    /\ scanner = "off"
    /\ draft = [w \in Writers |-> NoDraft]

\* The process is there, and so are its goroutines.
Up == main # "exited"

-----------------------------------------------------------------------------
(* The main goroutine. *)

\* A connection that was there already: its collector starts before anybody
\* can ask for it, as if the main goroutine had just created it.
BootConnection(i) ==
    /\ main = "boot"
    /\ CreateConnection(Closer, i)
    /\ UNCHANGED serveVars

BootStart ==
    /\ main = "boot"
    /\ StartRunner(Closer)
    /\ UNCHANGED serveVars

\* DBIL_DISCOVER may be off; the shutdown goroutine starts to wait.
Launch ==
    /\ main = "boot"
    /\ stage[Closer] = "none"
    /\ main' = "listen"
    /\ scanner' \in {"off", "loop"}
    /\ UNCHANGED <<allVars, db, mk, signalled, closing, server, inflight, draft>>

Listen ==
    /\ main = "listen"
    /\ main' = "serving"
    /\ server' = "up"
    /\ UNCHANGED <<allVars, db, mk, signalled, closing, inflight, scanner, draft>>

\* What srv.Start returns: the port is taken ...
ListenFails ==
    /\ main = "listen"
    /\ main' = "returned"
    /\ UNCHANGED <<allVars, db, mk, signalled, closing, server, inflight, scanner, draft>>

\* ... or ErrServerClosed.
ServeReturns ==
    /\ main = "serving"
    /\ server = "down"
    /\ main' = "returned"
    /\ UNCHANGED <<allVars, db, mk, signalled, closing, server, inflight, scanner, draft>>

\* Faulty variant: the two defers are swapped.
WindDownSwapped ==
    /\ main = "returned"
    /\ \/ mk = "key" /\ mk' = "zeroes" /\ UNCHANGED <<main, db>>
       \/ mk = "zeroes" /\ db = "open" /\ db' = "closed" /\ UNCHANGED <<main, mk>>
       \/ db = "closed" /\ main' = "exited" /\ UNCHANGED <<db, mk>>
    /\ UNCHANGED <<allVars, signalled, closing, server, inflight, scanner, draft>>

\* The deferred store.Close(db), from which on no statement begins; then the
\* deferred mk.Wipe(), which overwrites the key in place; then the process ends.
WindDown ==
    /\ main = "returned"
    /\ \/ db = "open" /\ db' = "closed" /\ UNCHANGED <<main, mk>>
       \/ db = "closed" /\ mk = "key" /\ mk' = "zeroes" /\ UNCHANGED <<main, db>>
       \/ mk = "zeroes" /\ main' = "exited" /\ UNCHANGED <<db, mk>>
    /\ UNCHANGED <<allVars, signalled, closing, server, inflight, scanner, draft>>

MainStep == Launch \/ Listen \/ ListenFails \/ ServeReturns \/ WindDown

-----------------------------------------------------------------------------
(* The signal, and the shutdown goroutine. *)

\* SIGINT or SIGTERM; a second one changes nothing.
Signal ==
    /\ Up
    /\ signalled' = TRUE
    /\ UNCHANGED <<allVars, processVars, closing, server, inflight, scanner, draft>>

ClosingTo(from, to) ==
    /\ Up
    /\ closing = from
    /\ closing' = to

\* discover.Manager.Shutdown, which does nothing when there is no discovery: it
\* cancels the loop ...
StopScanner ==
    /\ main # "boot"
    /\ signalled
    /\ ClosingTo("wait", "scanner")
    /\ UNCHANGED <<allVars, processVars, signalled, server, inflight, scanner, draft>>

\* ... and waits for the tick in flight.
JoinScanner ==
    /\ scanner # "loop"
    /\ ClosingTo("scanner", "runners")
    /\ UNCHANGED <<allVars, processVars, signalled, server, inflight, scanner, draft>>

\* observ.Manager.Shutdown, then postgres.Manager.Shutdown ...
CloseRunners ==
    /\ ClosingTo("runners", "pools")
    /\ ShutdownRunners(Closer)
    /\ UNCHANGED <<processVars, signalled, server, inflight, scanner, draft>>

\* ... step by step ...
CloseOn ==
    /\ Up
    /\ closing = "pools"
    /\ \/ StageStep(Closer)
       \/ stage[Closer] = "none" /\ CloseStep(Closer) /\ UNCHANGED <<runnerVars, stageVars>>
    /\ UNCHANGED serveVars


\* ... then srv.Shutdown.  Before Server.Serve has set srv it does nothing, and
\* what is served from then on no signal stops.
CloseServer ==
    /\ stage[Closer] = "none"
    /\ pc[Closer] = "idle"
    /\ ClosingTo("pools", IF server = "nil" THEN "over" ELSE "drain")
    /\ server' = IF server = "nil" THEN "nil" ELSE "down"
    /\ UNCHANGED <<allVars, processVars, signalled, inflight, scanner, draft>>

\* No request is left, or shutdownGracePeriod is over.
Drained ==
    /\ ClosingTo("drain", "over")
    /\ UNCHANGED <<allVars, processVars, signalled, server, inflight, scanner, draft>>

ClosingStep == StopScanner \/ JoinScanner \/ CloseRunners \/ CloseOn \/ CloseServer \/ Drained

-----------------------------------------------------------------------------
(* Sealing a secret and writing it. *)

\* Who may write now: a request that does nothing else, the tick of a scan.
MayWrite(w) ==
    IF w = Scanner THEN scanner = "loop"
    ELSE w \in inflight /\ pc[w] = "idle" /\ stage[w] = "none"

ToDraft(w, d) ==
    /\ Up
    /\ draft' = [draft EXCEPT ![w] = d]
    /\ UNCHANGED <<processVars, signalled, closing, server, inflight, scanner>>

\* WrapDEK, or the HKDF of discovered entries: it reads the bytes of the key,
\* which Wipe overwrites in place.
Seal(w) ==
    /\ MayWrite(w)
    /\ draft[w].at = "none"
    /\ ToDraft(w, [at |-> "sealed", key |-> mk])
    /\ UNCHANGED allVars

\* The INSERT reaches the database.
BeginWrite(w) ==
    /\ db = "open"
    /\ draft[w].at = "sealed"
    /\ ToDraft(w, [draft[w] EXCEPT !.at = "begun"])
    /\ UNCHANGED allVars

\* It is done, or it fails; which matters only for a connection's row.
EndWrite(w) ==
    /\ draft[w].at # "none"
    /\ ToDraft(w, NoDraft)
    /\ UNCHANGED allVars

\* The row of a connection is committed, and CreateConnection goes on.
Create(c, i) ==
    /\ draft[c].at = "begun"
    /\ ToDraft(c, NoDraft)
    /\ CreateConnection(c, i)

\* Cancelled, and its tick is over.
ScannerEnds ==
    /\ Up
    /\ closing = "scanner"
    /\ scanner = "loop"
    /\ draft[Scanner].at = "none"
    /\ scanner' = "done"
    /\ UNCHANGED <<allVars, processVars, signalled, closing, server, inflight, draft>>

-----------------------------------------------------------------------------
(* The requests. *)

Accept(c) ==
    /\ main = "serving"
    /\ server = "up"
    /\ c \notin inflight
    /\ inflight' = inflight \cup {c}
    /\ UNCHANGED <<allVars, processVars, signalled, closing, server, scanner, draft>>

Answer(c) ==
    /\ Up
    /\ c \in inflight
    /\ pc[c] = "idle"
    /\ stage[c] = "none"
    /\ draft[c].at = "none"
    /\ inflight' = inflight \ {c}
    /\ UNCHANGED <<allVars, processVars, signalled, closing, server, scanner, draft>>

\* Its DELETE reaches the database.
Delete(c, i) ==
    /\ MayWrite(c)
    /\ db = "open"
    /\ draft[c].at = "none"
    /\ DeleteConnection(c, i)
    /\ UNCHANGED serveVars

\* Reveal reads a row and unwraps its key.
RevealNeedsDb(c) == pc[c] = "reveal" /\ pc'[c] # "idle" => db = "open"

RequestStep(c) ==
    /\ Up
    /\ c \in inflight
    /\ draft[c].at = "none"
    /\ StageStep(c) \/ HandlerPoolStep(c)
    /\ RevealNeedsDb(c)
    /\ UNCHANGED serveVars

RunnerStep(r) ==
    /\ Up
    /\ Tick(r) \/ RunnerPoolStep(r) \/ Exit(r)
    /\ RevealNeedsDb(r)
    /\ UNCHANGED serveVars

-----------------------------------------------------------------------------
ServeNext ==
    \/ \E i \in Conns : BootConnection(i)
    \/ BootStart
    \/ MainStep
    \/ Signal
    \/ ClosingStep
    \/ \E w \in Writers : Seal(w) \/ BeginWrite(w) \/ EndWrite(w)
    \/ ScannerEnds
    \/ \E c \in Requests :
         \/ \E i \in Conns : Create(c, i) \/ Delete(c, i)
         \/ Accept(c)
         \/ Answer(c)
         \/ RequestStep(c)
    \/ \E r \in Runners : RunnerStep(r)

ServeSpec == ServeInit /\ [][ServeNext]_everyVars

\* Caller c is in openTunnel.  ssh.NewClientConn takes no context, and nothing
\* bounds it: neither the runner's cancel nor the middleware's Timeout ends it, and
\* ClientConfig.Timeout is only for ssh.Dial, although tunnel.go says of
\* sshDialTimeout that it "bounds the TCP+handshake".  A bastion that accepts and
\* then says nothing keeps the caller here for ever.
Dials(c) == pc[c] = "tunnel"
Hangs(c) == <>[](Dials(c) /\ Up)

Waits(c) == pc[c] \in {"idle", "hold", "tunnel"}

\* The next step of a call caller c has begun, other than the handshake with a
\* bastion, checking a connection out or giving the pool back.
GoesOn(c) ==
    IF c \in Runners THEN (life[c] = "new" \/ ~ Waits(c)) /\ RunnerStep(c)
    ELSE (stage[c] # "none" \/ ~ Waits(c)) /\ RequestStep(c)

GivesBack(c) ==
    /\ pc[c] = "hold"
    /\ IF c \in Runners THEN RunnerStep(c) ELSE RequestStep(c)
    /\ pc'[c] = "idle"

\* Goroutines run, writes and ticks of discovery end, and Go's select does not
\* favour the ticker of a cancelled runner for ever.  No handshake need ever end.
ServeFairness ==
    /\ WF_everyVars(BootStart \/ MainStep)
    /\ WF_everyVars(ClosingStep)
    /\ SF_everyVars(ScannerEnds)
    /\ WF_everyVars(EndWrite(Scanner))
    /\ \A c \in Callers \ {Closer} : WF_everyVars(GoesOn(c)) /\ SF_everyVars(GivesBack(c))
    /\ \A r \in Runners : SF_everyVars(RunnerStep(r) /\ Exit(r))

ServeFairSpec == ServeSpec /\ ServeFairness

-----------------------------------------------------------------------------
(* Properties. *)

\* mk.Wipe overwrites the key that every repository shares: no row that was
\* sealed with what is left ever reaches the database, although requests and the
\* scan (when the port is taken) run on meanwhile, for store.Close comes first.
SealedUnderTheKey ==
    \A w \in Writers : draft[w].at = "begun" => draft[w].key = "key"

\* When the HTTP server is told to stop, every collector that ran at the signal
\* has ended, every pool that was cached then is closed, and discovery is over:
\* what the end of the process cuts off was begun during the shutdown.
ShutdownInOrder ==
    server = "down" =>
        /\ scanner # "loop"
        /\ joins[Closer] = {} /\ deadPools[Closer] = {} /\ deadTunnels[Closer] = {}
        /\ closing \in {"drain", "over"}
        /\ \A r \in Runners : Alive(r) =>
             \/ runs[watches[r]] = r
             \/ \E c \in Requests : r \in joins[c]

\* srv.Shutdown came before the HTTP server was there, and was lost.
SignalLost == closing = "over" /\ server # "down"

\* A collector that hangs hangs whoever joins it.
ARunnerHangs == \E r \in Runners : Hangs(r)



\* "Shutdown asks the server to stop accepting new connections and waits up to
\* shutdownGracePeriod for in-flight requests to complete" (server.go): they
\* complete, or get their five seconds.
RequestsDrain ==
    main = "exited" /\ server = "down" => inflight = {} \/ closing = "over"
===============================================================================
