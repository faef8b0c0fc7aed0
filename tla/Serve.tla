-------------------------------- MODULE Serve --------------------------------
(***************************************************************************)
(* The life of the serve command (cmd/labsso/serve.go): bind the HTTPS and *)
(* management listeners, report readiness, run one goroutine per server,   *)
(* leave on a signal or when a server stops, and shut both servers down    *)
(* within a time limit.                                                    *)
(*                                                                         *)
(* net/http is external: Serve returns once its listener fails or its      *)
(* server is shut down, closing the listener; Shutdown closes the listener *)
(* and waits for the handlers; Close aborts them.  A handler may hang.     *)
(***************************************************************************)
EXTENDS Naturals, Sequences, FiniteSets

CONSTANTS
    MaxHandlers         \* bound on the handlers a server runs at a time

ASSUME ServeAssumption == MaxHandlers \in Nat

AllServers == {"https", "management"}
ErrBuffer == 2      \* make(chan error, 2)

VARIABLES
    managed,        \* FALSE for --management-listen=off
    main,           \* where runServe is
    snapshot,       \* a snapshot is installed
    requireHTTPS, httpsBound,   \* the readiness flags of App
    listener,       \* each server's listener: unbound, open or closed
    goroutine,      \* each server's goroutine: none, serving, sending or done
    stopping,       \* each server's state: up, shutdown or closed
    handlers,       \* handlers each server is running
    errCh,          \* results the goroutines have sent
    signal,         \* SIGINT or SIGTERM was received
    timeout,        \* the shutdown timeout has passed
    status          \* exit status: 0, 1, 2 for bad usage, or 3 while the process runs

vars == <<managed, main, snapshot, requireHTTPS, httpsBound, listener, goroutine, stopping,
          handlers, errCh, signal, timeout, status>>

\* The servers that this process runs.
Servers == IF managed THEN AllServers ELSE {"https"}

Labels == {"bootstrap", "validate", "flags", "bindHTTPS", "bindManagement", "ready", "start",
           "select", "unready", "shutdown", "exit"}
Running == 3

TypeOK ==
    /\ managed \in BOOLEAN /\ main \in Labels
    /\ {snapshot, requireHTTPS, httpsBound, signal, timeout} \subseteq BOOLEAN
    /\ listener \in [AllServers -> {"unbound", "open", "closed"}]
    /\ goroutine \in [AllServers -> {"none", "serving", "sending", "done"}]
    /\ stopping \in [AllServers -> {"up", "shutdown", "closed"}]
    /\ handlers \in [AllServers -> 0 .. MaxHandlers]
    /\ \A s \in AllServers \ Servers : goroutine[s] = "none" /\ listener[s] = "unbound"
    /\ errCh \in Seq(Servers) /\ Len(errCh) <= ErrBuffer
    /\ status \in {0, 1, 2, Running}

Init ==
    /\ managed \in BOOLEAN
    /\ main = "bootstrap"
    /\ snapshot = FALSE /\ requireHTTPS = FALSE /\ httpsBound = FALSE
    /\ listener = [s \in AllServers |-> "unbound"]
    /\ goroutine = [s \in AllServers |-> "none"]
    /\ stopping = [s \in AllServers |-> "up"]
    /\ handlers = [s \in AllServers |-> 0]
    /\ errCh = <<>>
    /\ signal = FALSE /\ timeout = FALSE
    /\ status = Running

HealthReady == snapshot /\ (requireHTTPS => httpsBound)

-----------------------------------------------------------------------------
(* The main goroutine.                                                     *)

servers == <<goroutine, stopping, handlers, errCh>>
world == <<signal, timeout, managed>>

Exit(code) == main' = "exit" /\ status' = code

\* An invalid bootstrap does not listen; without a configuration path there
\* is nothing to install.
InstallBootstrap ==
    /\ main = "bootstrap"
    /\ \/ snapshot' = TRUE /\ main' = "validate" /\ UNCHANGED status
       \/ (Exit(1) \/ Exit(2)) /\ UNCHANGED snapshot
    /\ UNCHANGED <<requireHTTPS, httpsBound, listener, servers, world>>

\* A bad address or shutdown timeout is bad usage; a pid file that cannot be
\* written is an error.  Signals are caught from here on.
Validate ==
    /\ main = "validate"
    /\ \/ main' = "flags" /\ UNCHANGED status
       \/ Exit(1) \/ Exit(2)
    /\ UNCHANGED <<snapshot, requireHTTPS, httpsBound, listener, servers, world>>

SetFlags ==
    /\ main = "flags"
    /\ requireHTTPS' = TRUE /\ httpsBound' = FALSE
    /\ main' = "bindHTTPS"
    /\ UNCHANGED <<snapshot, listener, servers, world, status>>

\* A listener that cannot be bound ends runServe, and so does what is checked
\* before it: the addresses, the TLS key pair, the management handlers.
Bind(s, next) ==
    /\ \/ listener' = [listener EXCEPT ![s] = "open"] /\ main' = next /\ UNCHANGED status
       \/ /\ listener' = [t \in AllServers |-> IF listener[t] = "open" THEN "closed" ELSE listener[t]]
          /\ Exit(1)
    /\ UNCHANGED <<snapshot, requireHTTPS, httpsBound, servers, world>>

BindHTTPS ==
    main = "bindHTTPS" /\ Bind("https", IF managed THEN "bindManagement" ELSE "ready")
BindManagement == main = "bindManagement" /\ Bind("management", "ready")

SetBound ==
    /\ main = "ready"
    /\ httpsBound' = TRUE
    /\ main' = "start"
    /\ UNCHANGED <<snapshot, requireHTTPS, listener, servers, world, status>>

\* Mutant: the management server is started although it is off.
StartServersAlways ==
    /\ main = "start"
    /\ goroutine' = [s \in AllServers |-> "serving"]
    /\ main' = "select"
    /\ UNCHANGED <<snapshot, requireHTTPS, httpsBound, listener, stopping, handlers, errCh,
                   world, status>>

StartServers ==
    /\ main = "start"
    /\ goroutine' = [s \in AllServers |-> IF s \in Servers THEN "serving" ELSE "none"]
    /\ main' = "select"
    /\ UNCHANGED <<snapshot, requireHTTPS, httpsBound, listener, stopping, handlers, errCh,
                   world, status>>

\* A signal ends the process with status 0, a server's error with status 1.
Select ==
    /\ main = "select"
    /\ \/ signal /\ status' = 0 /\ UNCHANGED errCh
       \/ errCh # <<>> /\ errCh' = Tail(errCh) /\ status' = 1
    /\ main' = "unready"
    /\ UNCHANGED <<snapshot, requireHTTPS, httpsBound, listener, goroutine, stopping, handlers,
                   world>>

\* Mutant: readiness is not withdrawn.
UnreadyLater ==
    /\ main = "unready"
    /\ main' = "shutdown"
    /\ UNCHANGED <<snapshot, requireHTTPS, httpsBound, listener, servers, world, status>>

Unready ==
    /\ main = "unready"
    /\ httpsBound' = FALSE
    /\ main' = "shutdown"
    /\ UNCHANGED <<snapshot, requireHTTPS, listener, servers, world, status>>

\* Both servers are shut down concurrently.
Shutdown(s) ==
    /\ main = "shutdown" /\ stopping[s] = "up"
    /\ stopping' = [stopping EXCEPT ![s] = "shutdown"]
    /\ listener' = [listener EXCEPT ![s] = "closed"]
    /\ UNCHANGED <<main, snapshot, requireHTTPS, httpsBound, goroutine, handlers, errCh,
                   world, status>>

\* Mutant: a handler that hangs is waited for.
ShutdownReturnsDrained(s) ==
    /\ main = "shutdown" /\ stopping[s] = "shutdown"
    /\ handlers[s] = 0
    /\ stopping' = [stopping EXCEPT ![s] = "closed"]
    /\ UNCHANGED <<main, snapshot, requireHTTPS, httpsBound, listener, goroutine, handlers,
                   errCh, world, status>>

\* Mutant: the server is closed without a grace period.
ShutdownReturnsAtOnce(s) ==
    /\ main = "shutdown" /\ stopping[s] = "shutdown"
    /\ stopping' = [stopping EXCEPT ![s] = "closed"]
    /\ UNCHANGED <<main, snapshot, requireHTTPS, httpsBound, listener, goroutine, handlers,
                   errCh, world, status>>

\* Shutdown returns when the handlers are done, or at the timeout, when Close
\* cuts their connections.
ShutdownReturns(s) ==
    /\ main = "shutdown" /\ stopping[s] = "shutdown"
    /\ handlers[s] = 0 \/ timeout
    /\ stopping' = [stopping EXCEPT ![s] = "closed"]
    /\ UNCHANGED <<main, snapshot, requireHTTPS, httpsBound, listener, goroutine, handlers,
                   errCh, world, status>>

\* wg.Wait, then the deferred closes.
Wait ==
    /\ main = "shutdown" /\ \A s \in Servers : stopping[s] = "closed"
    /\ main' = "exit"
    /\ listener' = [s \in AllServers |-> IF s \in Servers THEN "closed" ELSE listener[s]]
    /\ UNCHANGED <<snapshot, requireHTTPS, httpsBound, servers, world, status>>

-----------------------------------------------------------------------------
(* The server goroutines, the handlers and the surroundings.               *)

unaffected == <<main, snapshot, requireHTTPS, httpsBound, status>>

\* The listener fails, or the server was shut down.
ServeReturns(s) ==
    /\ goroutine[s] = "serving"
    /\ goroutine' = [goroutine EXCEPT ![s] = "sending"]
    /\ listener' = [listener EXCEPT ![s] = "closed"]
    /\ UNCHANGED <<unaffected, stopping, handlers, errCh, world>>

\* Mutant: an unbuffered channel, which nobody reads after the select.
SendUnbuffered(s) ==
    /\ goroutine[s] = "sending" /\ main = "select" /\ errCh = <<>>
    /\ errCh' = Append(errCh, s)
    /\ goroutine' = [goroutine EXCEPT ![s] = "done"]
    /\ UNCHANGED <<unaffected, listener, stopping, handlers, world>>

Send(s) ==
    /\ goroutine[s] = "sending" /\ Len(errCh) < ErrBuffer
    /\ errCh' = Append(errCh, s)
    /\ goroutine' = [goroutine EXCEPT ![s] = "done"]
    /\ UNCHANGED <<unaffected, listener, stopping, handlers, world>>

Accept(s) ==
    /\ goroutine[s] = "serving" /\ stopping[s] = "up" /\ listener[s] = "open"
    /\ handlers[s] < MaxHandlers
    /\ handlers' = [handlers EXCEPT ![s] = @ + 1]
    /\ UNCHANGED <<unaffected, listener, goroutine, stopping, errCh, world>>

HandlerReturns(s) ==
    /\ handlers[s] > 0 /\ main # "exit"
    /\ handlers' = [handlers EXCEPT ![s] = @ - 1]
    /\ UNCHANGED <<unaffected, listener, goroutine, stopping, errCh, world>>

Signal ==
    /\ main \notin {"bootstrap", "validate", "exit"} /\ ~signal
    /\ signal' = TRUE
    /\ UNCHANGED <<unaffected, listener, servers, timeout, managed>>

\* The clock of the shutdown context starts when shutdown does.
Timeout ==
    /\ main = "shutdown" /\ ~timeout
    /\ timeout' = TRUE
    /\ UNCHANGED <<unaffected, listener, servers, signal, managed>>

Stopped == main = "exit" /\ UNCHANGED vars

Main ==
    \/ InstallBootstrap \/ Validate \/ SetFlags \/ BindHTTPS \/ BindManagement
    \/ SetBound \/ StartServers \/ Select \/ Unready
    \/ (\E s \in Servers : Shutdown(s) \/ ShutdownReturns(s)) \/ Wait

Next ==
    \/ Main \/ Signal \/ Timeout \/ Stopped
    \/ \E s \in Servers : ServeReturns(s) \/ Send(s) \/ Accept(s) \/ HandlerReturns(s)

\* Go schedules every runnable goroutine, the timer fires, and Serve returns
\* once its server is shut down.  Nothing makes a handler return, a listener
\* fail or a signal arrive.
Fairness ==
    /\ WF_vars(Main)
    /\ WF_vars(Timeout)
    /\ \A s \in AllServers : /\ WF_vars(Send(s))
                             /\ WF_vars(stopping[s] # "up" /\ ServeReturns(s))

Spec == Init /\ [][Next]_vars /\ Fairness

-----------------------------------------------------------------------------
(* Properties.                                                             *)

\* A ready report is true of the HTTPS listener unless its server has just
\* failed and the main goroutine is about to learn of it.
ReadyMeansBound ==
    HealthReady /\ requireHTTPS =>
        listener["https"] = "open" \/ goroutine["https"] \in {"sending", "done"}

\* A signal or a server that stops ends the process, even if a handler hangs.
Terminates ==
    (signal \/ \E s \in Servers : goroutine[s] = "sending") ~> (main = "exit")

\* No server goroutine outlives the shutdown: each gets its result sent,
\* although the main goroutine reads at most one.
NoLeakedGoroutine ==
    (main = "exit") ~> (\A s \in Servers : goroutine[s] \in {"none", "done"})

\* The readiness report is withdrawn after the HTTPS server is gone.
ReadinessWithdrawn ==
    (goroutine["https"] = "sending") ~> ~HealthReady

\* The process leaves with every listener closed, and with handlers still
\* running only after the timeout.
CleanExit ==
    main = "exit" =>
        /\ \A s \in Servers : listener[s] # "open" /\ (handlers[s] = 0 \/ timeout)
        /\ status # Running

=============================================================================
