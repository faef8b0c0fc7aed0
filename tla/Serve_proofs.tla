---------------------------- MODULE Serve_proofs ----------------------------
(***************************************************************************)
(* What holds of the serve command however its servers, handlers, signal   *)
(* and shutdown timer interleave, and for every number of handlers.        *)
(*                                                                         *)
(* The readiness flag, the listeners and the goroutines are changed in     *)
(* different places; the main goroutine's position ties them together:     *)
(* before the servers start nothing runs, from then on the HTTPS listener  *)
(* is open as long as its server serves and no shutdown has begun, and the *)
(* flag is up only in between (Stages).  A server that was shut down has   *)
(* no handlers unless the time was up (Drained).                           *)
(***************************************************************************)
EXTENDS Serve, SequenceTheorems, TLAPS

\* Before the servers are started ...
Early == {"bootstrap", "validate", "flags", "bindHTTPS", "bindManagement", "ready", "start"}

Stages ==
    /\ main \in Early =>
         \A s \in AllServers : goroutine[s] = "none" /\ handlers[s] = 0
    /\ main \in {"bootstrap", "validate", "flags", "bindHTTPS"} =>
         \A s \in AllServers : listener[s] = "unbound"
    /\ main = "bindManagement" => managed
    /\ main \in {"bindManagement", "ready", "start"} => listener["https"] = "open"
    /\ main \in {"select", "unready"} =>
         /\ goroutine["https"] # "none"
         /\ goroutine["https"] = "serving" => listener["https"] = "open"
    /\ httpsBound => main \in {"start", "select", "unready"}
    /\ main \in {"unready", "shutdown"} => status # Running

\* ... and when they have stopped.
Drained ==
    \A s \in AllServers : stopping[s] = "closed" => handlers[s] = 0 \/ timeout

SInv == TypeOK /\ Stages /\ Drained /\ ReadyMeansBound /\ CleanExit

\* The invariant holds when the process starts.
LEMMA ServeInit == Init => SInv
<1> SUFFICES ASSUME Init PROVE SInv
  OBVIOUS
<1>1. TypeOK
  <2>1. errCh \in Seq(Servers) /\ Len(errCh) <= ErrBuffer
    BY DEF Init, ErrBuffer
  <2>2. handlers \in [AllServers -> 0 .. MaxHandlers]
    BY ServeAssumption DEF Init
  <2>3. {snapshot, requireHTTPS, httpsBound, signal, timeout} \subseteq BOOLEAN
    BY Zenon DEF Init
  <2> QED BY <2>1, <2>2, <2>3 DEF Init, TypeOK, Labels, Running
<1>2. Stages /\ Drained /\ ReadyMeansBound /\ CleanExit
  BY DEF Init, Stages, Drained, ReadyMeansBound, HealthReady, CleanExit, AllServers, Early
<1> QED BY <1>1, <1>2 DEF SInv

\* The steps of the main goroutine before the servers run.
LEMMA BindSteps ==
    ASSUME SInv,
           \/ InstallBootstrap \/ Validate \/ SetFlags
           \/ BindHTTPS \/ BindManagement \/ SetBound
    PROVE  SInv'
<1>1. UNCHANGED <<goroutine, stopping, handlers, errCh, signal, timeout, managed>>
  BY DEF InstallBootstrap, Validate, SetFlags, BindHTTPS, BindManagement, Bind, SetBound,
     servers, world
<1>2. Servers' = Servers /\ Servers \subseteq AllServers /\ "https" \in Servers
      /\ (managed => "management" \in Servers)
  BY <1>1 DEF Servers, AllServers
<1>3. TypeOK'
  <2>1. {snapshot', requireHTTPS', httpsBound', signal', timeout'} \subseteq BOOLEAN
    <3>1. /\ snapshot \in BOOLEAN /\ requireHTTPS \in BOOLEAN /\ httpsBound \in BOOLEAN
          /\ signal \in BOOLEAN /\ timeout \in BOOLEAN
      BY DEF SInv, TypeOK
    <3>2. /\ snapshot' \in BOOLEAN /\ requireHTTPS' \in BOOLEAN /\ httpsBound' \in BOOLEAN
          /\ signal' \in BOOLEAN /\ timeout' \in BOOLEAN
      BY <1>1, <3>1, Zenon DEF InstallBootstrap, Validate, SetFlags, BindHTTPS,
         BindManagement, Bind,
         SetBound
    <3> QED BY <3>2, Zenon
  <2>2. /\ listener' \in [AllServers -> {"unbound", "open", "closed"}]
        /\ \A s \in AllServers \ Servers' : listener'[s] = "unbound"
    BY <1>1, <1>2 DEF SInv, TypeOK, InstallBootstrap, Validate, SetFlags, BindHTTPS, BindManagement,
       Bind, SetBound, Stages
  <2>3. main' \in Labels /\ status' \in {0, 1, 2, Running}
    BY DEF SInv, TypeOK, InstallBootstrap, Validate, SetFlags, BindHTTPS, BindManagement, Bind,
       SetBound, Exit, Labels
  <2> QED BY <1>1, <1>2, <2>1, <2>2, <2>3 DEF SInv, TypeOK
<1>4. Stages'
  BY <1>1, <1>2 DEF SInv, TypeOK, InstallBootstrap, Validate, SetFlags, BindHTTPS, BindManagement,
     Bind, SetBound, Exit, Stages, Early, AllServers
<1>5. Drained'
  BY <1>1 DEF SInv, Drained
<1>6. ReadyMeansBound'
  BY <1>1, <1>4 DEF SInv, TypeOK, InstallBootstrap, Validate, SetFlags, BindHTTPS, BindManagement,
     Bind, SetBound, Exit, Stages, Early, AllServers, ReadyMeansBound, HealthReady
<1>7. CleanExit'
  BY <1>1, <1>2 DEF SInv, TypeOK, InstallBootstrap, Validate, SetFlags, BindHTTPS, BindManagement,
     Bind, SetBound, Exit, Stages, Early, AllServers, CleanExit, Running
<1> QED BY <1>3, <1>4, <1>5, <1>6, <1>7 DEF SInv

\* The types of the flags, which most steps leave alone.
LEMMA FlagsTyped ==
    ASSUME TypeOK, httpsBound' \in BOOLEAN, signal' \in BOOLEAN, timeout' \in BOOLEAN,
           UNCHANGED <<snapshot, requireHTTPS>>
    PROVE  {snapshot', requireHTTPS', httpsBound', signal', timeout'} \subseteq BOOLEAN
<1>1. snapshot' \in BOOLEAN /\ requireHTTPS' \in BOOLEAN
  BY Zenon DEF TypeOK
<1> QED BY <1>1, Zenon

\* The flags, one by one.
LEMMA FlagsAre ==
    ASSUME TypeOK
    PROVE  /\ snapshot \in BOOLEAN /\ requireHTTPS \in BOOLEAN /\ httpsBound \in BOOLEAN
           /\ signal \in BOOLEAN /\ timeout \in BOOLEAN
BY Zenon DEF TypeOK

\* The steps of the main goroutine from the start of the servers to the exit.
LEMMA MainSteps ==
    ASSUME SInv, StartServers \/ Select \/ Unready \/ Wait
    PROVE  SInv'
<1>1. UNCHANGED <<snapshot, requireHTTPS, stopping, handlers, signal, timeout, managed>>
  BY DEF StartServers, Select, Unready, Wait, servers, world
<1>2. Servers' = Servers /\ Servers \subseteq AllServers /\ "https" \in Servers
  BY <1>1 DEF Servers, AllServers
<1>3. TypeOK'
  <2>1. httpsBound' \in BOOLEAN
    <3>1. CASE Unready
      BY <3>1, Zenon DEF Unready
    <3>2. CASE StartServers \/ Select \/ Wait
      BY <3>2, FlagsAre, Zenon DEF StartServers, Select, Wait, SInv
    <3> QED BY <3>1, <3>2
  <2>2. {snapshot', requireHTTPS', httpsBound', signal', timeout'} \subseteq BOOLEAN
    BY <1>1, <2>1, FlagsAre, FlagsTyped DEF SInv
  <2>3. errCh' \in Seq(Servers) /\ Len(errCh') <= ErrBuffer
    <3>1. CASE errCh' = errCh
      BY <3>1 DEF SInv, TypeOK
    <3>2. CASE errCh # <<>> /\ errCh' = Tail(errCh)
      <4>1. errCh \in Seq(Servers) /\ Len(errCh) \in Nat /\ Len(errCh) <= 2
        BY DEF SInv, TypeOK, ErrBuffer
      <4>2. Tail(errCh) \in Seq(Servers) /\ Len(Tail(errCh)) = Len(errCh) - 1
        BY <3>2, <4>1, HeadTailProperties
      <4> QED BY <3>2, <4>1, <4>2 DEF ErrBuffer
    <3> QED BY <3>1, <3>2 DEF StartServers, Select, Unready, Wait, servers
  <2>4. /\ goroutine' \in [AllServers -> {"none", "serving", "sending", "done"}]
        /\ listener' \in [AllServers -> {"unbound", "open", "closed"}]
        /\ \A s \in AllServers \ Servers : goroutine'[s] = "none" /\ listener'[s] = "unbound"
        /\ main' \in Labels /\ status' \in {0, 1, 2, Running}
    BY <1>2 DEF SInv, TypeOK, StartServers, Select, Unready, Wait, servers, Labels
  <2> QED BY <1>1, <1>2, <2>2, <2>3, <2>4 DEF SInv, TypeOK
<1>4. Stages'
  BY <1>1, <1>2 DEF SInv, TypeOK, StartServers, Select, Unready, Wait, servers, Stages,
     Early, AllServers, Running
<1>5. Drained'
  BY <1>1 DEF SInv, Drained
<1>6. ReadyMeansBound'
  BY <1>1, <1>3, <1>4 DEF SInv, TypeOK, Stages, ReadyMeansBound, HealthReady, Early, AllServers
<1>7. CleanExit'
  BY <1>1, <1>2 DEF SInv, TypeOK, StartServers, Select, Unready, Wait, servers, Stages,
     Drained, CleanExit, Running, AllServers
<1> QED BY <1>3, <1>4, <1>5, <1>6, <1>7 DEF SInv

\* Shutting a server down.
LEMMA ShutdownSteps ==
    ASSUME SInv, NEW s \in Servers, Shutdown(s) \/ ShutdownReturns(s)
    PROVE  SInv'
<1>1. /\ UNCHANGED <<snapshot, requireHTTPS, httpsBound, goroutine, handlers, errCh, status,
                     signal, timeout, managed>>
      /\ main' = main /\ main = "shutdown"
  BY DEF Shutdown, ShutdownReturns, world
<1>2. Servers' = Servers /\ Servers \subseteq AllServers
  BY <1>1 DEF Servers, AllServers
<1>3. TypeOK'
  <2>1. {snapshot', requireHTTPS', httpsBound', signal', timeout'} \subseteq BOOLEAN
    BY <1>1, FlagsAre, FlagsTyped DEF SInv
  <2>2. /\ stopping' \in [AllServers -> {"up", "shutdown", "closed"}]
        /\ listener' \in [AllServers -> {"unbound", "open", "closed"}]
        /\ \A r \in AllServers \ Servers : listener'[r] = "unbound"
    BY <1>2 DEF SInv, TypeOK, Shutdown, ShutdownReturns
  <2> QED BY <1>1, <1>2, <2>1, <2>2 DEF SInv, TypeOK
<1>4. Stages'
  BY <1>1 DEF SInv, Stages, Early
<1>5. Drained'
  BY <1>1, <1>2 DEF SInv, TypeOK, Drained, Shutdown, ShutdownReturns
<1>6. ReadyMeansBound' /\ CleanExit'
  BY <1>1 DEF SInv, Stages, ReadyMeansBound, HealthReady, CleanExit
<1> QED BY <1>3, <1>4, <1>5, <1>6 DEF SInv

\* What a server's goroutine and its handlers do.
LEMMA ServerSteps ==
    ASSUME SInv, NEW s \in Servers,
           ServeReturns(s) \/ Send(s) \/ Accept(s) \/ HandlerReturns(s)
    PROVE  SInv'
<1>1. /\ UNCHANGED <<snapshot, requireHTTPS, httpsBound, status, signal, timeout, managed>>
      /\ UNCHANGED <<main, stopping>>
  BY DEF ServeReturns, Send, Accept, HandlerReturns, unaffected, world
<1>2. Servers' = Servers /\ Servers \subseteq AllServers /\ "https" \in AllServers
  BY <1>1 DEF Servers, AllServers
<1>3. /\ goroutine' \in [AllServers -> {"none", "serving", "sending", "done"}]
      /\ listener' \in [AllServers -> {"unbound", "open", "closed"}]
      /\ \A r \in AllServers \ Servers : goroutine'[r] = "none" /\ listener'[r] = "unbound"
  BY <1>2 DEF SInv, TypeOK, ServeReturns, Send, Accept, HandlerReturns
<1>4. handlers' \in [AllServers -> 0 .. MaxHandlers]
  BY <1>2, ServeAssumption DEF SInv, TypeOK, ServeReturns, Send, Accept, HandlerReturns
<1>5. errCh' \in Seq(Servers) /\ Len(errCh') <= ErrBuffer
  <2>1. CASE errCh' = errCh
    BY <2>1 DEF SInv, TypeOK
  <2>2. CASE Send(s)
    <3>1. errCh \in Seq(Servers) /\ Len(errCh) \in Nat /\ Len(errCh) < ErrBuffer
      BY <2>2 DEF SInv, TypeOK, Send
    <3>2. Append(errCh, s) \in Seq(Servers) /\ Len(Append(errCh, s)) = Len(errCh) + 1
      BY <3>1, AppendProperties
    <3> QED BY <2>2, <3>1, <3>2 DEF Send, ErrBuffer
  <2> QED BY <2>1, <2>2 DEF ServeReturns, Accept, HandlerReturns
<1>6. TypeOK'
  <2>1. {snapshot', requireHTTPS', httpsBound', signal', timeout'} \subseteq BOOLEAN
    BY <1>1, FlagsAre, FlagsTyped DEF SInv
  <2> QED BY <1>1, <1>2, <1>3, <1>4, <1>5, <2>1 DEF SInv, TypeOK
<1>7. Stages'
  BY <1>1, <1>2 DEF SInv, TypeOK, ServeReturns, Send, Accept, HandlerReturns, Stages, Early
<1>8. Drained'
  BY <1>1, <1>2, ServeAssumption DEF SInv, TypeOK, ServeReturns, Send, Accept,
     HandlerReturns, Drained
<1>9. ReadyMeansBound'
  <2>1. SUFFICES ASSUME HealthReady', requireHTTPS'
                 PROVE  listener'["https"] = "open" \/ goroutine'["https"] \in {"sending", "done"}
    BY DEF ReadyMeansBound
  <2>2. httpsBound'
    BY <2>1 DEF HealthReady
  <2>3. main' \in {"start", "select", "unready"}
    BY <1>7, <2>2 DEF Stages
  <2>4. CASE main' = "start"
    BY <1>7, <2>4 DEF Stages
  <2>5. CASE main' \in {"select", "unready"}
    <3>1. goroutine'["https"] \in {"none", "serving", "sending", "done"}
      BY <1>2, <1>3
    <3> QED BY <1>7, <2>5, <3>1 DEF Stages
  <2> QED BY <2>3, <2>4, <2>5
<1>10. CleanExit'
  BY <1>1, <1>2 DEF SInv, TypeOK, ServeReturns, Send, Accept, HandlerReturns, CleanExit
<1> QED BY <1>6, <1>7, <1>8, <1>9, <1>10 DEF SInv

\* A signal, the shutdown timer, or nothing.
LEMMA WorldSteps ==
    ASSUME SInv, Signal \/ Timeout \/ UNCHANGED vars
    PROVE  SInv'
<1>1. /\ UNCHANGED <<snapshot, requireHTTPS, httpsBound, main, status, managed, listener,
                     goroutine, stopping, handlers, errCh>>
  BY DEF Signal, Timeout, unaffected, servers, vars
<1>2. /\ signal' \in BOOLEAN /\ timeout' \in BOOLEAN
      /\ timeout => timeout'
  <2>1. signal \in BOOLEAN /\ timeout \in BOOLEAN
    BY FlagsAre DEF SInv
  <2>2. CASE Signal
    BY <2>1, <2>2, Zenon DEF Signal
  <2>3. CASE Timeout
    BY <2>1, <2>3, Zenon DEF Timeout
  <2>4. CASE UNCHANGED vars
    BY <2>1, <2>4, Zenon DEF vars
  <2> QED BY <2>2, <2>3, <2>4
<1>3. Servers' = Servers
  BY <1>1 DEF Servers
<1>4. TypeOK'
  <2>1. {snapshot', requireHTTPS', httpsBound', signal', timeout'} \subseteq BOOLEAN
    BY <1>1, <1>2, FlagsAre, FlagsTyped DEF SInv
  <2> QED BY <1>1, <1>3, <2>1 DEF SInv, TypeOK
<1> QED BY <1>1, <1>2, <1>3, <1>4 DEF SInv, Stages, Drained, ReadyMeansBound, HealthReady,
           CleanExit

\* The invariant is inductive.
LEMMA ServePreserves == SInv /\ [Next]_vars => SInv'
<1> SUFFICES ASSUME SInv, [Next]_vars PROVE SInv'
  OBVIOUS
<1>1. CASE Main
  BY <1>1, BindSteps, MainSteps, ShutdownSteps DEF Main
<1>2. CASE Signal \/ Timeout \/ Stopped \/ UNCHANGED vars
  BY <1>2, WorldSteps DEF Stopped
<1>3. CASE \E s \in Servers : ServeReturns(s) \/ Send(s) \/ Accept(s) \/ HandlerReturns(s)
  BY <1>3, ServerSteps
<1> QED BY <1>1, <1>2, <1>3 DEF Next

\* The invariant holds in every behaviour.
THEOREM ServeInvariance == Spec => []SInv
BY ServeInit, ServePreserves, PTL DEF Spec

\* Flags, listeners, goroutines and the result channel keep their types; the
\* channel never holds more than its buffer, and a management server that is
\* off gets neither a listener nor a goroutine.
THEOREM ServeTypeCorrect == Spec => []TypeOK
<1>1. SInv => TypeOK
  BY DEF SInv
<1> QED BY <1>1, ServeInvariance, PTL

\* The process reports ready only while the HTTPS listener is open, or its
\* server has failed and the main goroutine is about to learn of it.
THEOREM ReadyIsTrue == Spec => []ReadyMeansBound
<1>1. SInv => ReadyMeansBound
  BY DEF SInv
<1> QED BY <1>1, ServeInvariance, PTL

\* Whatever makes the process leave, it leaves with a status and with its
\* listeners closed, and cuts running handlers off only after the timeout.
THEOREM ExitIsClean == Spec => []CleanExit
<1>1. SInv => CleanExit
  BY DEF SInv
<1> QED BY <1>1, ServeInvariance, PTL

=============================================================================
