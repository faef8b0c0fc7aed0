-------------------------- MODULE OperatorSessions --------------------------
(***************************************************************************)
(* The management API as a browser meets it: a call is authenticated by    *)
(* its session cookie and CSRF header or, without a live session, by the   *)
(* address it comes from, and then its handler runs.  The two are separate *)
(* critical sections of the session table, so a session may end between    *)
(* them.  The CSRF token of a session is drawn together with its ID, and   *)
(* the ID stands for both.                                                 *)
(*                                                                         *)
(* Browser calls carry no bearer token.  Callers that do (scripts, and MCP *)
(* clients, whose cookies are stripped) neither read nor change a session  *)
(* they were not given, and are left out.                                  *)
(***************************************************************************)
EXTENDS Naturals, FiniteSets

CONSTANTS
    Slots,      \* concurrent calls
    Views       \* the views of the console

ASSUME ViewsAssumption == Views # {}

VARIABLES
    peer,       \* where the browser runs: the loopback interface or not
    opsess,     \* sessions in the table (opStore.byID)
    lapsed,     \* those whose lifetime is over
    nextSid,    \* the next fresh session
    call        \* the frame of each call

sessionVars == <<peer, opsess, lapsed, nextSid, call>>

\* What a call asks for, named after the function that sends it; who1 and
\* who2 are the two refreshWho of the start-up.
Ops == {"who1", "mintOnce", "who2", "refreshMeta", "load", "write", "logout", "who"}
Gets == {"who1", "who2", "who", "refreshMeta", "load"}

\* page: the page load that waits for the answer; cookie: the session cookie
\* sent; csrf: the CSRF header sent; result and token: the answer's status and
\* CSRF token; setCookie: what its headers do to the cookie.
CallFrame ==
    [pc: {"idle", "sent", "run", "answered"}, page: Nat, op: Ops, view: Views,
     cookie: Nat, csrf: Nat, result: {"none", "ok", "csrf", "unauthorized", "failed"},
     token: Nat, setCookie: {"keep", "clear", "set"}]

SessionTypeOK ==
    /\ peer \in {"loopback", "remote"}
    /\ opsess \subseteq 1..(nextSid - 1) /\ lapsed \subseteq opsess
    /\ nextSid \in Nat \ {0}
    /\ call \in [Slots -> CallFrame]

NoView == CHOOSE v \in Views : TRUE
NoCall == [pc |-> "idle", page |-> 0, op |-> "who", view |-> NoView, cookie |-> 0,
           csrf |-> 0, result |-> "none", token |-> 0, setCookie |-> "keep"]

SessionInit ==
    /\ peer \in {"loopback", "remote"}
    /\ opsess = {} /\ lapsed = {} /\ nextSid = 1
    /\ call = [k \in Slots |-> NoCall]

Live(sid) == sid \in opsess \ lapsed

\* opStore.Get drops the row it finds expired.
Forget(sid) == opsess' = opsess \ {sid} /\ lapsed' = lapsed \ {sid}
Lookup(sid) == IF sid \in lapsed THEN Forget(sid) ELSE UNCHANGED <<opsess, lapsed>>

\* An answer keeps of the request what its reader needs.
Answer(f, result) ==
    [f EXCEPT !.pc = "answered", !.result = result, !.csrf = 0,
              !.cookie = IF result = "csrf" THEN @ ELSE 0]

\* An admitted call goes on to its handler.  The routes that do not concern
\* sessions answer at once, by whether they succeed (module Management models
\* what they do).
Admitted(f) ==
    IF f.op \in {"load", "write"} THEN {Answer(f, result) : result \in {"ok", "failed"}}
    ELSE IF f.op = "refreshMeta" THEN {Answer(f, "ok")}
    ELSE {[f EXCEPT !.pc = "run", !.csrf = 0, !.cookie = IF f.op = "mintOnce" THEN 0 ELSE @]}

Becomes(k, f) == call' = [call EXCEPT ![k] = f]

-----------------------------------------------------------------------------
(* Server.authenticate.                                                    *)

AdmitSession(k) ==
    /\ call[k].pc = "sent" /\ Live(call[k].cookie)
    /\ call[k].op \notin Gets => call[k].csrf = call[k].cookie
    /\ \E f \in Admitted(call[k]) : Becomes(k, f)
    /\ UNCHANGED <<peer, opsess, lapsed, nextSid>>

RefuseCSRF(k) ==
    /\ call[k].pc = "sent" /\ Live(call[k].cookie)
    /\ call[k].op \notin Gets /\ call[k].csrf # call[k].cookie
    /\ Becomes(k, Answer(call[k], "csrf"))
    /\ UNCHANGED <<peer, opsess, lapsed, nextSid>>

\* A cookie without a live session is taken back, and the call goes on as one
\* without a cookie: loopback is the administrator, anyone else is refused.
FallThrough(k) ==
    /\ call[k].pc = "sent" /\ ~Live(call[k].cookie)
    /\ Lookup(call[k].cookie)
    /\ LET f == [call[k] EXCEPT !.setCookie = IF call[k].cookie = 0 THEN "keep" ELSE "clear"]
       IN  \E g \in IF peer = "loopback" THEN Admitted(f) ELSE {Answer(f, "unauthorized")} :
             Becomes(k, g)
    /\ UNCHANGED <<peer, nextSid>>

-----------------------------------------------------------------------------
(* The handlers.                                                           *)

\* Mutant: the session ID is not drawn afresh.
SessionCreateReused(k) ==
    /\ call[k].pc = "run" /\ call[k].op = "mintOnce"
    /\ opsess' = opsess \cup {nextSid}
    /\ Becomes(k, [Answer(call[k], "ok") EXCEPT !.token = nextSid, !.setCookie = "set"])
    /\ UNCHANGED <<peer, lapsed, nextSid>>

SessionCreate(k) ==
    /\ call[k].pc = "run" /\ call[k].op = "mintOnce"
    /\ opsess' = opsess \cup {nextSid}
    /\ nextSid' = nextSid + 1
    /\ Becomes(k, [Answer(call[k], "ok") EXCEPT !.token = nextSid, !.setCookie = "set"])
    /\ UNCHANGED <<peer, lapsed>>

\* Mutant: the answer leaves the CSRF token out.
SessionGetBare(k) ==
    /\ call[k].pc = "run" /\ call[k].op \in {"who1", "who2", "who"}
    /\ Lookup(call[k].cookie)
    /\ Becomes(k, Answer(call[k], "ok"))
    /\ UNCHANGED <<peer, nextSid>>

\* The session is looked up a second time, for its CSRF token.
SessionGet(k) ==
    /\ call[k].pc = "run" /\ call[k].op \in {"who1", "who2", "who"}
    /\ Lookup(call[k].cookie)
    /\ Becomes(k, [Answer(call[k], "ok") EXCEPT
                     !.token = IF Live(call[k].cookie) THEN call[k].cookie ELSE 0])
    /\ UNCHANGED <<peer, nextSid>>

SessionDelete(k) ==
    /\ call[k].pc = "run" /\ call[k].op = "logout"
    /\ Forget(call[k].cookie)
    /\ Becomes(k, [Answer(call[k], "ok") EXCEPT !.setCookie = "clear"])
    /\ UNCHANGED <<peer, nextSid>>

Lapse(sid) ==
    /\ sid \in opsess \ lapsed
    /\ lapsed' = lapsed \cup {sid}
    /\ UNCHANGED <<peer, opsess, nextSid, call>>

Server(k) ==
    \/ AdmitSession(k) \/ RefuseCSRF(k) \/ FallThrough(k)
    \/ SessionCreate(k) \/ SessionGet(k) \/ SessionDelete(k)
=============================================================================
