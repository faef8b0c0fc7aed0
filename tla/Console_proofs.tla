--------------------------- MODULE Console_proofs ---------------------------
(***************************************************************************)
(* What holds of the operator console for every number of tabs, of         *)
(* concurrent calls and of views.                                          *)
(*                                                                         *)
(* A page is known by its number, which no other page ever had, and has    *)
(* one call of its start-up on its way.  It asks for one session at most;  *)
(* until the answer arrives nobody else holds the new cookie.  From then   *)
(* on, while that session lives in the cookie, the page's CSRF token is    *)
(* the session's, and so is that of every call that was sent with it.      *)
(***************************************************************************)
EXTENDS Console, FiniteSetTheorems, TLAPS

-----------------------------------------------------------------------------
(* The invariant.                                                          *)

StartUp == {"who1", "mintOnce", "who2", "refreshMeta"}

Busy(k) == call[k].pc # "idle"

\* The answer that hands a page its session.
Minted(f) == f.op = "mintOnce" /\ f.pc = "answered" /\ f.result = "ok"

\* What a frame can look like at each stage.
Shape(f) ==
    /\ f.pc = "idle" => f = NoCall
    /\ f.pc # "idle" => f.page \in 1 .. loads
    /\ f.pc \in {"sent", "run"} => f.result = "none" /\ f.token = 0
    /\ f.pc = "sent" => f.setCookie = "keep"
    /\ f.pc = "run" => f.op \in {"who1", "mintOnce", "who2", "who", "logout"}
    /\ f.cookie < nextSid /\ f.token < nextSid
    /\ f.setCookie = "set" <=> Minted(f)
    /\ Minted(f) => f.token # 0
    /\ f.op = "logout" /\ f.pc = "answered" /\ f.result = "ok" => f.setCookie = "clear"
    /\ f.result = "csrf" => f.cookie # 0

\* Tabs hold different pages.
Pages ==
    /\ jar < nextSid
    /\ \A t \in Tabs : tab[t].page <= loads
    /\ \A t \in Tabs : tab[t].page = 0 => tab[t].phase = "ready" /\ tab[t].painted = "blank"
    /\ \A s, t \in Tabs : tab[s].page = tab[t].page /\ tab[t].page # 0 => s = t
    /\ \A x \in 1 .. MaxLoads : origin[x] <= loads

\* The calls that may still make a session.
Waiting(f) ==
    \/ f.op = "who1" /\ f.pc # "idle"
    \/ f.op = "mintOnce" /\ f.pc \in {"sent", "run"}

Weight(f) == IF Waiting(f) THEN 1 ELSE 0

Pending == {k \in Slots : Waiting(call[k])}

\* There are no more sessions than pages.
Counted == IsFiniteSet(Pending) /\ nextSid + Cardinality(Pending) <= loads + 1

\* Nobody holds a session whose answer is still on its way.
Fresh ==
    \A k \in Slots : Minted(call[k]) =>
        /\ jar # call[k].token
        /\ \A j \in Slots : call[j].cookie # call[k].token
        /\ \A j \in Slots : Minted(call[j]) /\ call[j].token = call[k].token => j = k

\* A page has one call of its start-up at a time, while it is starting, and
\* no session before the first two of them are answered.
Chains ==
    /\ \A j, k \in Slots : /\ Busy(j) /\ Busy(k) /\ call[j].page = call[k].page
                           /\ call[j].op \in StartUp /\ call[k].op \in StartUp
                           => j = k
    /\ \A k \in Slots, t \in Tabs :
         Busy(k) /\ call[k].op \in StartUp /\ call[k].page = tab[t].page
         => tab[t].phase = "starting"
    /\ \A k \in Slots : Busy(k) /\ call[k].op \in {"who1", "mintOnce"}
         => \A x \in 1 .. MaxLoads : origin[x] # call[k].page

\* The session lives and was made for the page.
Owns(t, sid) == Live(sid) /\ origin[sid] = tab[t].page

\* While its session is in the cookie, a page has its token, what it is told
\* of its session is that token, and what it sends carries it.
Tokens ==
    /\ \A t \in Tabs : tab[t].page # 0 /\ ~tab[t].early /\ Owns(t, jar) => tab[t].csrf = jar
    /\ \A t \in Tabs, k \in Slots :
         /\ Busy(k) /\ call[k].op = "who2" /\ call[k].page = tab[t].page
         /\ Owns(t, jar) /\ call[k].setCookie = "keep"
         => IF call[k].pc = "answered" THEN Ok(call[k]) /\ call[k].token = jar
            ELSE call[k].cookie = jar
    /\ \A t \in Tabs, k \in Slots :
         /\ Busy(k) /\ call[k].op \in {"logout", "who"} /\ call[k].page = tab[t].page
         /\ ~tab[t].early
         => tab[t].phase = "ready" /\ (call[k].op = "who" => ~Owns(t, jar))
    /\ \A t \in Tabs, k \in Slots :
         /\ call[k].pc = "sent" /\ call[k].op \notin Gets /\ call[k].page = tab[t].page
         /\ ~tab[t].early /\ Owns(t, call[k].cookie)
         => call[k].csrf = call[k].cookie

\* A page that shows another view than it marks waits for the list.
Lists ==
    \A t \in Tabs : tab[t].page # 0 /\ tab[t].phase = "ready" =>
        \/ tab[t].painted \in {tab[t].view, "blank"}
        \/ \E k \in Slots : /\ call[k].page = tab[t].page /\ call[k].op = "load"
                            /\ call[k].view = tab[t].view

Frames == \A k \in Slots : Shape(call[k])

CInv ==
    /\ TypeOK /\ Frames
    /\ Pages /\ Counted /\ Fresh /\ Chains
    /\ Tokens /\ CsrfRefusalExplained
    /\ StartupNeverStalls /\ Lists

-----------------------------------------------------------------------------
(* The frames of the calls, and the initial state.                         *)

\* The console has a view, and the empty frame is a frame.
LEMMA EmptyFrame ==
    /\ NoView \in Views
    /\ NoCall \in CallFrame
    /\ NoCall.pc = "idle" /\ NoCall.page = 0 /\ NoCall.op = "who" /\ NoCall.cookie = 0
    /\ NoCall.csrf = 0 /\ NoCall.result = "none" /\ NoCall.token = 0
    /\ NoCall.setCookie = "keep" /\ NoCall.view = NoView
<1>1. NoView \in Views
  BY ViewsAssumption, Zenon DEF NoView
<1>2. QED
  BY <1>1 DEF NoCall, CallFrame, Ops

\* What api sends: the page's number, the cookie, and its token with a POST.
LEMMA SentFrame ==
    ASSUME NEW page, page.page \in Nat, page.csrf \in Nat,
           NEW cookie \in Nat, NEW op \in Ops, NEW view \in Views
    PROVE  LET g == Api(page, cookie, op, view)
           IN  /\ g \in CallFrame
               /\ g.pc = "sent" /\ g.page = page.page /\ g.op = op /\ g.view = view
               /\ g.cookie = cookie /\ g.result = "none" /\ g.token = 0
               /\ g.setCookie = "keep"
               /\ op \notin Gets => g.csrf = page.csrf
BY EmptyFrame, ZenonT(30) DEF Api, NoCall, CallFrame, Ops

\* The initial states satisfy the invariant.
LEMMA ConsoleInit == Init => CInv
<1> SUFFICES ASSUME Init PROVE CInv
  OBVIOUS
<1> USE EmptyFrame
<1>1. \A k \in Slots : call[k] = NoCall
  BY DEF Init, SessionInit
<1>2. \A t \in Tabs : tab[t] = EmptyTab
  BY DEF Init
<1>3. nextSid = 1 /\ jar = 0 /\ loads = 0 /\ clicks = 0 /\ opsess = {} /\ lapsed = {}
  BY DEF Init, SessionInit
<1>4. \A x \in 1 .. MaxLoads : origin[x] = 0
  BY DEF Init
<1>5. TypeOK
  <2>1. SessionTypeOK
    BY <1>3 DEF Init, SessionInit, SessionTypeOK
  <2>2. tab \in [Tabs -> Page]
    <3>1. EmptyTab \in Page
      BY DEF EmptyTab, Page
    <3>2. QED
      BY <3>1 DEF Init
  <2>3. origin \in [1 .. MaxLoads -> 0 .. MaxLoads]
    BY BoundAssumption DEF Init
  <2>4. QED
    BY <2>1, <2>2, <2>3, <1>3, BoundAssumption DEF TypeOK
<1>6. Frames
  BY <1>1, <1>3 DEF Frames, Shape, Minted
<1>7. Pages
  BY <1>1, <1>2, <1>3, <1>4 DEF Pages, EmptyTab
<1>8. Counted
  <2>1. Pending = {}
    BY <1>1 DEF Pending, Waiting
  <2>2. QED
    BY <2>1, <1>3, FS_EmptySet DEF Counted
<1>9. Fresh /\ Chains
  BY <1>1 DEF Fresh, Chains, Minted, Busy
<1>10. Tokens
  <2>1. \A sid : ~Live(sid)
    BY <1>3 DEF Live
  <2>2. QED
    BY <2>1, <1>1 DEF Tokens, Owns, Busy
<1>11. CsrfRefusalExplained
  BY <1>1 DEF CsrfRefusalExplained
<1>12. StartupNeverStalls /\ Lists
  BY <1>2 DEF StartupNeverStalls, Lists, EmptyTab
<1>13. QED
  BY <1>5, <1>6, <1>7, <1>8, <1>9, <1>10, <1>11, <1>12 DEF CInv

-----------------------------------------------------------------------------
(* The steps of the server.                                                *)

\* The server moves one call on and keeps who asked and for what.  A new
\* session is made for a mintOnce only; no other comes to life.
Serves(k, g) ==
    /\ Becomes(k, g) /\ g \in CallFrame /\ Shape(g)'
    /\ call[k].pc \in {"sent", "run"} /\ g.pc \in {"run", "answered"}
    /\ g.page = call[k].page /\ g.op = call[k].op /\ g.view = call[k].view
    /\ g.cookie \in {0, call[k].cookie}
    /\ call[k].pc = "run" /\ g.setCookie = "keep" => call[k].setCookie = "keep"
    /\ IF Minted(g) THEN nextSid' = nextSid + 1 /\ g.token = nextSid ELSE nextSid' = nextSid
    /\ opsess' \subseteq 1 .. (nextSid' - 1) /\ lapsed' \subseteq opsess'
    /\ \A sid \in Nat : Live(sid)' => Live(sid) \/ (Minted(g) /\ sid = nextSid)
    /\ g.result = "csrf" => /\ call[k].pc = "sent" /\ call[k].op \notin Gets
                            /\ Live(call[k].cookie) /\ g.cookie = call[k].cookie
                            /\ call[k].csrf # call[k].cookie
    /\ g.op = "who2" /\ call[k].cookie \in opsess' \ lapsed' /\ g.setCookie = "keep" =>
         IF g.pc = "answered" THEN Ok(g) /\ g.token = call[k].cookie
         ELSE g.cookie = call[k].cookie
    /\ UNCHANGED <<peer, browserVars>>

\* Answering keeps of the request who asked, for what and the cookie's fate.
LEMMA AnswerFrame ==
    ASSUME NEW f \in CallFrame,
           NEW result \in {"ok", "csrf", "unauthorized", "failed"}
    PROVE  LET g == Answer(f, result)
           IN  /\ g \in CallFrame
               /\ g.pc = "answered" /\ g.result = result
               /\ g.page = f.page /\ g.op = f.op /\ g.view = f.view
               /\ g.cookie = (IF result = "csrf" THEN f.cookie ELSE 0)
               /\ g.token = f.token /\ g.setCookie = f.setCookie
BY DEF Answer, CallFrame

\* An admitted call is answered unless its handler works on a session.
LEMMA AdmittedFrame ==
    ASSUME NEW f \in CallFrame, NEW g \in Admitted(f)
    PROVE  /\ g \in CallFrame
           /\ g.page = f.page /\ g.op = f.op /\ g.view = f.view
           /\ g.token = f.token /\ g.setCookie = f.setCookie
           /\ g.cookie \in {0, f.cookie}
           /\ \/ /\ g.pc = "answered" /\ g.result \in {"ok", "failed"}
                 /\ g.op \in {"load", "write", "refreshMeta"}
              \/ /\ g.pc = "run" /\ g.result = f.result
                 /\ g.op \in {"who1", "mintOnce", "who2", "who", "logout"}
                 /\ g.op = "who2" => g.cookie = f.cookie
<1>1. CASE f.op \in {"load", "write"}
  <2>1. PICK result \in {"ok", "failed"} : g = Answer(f, result)
    BY <1>1, Zenon DEF Admitted
  <2>2. QED
    BY <2>1, <1>1, AnswerFrame
<1>2. CASE f.op = "refreshMeta"
  <2>1. g = Answer(f, "ok")
    BY <1>2 DEF Admitted
  <2>2. QED
    BY <2>1, <1>2, AnswerFrame
<1>3. CASE f.op \notin {"load", "write", "refreshMeta"}
  <2>1. g = [f EXCEPT !.pc = "run", !.csrf = 0,
                      !.cookie = IF f.op = "mintOnce" THEN 0 ELSE @]
    BY <1>3 DEF Admitted
  <2>2. f.op \in {"who1", "mintOnce", "who2", "who", "logout"}
    BY <1>3 DEF CallFrame, Ops
  <2>3. QED
    BY <2>1, <2>2 DEF CallFrame
<1>4. QED
  BY <1>1, <1>2, <1>3

\* Looking a session up, or forgetting it, brings none to life.
LEMMA NoneRevived ==
    ASSUME SessionTypeOK, NEW sid, Lookup(sid) \/ Forget(sid), nextSid' = nextSid
    PROVE  /\ opsess' \subseteq 1 .. (nextSid' - 1) /\ lapsed' \subseteq opsess'
           /\ \A x \in Nat : Live(x)' => Live(x)
BY DEF SessionTypeOK, Lookup, Forget, Live

\* Every step of the server is one of that kind.
LEMMA ServerServes ==
    ASSUME NEW k \in Slots, TypeOK, Frames, Server(k), UNCHANGED browserVars
    PROVE  \E g : Serves(k, g)
<1>0. PICK f : f = call[k]
  OBVIOUS
<1>t. /\ f \in CallFrame /\ Shape(f) /\ SessionTypeOK
      /\ nextSid \in Nat \ {0} /\ loads \in Nat /\ loads' = loads
  <2>1. SessionTypeOK /\ Shape(f)
    BY <1>0 DEF TypeOK, Frames
  <2>2. f \in CallFrame /\ nextSid \in Nat \ {0}
    BY <1>0, <2>1 DEF SessionTypeOK
  <2>3. loads \in Nat /\ loads' = loads
    BY BoundAssumption DEF TypeOK, browserVars
  <2>4. QED
    BY <2>1, <2>2, <2>3
<1>f. /\ f.page \in Nat /\ f.cookie \in Nat /\ f.token \in Nat
      /\ opsess \subseteq 1 .. (nextSid - 1) /\ lapsed \subseteq opsess
  BY <1>t DEF CallFrame, SessionTypeOK
<1>1. CASE AdmitSession(k)
  <2>1. f.pc = "sent" /\ UNCHANGED <<peer, opsess, lapsed, nextSid>>
    BY <1>0, <1>1 DEF AdmitSession
  <2>2. PICK g \in Admitted(f) : Becomes(k, g)
    BY <1>0, <1>1 DEF AdmitSession
  <2>3. Shape(g)'
    BY <1>t, <1>f, <2>1, AdmittedFrame DEF Shape, Minted
  <2>4. ~Minted(g) /\ g.result # "csrf" /\ (g.op = "who2" => g.pc = "run" /\ g.cookie = f.cookie)
    BY <1>t, <2>1, AdmittedFrame DEF Shape, Minted
  <2>5. \A sid \in Nat : Live(sid)' => Live(sid)
    BY <2>1 DEF Live
  <2>6. Serves(k, g)
    BY <1>0, <1>t, <1>f, <2>1, <2>2, <2>3, <2>4, <2>5, AdmittedFrame DEF Serves
  <2>7. QED
    BY <2>6
<1>2. CASE RefuseCSRF(k)
  <2>0. PICK g : g = Answer(f, "csrf")
    OBVIOUS
  <2>1. /\ f.pc = "sent" /\ UNCHANGED <<peer, opsess, lapsed, nextSid>>
        /\ f.op \notin Gets /\ Live(f.cookie) /\ f.csrf # f.cookie /\ Becomes(k, g)
    BY <1>0, <1>2, <2>0 DEF RefuseCSRF
  <2>2. /\ g \in CallFrame /\ g.pc = "answered" /\ g.result = "csrf"
        /\ g.page = f.page /\ g.op = f.op /\ g.view = f.view
        /\ g.cookie = f.cookie /\ g.token = f.token /\ g.setCookie = f.setCookie
    BY <1>t, <2>0, AnswerFrame
  <2>3. f.cookie # 0
    BY <1>t, <1>f, <2>1 DEF Live
  <2>4. ~Minted(g) /\ g.op # "who2"
    BY <2>1, <2>2 DEF Minted, Gets
  <2>5. Shape(g)'
    BY <1>t, <1>f, <2>1, <2>2, <2>3 DEF Shape, Minted
  <2>6. \A sid \in Nat : Live(sid)' => Live(sid)
    BY <2>1 DEF Live
  <2>7. Serves(k, g)
    BY <1>0, <1>t, <1>f, <2>1, <2>2, <2>4, <2>5, <2>6 DEF Serves
  <2>8. QED
    BY <2>7
<1>3. CASE FallThrough(k)
  <2> DEFINE h == [f EXCEPT !.setCookie = IF f.cookie = 0 THEN "keep" ELSE "clear"]
  <2>1. /\ f.pc = "sent" /\ ~Live(f.cookie) /\ Lookup(f.cookie)
        /\ UNCHANGED <<peer, nextSid>>
    BY <1>0, <1>3 DEF FallThrough
  <2>2. PICK g : g \in Admitted(h) \cup {Answer(h, "unauthorized")} /\ Becomes(k, g)
    BY <1>0, <1>3 DEF FallThrough
  <2>3. /\ h \in CallFrame /\ h.page = f.page /\ h.op = f.op /\ h.view = f.view
        /\ h.cookie = f.cookie /\ h.token = f.token /\ h.result = f.result
        /\ h.setCookie \in {"keep", "clear"}
    BY <1>t DEF CallFrame
  <2> HIDE DEF h
  <2>4. /\ g \in CallFrame /\ g.page = f.page /\ g.op = f.op /\ g.view = f.view
        /\ g.token = f.token /\ g.setCookie \in {"keep", "clear"}
        /\ g.cookie \in {0, f.cookie}
        /\ \/ g.pc = "answered" /\ g.result = "unauthorized"
           \/ /\ g.pc = "answered" /\ g.result \in {"ok", "failed"}
              /\ g.op \in {"load", "write", "refreshMeta"}
           \/ /\ g.pc = "run" /\ g.result = f.result
              /\ g.op \in {"who1", "mintOnce", "who2", "who", "logout"}
    <3>1. CASE g \in Admitted(h)
      BY <3>1, <2>3, AdmittedFrame
    <3>2. CASE g = Answer(h, "unauthorized")
      BY <3>2, <2>3, AnswerFrame
    <3>3. QED
      BY <2>2, <3>1, <3>2
  <2>5. f.result = "none"
    BY <1>t, <2>1 DEF Shape
  <2>6. ~Minted(g) /\ g.result # "csrf"
    BY <2>4, <2>5 DEF Minted
  <2>7. Shape(g)'
    BY <1>t, <1>f, <2>1, <2>4, <2>5 DEF Shape, Minted
  <2>8. /\ opsess' \subseteq 1 .. (nextSid' - 1) /\ lapsed' \subseteq opsess'
        /\ \A x \in Nat : Live(x)' => Live(x)
    BY <1>t, <2>1, NoneRevived
  <2>9. f.cookie \notin opsess' \ lapsed'
    BY <1>f, <2>1, <2>8 DEF Live
  <2>10. Serves(k, g)
    BY <1>0, <1>t, <1>f, <2>1, <2>2, <2>4, <2>6, <2>7, <2>8, <2>9 DEF Serves
  <2>11. QED
    BY <2>10
<1>4. CASE SessionCreate(k)
  <2>0. PICK a, g : a = Answer(f, "ok") /\ g = [a EXCEPT !.token = nextSid, !.setCookie = "set"]
    OBVIOUS
  <2>1. /\ f.pc = "run" /\ f.op = "mintOnce" /\ opsess' = opsess \cup {nextSid}
        /\ nextSid' = nextSid + 1 /\ UNCHANGED <<peer, lapsed>>
    BY <1>0, <1>4 DEF SessionCreate
  <2>2. Becomes(k, g)
    BY <1>0, <1>4, <2>0 DEF SessionCreate
  <2>3. /\ a \in CallFrame /\ a.pc = "answered" /\ a.result = "ok"
        /\ a.page = f.page /\ a.op = f.op /\ a.view = f.view /\ a.cookie = 0
    BY <1>t, <2>0, AnswerFrame
  <2>4. /\ g \in CallFrame /\ g.pc = "answered" /\ g.result = "ok"
        /\ g.page = f.page /\ g.op = f.op /\ g.view = f.view /\ g.cookie = 0
        /\ g.token = nextSid /\ g.setCookie = "set"
    BY <1>t, <2>0, <2>3 DEF CallFrame
  <2>5. Minted(g) /\ Shape(g)'
    BY <1>t, <1>f, <2>1, <2>4 DEF Shape, Minted
  <2>6. /\ opsess' \subseteq 1 .. (nextSid' - 1) /\ lapsed' \subseteq opsess'
        /\ \A sid \in Nat : Live(sid)' => Live(sid) \/ sid = nextSid
    BY <1>t, <1>f, <2>1 DEF Live
  <2>7. Serves(k, g)
    BY <1>0, <1>t, <1>f, <2>1, <2>2, <2>4, <2>5, <2>6 DEF Serves
  <2>8. QED
    BY <2>7
<1>5. CASE SessionGet(k)
  <2>0. PICK a, g : a = Answer(f, "ok") /\ g = [a EXCEPT !.token = IF Live(f.cookie) THEN f.cookie ELSE 0]
    OBVIOUS
  <2>1. /\ f.pc = "run" /\ f.op \in {"who1", "who2", "who"} /\ Lookup(f.cookie)
        /\ UNCHANGED <<peer, nextSid>>
    BY <1>0, <1>5 DEF SessionGet
  <2>2. Becomes(k, g)
    BY <1>0, <1>5, <2>0 DEF SessionGet
  <2>3. /\ a \in CallFrame /\ a.pc = "answered" /\ a.result = "ok"
        /\ a.page = f.page /\ a.op = f.op /\ a.view = f.view /\ a.cookie = 0
        /\ a.setCookie = f.setCookie
    BY <1>t, <2>0, AnswerFrame
  <2>4. /\ g \in CallFrame /\ g.pc = "answered" /\ g.result = "ok"
        /\ g.page = f.page /\ g.op = f.op /\ g.view = f.view /\ g.cookie = 0
        /\ g.token = (IF Live(f.cookie) THEN f.cookie ELSE 0)
        /\ g.setCookie = f.setCookie
    BY <1>t, <1>f, <2>0, <2>3 DEF CallFrame
  <2>5. ~Minted(g) /\ Shape(g)'
    BY <1>t, <1>f, <2>1, <2>4 DEF Shape, Minted
  <2>6. /\ opsess' \subseteq 1 .. (nextSid' - 1) /\ lapsed' \subseteq opsess'
        /\ \A x \in Nat : Live(x)' => Live(x)
    BY <1>t, <2>1, NoneRevived
  <2>7. f.cookie \in opsess' \ lapsed' => Ok(g) /\ g.token = f.cookie
    BY <1>f, <2>4, <2>6 DEF Ok, Live
  <2>8. Serves(k, g)
    BY <1>0, <1>t, <1>f, <2>1, <2>2, <2>4, <2>5, <2>6, <2>7 DEF Serves
  <2>9. QED
    BY <2>8
<1>6. CASE SessionDelete(k)
  <2>0. PICK a, g : a = Answer(f, "ok") /\ g = [a EXCEPT !.setCookie = "clear"]
    OBVIOUS
  <2>1. /\ f.pc = "run" /\ f.op = "logout" /\ Forget(f.cookie)
        /\ UNCHANGED <<peer, nextSid>>
    BY <1>0, <1>6 DEF SessionDelete
  <2>2. Becomes(k, g)
    BY <1>0, <1>6, <2>0 DEF SessionDelete
  <2>3. /\ a \in CallFrame /\ a.pc = "answered" /\ a.result = "ok"
        /\ a.page = f.page /\ a.op = f.op /\ a.view = f.view /\ a.cookie = 0
        /\ a.token = f.token
    BY <1>t, <2>0, AnswerFrame
  <2>4. /\ g \in CallFrame /\ g.pc = "answered" /\ g.result = "ok"
        /\ g.page = f.page /\ g.op = f.op /\ g.view = f.view /\ g.cookie = 0
        /\ g.token = f.token /\ g.setCookie = "clear"
    BY <2>0, <2>3 DEF CallFrame
  <2>5. ~Minted(g) /\ Shape(g)'
    BY <1>t, <1>f, <2>1, <2>4 DEF Shape, Minted
  <2>6. /\ opsess' \subseteq 1 .. (nextSid' - 1) /\ lapsed' \subseteq opsess'
        /\ \A x \in Nat : Live(x)' => Live(x)
    BY <1>t, <2>1, NoneRevived
  <2>7. Serves(k, g)
    BY <1>0, <1>t, <1>f, <2>1, <2>2, <2>4, <2>5, <2>6 DEF Serves
  <2>8. QED
    BY <2>7
<1>7. QED
  BY <1>1, <1>2, <1>3, <1>4, <1>5, <1>6 DEF Server

-----------------------------------------------------------------------------
(* What every kind of step needs.                                          *)

\* The invariant bounds the sessions by the pages, and so by the constants.
LEMMA Bounds ==
    ASSUME TypeOK, Frames, Pages, Counted
    PROVE  /\ nextSid \in Nat \ {0} /\ loads \in 0 .. MaxLoads /\ MaxLoads \in Nat
           /\ nextSid <= loads + 1 /\ jar \in 0 .. (nextSid - 1)
           /\ \A x : Live(x) => x \in 1 .. MaxLoads /\ x < nextSid
           /\ \A k \in Slots : /\ call[k] \in CallFrame /\ call[k].page \in Nat
                               /\ call[k].cookie \in 0 .. (nextSid - 1)
                               /\ call[k].token \in 0 .. (nextSid - 1)
           /\ \A t \in Tabs : tab[t] \in Page /\ tab[t].page \in Nat /\ tab[t].csrf \in Nat
           /\ \A x \in 1 .. MaxLoads : origin[x] \in Nat
<1>1. /\ nextSid \in Nat \ {0} /\ loads \in 0 .. MaxLoads /\ MaxLoads \in Nat
      /\ opsess \subseteq 1 .. (nextSid - 1)
  BY BoundAssumption DEF TypeOK, SessionTypeOK
<1>2. Cardinality(Pending) \in Nat
  BY FS_CardinalityType DEF Counted
<1>3. nextSid <= loads + 1
  BY <1>1, <1>2 DEF Counted
<1>4. jar \in 0 .. (nextSid - 1)
  BY <1>1 DEF TypeOK, Pages
<1>5. \A x : Live(x) => x \in 1 .. MaxLoads /\ x < nextSid
  BY <1>1, <1>3 DEF Live
<1>6. \A k \in Slots : /\ call[k] \in CallFrame /\ call[k].page \in Nat
                       /\ call[k].cookie \in 0 .. (nextSid - 1)
                       /\ call[k].token \in 0 .. (nextSid - 1)
  <2> TAKE k \in Slots
  <2>1. call[k] \in CallFrame /\ Shape(call[k])
    BY DEF TypeOK, SessionTypeOK, Frames
  <2>2. call[k].page \in Nat /\ call[k].cookie \in Nat /\ call[k].token \in Nat
    BY <2>1 DEF CallFrame
  <2>3. call[k].cookie < nextSid /\ call[k].token < nextSid
    BY <2>1 DEF Shape
  <2>4. QED
    BY <1>1, <2>1, <2>2, <2>3
<1>7. \A t \in Tabs : tab[t] \in Page /\ tab[t].page \in Nat /\ tab[t].csrf \in Nat
  BY DEF TypeOK, Page
<1>8. \A x \in 1 .. MaxLoads : origin[x] \in Nat
  BY <1>1 DEF TypeOK
<1>9. QED
  BY <1>1, <1>3, <1>4, <1>5, <1>6, <1>7, <1>8

\* A frame that replaces one leaves the others alone.
LEMMA Replaced ==
    ASSUME TypeOK, NEW k \in Slots, NEW g \in CallFrame, Becomes(k, g)
    PROVE  /\ call' \in [Slots -> CallFrame]
           /\ call'[k] = g
           /\ \A j \in Slots : j # k => call'[j] = call[j]
BY DEF TypeOK, SessionTypeOK, Becomes

\* The arithmetic of the count: n sessions, l loads, c waiting calls.
LEMMA CountUp ==
    ASSUME NEW n \in Nat, NEW m \in Nat, NEW l \in Nat, NEW q \in Nat,
           NEW c \in Nat, NEW v \in {0, 1}, NEW w \in {0, 1},
           n + c <= l + 1, m + w + l <= n + v + q
    PROVE  m + (c + w - v) <= q + 1
OBVIOUS

\* The bound of the sessions survives a step that makes one for a waiting
\* call, or a waiting call for a new page.
LEMMA Recount ==
    ASSUME TypeOK, Counted, NEW k \in Slots, NEW g \in CallFrame, Becomes(k, g),
           nextSid' \in Nat, loads' \in Nat,
           nextSid' + Weight(g) + loads <= nextSid + Weight(call[k]) + loads'
    PROVE  Counted'
<1>1. nextSid \in Nat /\ loads \in Nat /\ Cardinality(Pending) \in Nat
  BY BoundAssumption, FS_CardinalityType DEF TypeOK, SessionTypeOK, Counted
<1>2. Pending' = IF Waiting(g) THEN Pending \cup {k} ELSE Pending \ {k}
  BY Replaced DEF Pending
<1>3. k \in Pending <=> Waiting(call[k])
  BY DEF Pending
<1>4. IsFiniteSet(Pending)
  BY DEF Counted
<1>5. PICK c, w, v : /\ c = Cardinality(Pending) /\ nextSid + c <= loads + 1
                     /\ w = Weight(g) /\ v = Weight(call[k])
                     /\ nextSid' + w + loads <= nextSid + v + loads'
  BY DEF Counted
<1>6. c \in Nat /\ v \in {0, 1} /\ (v = 1 <=> k \in Pending) /\ w \in {0, 1}
  BY <1>1, <1>3, <1>5 DEF Weight
<1>7. IsFiniteSet(Pending') /\ Cardinality(Pending') = c + w - v
  <2>1. CASE Waiting(g)
    <3>1. /\ IsFiniteSet(Pending')
          /\ Cardinality(Pending') =
               IF k \in Pending THEN Cardinality(Pending) ELSE Cardinality(Pending) + 1
      BY <1>2, <1>4, <2>1, FS_AddElement
    <3>2. w = 1
      BY <1>5, <2>1 DEF Weight
    <3>3. QED
      BY <3>1, <3>2, <1>5, <1>6
  <2>2. CASE ~Waiting(g)
    <3>1. /\ IsFiniteSet(Pending')
          /\ Cardinality(Pending') =
               IF k \in Pending THEN Cardinality(Pending) - 1 ELSE Cardinality(Pending)
      BY <1>2, <1>4, <2>2, FS_RemoveElement
    <3>2. w = 0
      BY <1>5, <2>2 DEF Weight
    <3>3. QED
      BY <3>1, <3>2, <1>5, <1>6
  <2>3. QED
    BY <2>1, <2>2
<1>8. nextSid' + (c + w - v) <= loads' + 1
  BY <1>1, <1>5, <1>6, CountUp
<1>9. QED
  BY <1>7, <1>8, Zenon DEF Counted

-----------------------------------------------------------------------------
(* The server keeps the invariant.                                         *)

\* No step of the server disturbs what pages and calls know of each other: a
\* new session is nobody's yet, and a refusal means that the session is not
\* the page's own.
LEMMA ServesKeeps ==
    ASSUME CInv, NEW k \in Slots, NEW g, Serves(k, g)
    PROVE  CInv'
<1>1. /\ TypeOK /\ Frames /\ Pages /\ Counted /\ Fresh /\ Chains /\ Tokens
      /\ CsrfRefusalExplained /\ StartupNeverStalls /\ Lists
  BY DEF CInv
<1>2. /\ nextSid \in Nat \ {0} /\ loads \in 0 .. MaxLoads /\ MaxLoads \in Nat
      /\ nextSid <= loads + 1 /\ jar \in 0 .. (nextSid - 1)
      /\ \A x : Live(x) => x \in 1 .. MaxLoads /\ x < nextSid
      /\ \A j \in Slots : /\ call[j] \in CallFrame /\ call[j].page \in Nat
                          /\ call[j].cookie \in 0 .. (nextSid - 1)
                          /\ call[j].token \in 0 .. (nextSid - 1)
      /\ \A t \in Tabs : tab[t] \in Page /\ tab[t].page \in Nat /\ tab[t].csrf \in Nat
  BY <1>1, Bounds
<1>3. /\ UNCHANGED <<peer, jar, tab, loads, clicks, origin>>
      /\ g \in CallFrame /\ Becomes(k, g) /\ Shape(g)'
      /\ call[k].pc \in {"sent", "run"} /\ g.pc \in {"run", "answered"}
      /\ g.page = call[k].page /\ g.op = call[k].op /\ g.view = call[k].view
      /\ g.cookie \in {0, call[k].cookie}
  BY DEF Serves, browserVars
<1>4. /\ call' \in [Slots -> CallFrame] /\ call'[k] = g
      /\ \A j \in Slots : j # k => call'[j] = call[j]
  BY <1>1, <1>3, Replaced
<1>5. /\ nextSid' \in Nat \ {0}
      /\ IF Minted(g) THEN nextSid' = nextSid + 1 /\ g.token = nextSid
         ELSE nextSid' = nextSid
  BY <1>2 DEF Serves
<1>6. \A x \in 0 .. (nextSid - 1) : Live(x)' => Live(x)
  BY <1>2 DEF Serves
<1>7. /\ \A t \in Tabs : Owns(t, jar)' => Owns(t, jar)
      /\ \A t \in Tabs, j \in Slots : j # k =>
           (Owns(t, call[j].cookie)' => Owns(t, call[j].cookie))
  BY <1>2, <1>3, <1>4, <1>6 DEF Owns
<1>8. ~Minted(call[k])
  BY <1>3 DEF Minted
<1>11. TypeOK'
  <2>1. SessionTypeOK'
    BY <1>1, <1>3, <1>4, <1>5 DEF SessionTypeOK, TypeOK, Serves
  <2>2. QED
    BY <1>1, <1>3, <2>1 DEF TypeOK
<1>12. Frames'
  BY <1>1, <1>2, <1>3, <1>4, <1>5 DEF Frames, Shape
<1>13. Pages'
  BY <1>1, <1>2, <1>3, <1>5 DEF Pages
<1>14. Counted'
  <2>1. nextSid' + Weight(g) <= nextSid + Weight(call[k])
    <3>1. CASE Minted(g)
      <4>1. Waiting(call[k]) /\ ~Waiting(g)
        BY <3>1, <1>3 DEF Minted, Waiting
      <4>2. QED
        BY <4>1, <3>1, <1>2, <1>5 DEF Weight
    <3>2. CASE ~Minted(g)
      <4>1. Waiting(g) => Waiting(call[k])
        BY <1>3 DEF Waiting
      <4>2. QED
        BY <4>1, <3>2, <1>2, <1>5 DEF Weight
    <3>3. QED
      BY <3>1, <3>2
  <2>2. Weight(g) \in {0, 1} /\ Weight(call[k]) \in {0, 1}
    BY DEF Weight
  <2>3. nextSid' + Weight(g) + loads <= nextSid + Weight(call[k]) + loads'
    BY <2>1, <2>2, <1>2, <1>3, <1>5
  <2>4. QED
    BY <2>3, <1>1, <1>2, <1>3, <1>5, Recount
<1>15. Fresh'
  <2> SUFFICES ASSUME NEW i \in Slots, Minted(call'[i])
               PROVE  /\ jar' # call'[i].token
                      /\ \A j \in Slots : call'[j].cookie # call'[i].token
                      /\ \A j \in Slots : /\ Minted(call'[j])
                                          /\ call'[j].token = call'[i].token
                                          => j = i
    BY DEF Fresh, Minted
  <2>1. CASE i = k
    <3>1. call'[i].token = nextSid
      BY <2>1, <1>4, <1>5
    <3>2. jar' # nextSid
      BY <1>2, <1>3
    <3>3. \A j \in Slots : call'[j].cookie # nextSid
      BY <1>2, <1>3, <1>4
    <3>4. \A j \in Slots : call'[j].token = nextSid => j = k
      BY <1>2, <1>4
    <3>5. QED
      BY <2>1, <3>1, <3>2, <3>3, <3>4
  <2>2. CASE i # k
    <3>1. call'[i] = call[i] /\ Minted(call[i])
      BY <2>2, <1>4
    <3>2. call[i].token # 0 /\ call[i].token < nextSid
      BY <3>1, <1>1, <1>2 DEF Frames, Shape
    <3>3. /\ jar # call[i].token
          /\ \A j \in Slots : call[j].cookie # call[i].token
          /\ \A j \in Slots : Minted(call[j]) /\ call[j].token = call[i].token => j = i
      BY <3>1, <1>1 DEF Fresh
    <3>4. \A j \in Slots : call'[j].cookie # call[i].token
      BY <3>2, <3>3, <1>3, <1>4
    <3>5. ~(Minted(g) /\ g.token = call[i].token)
      BY <3>2, <1>2, <1>5
    <3>6. QED
      BY <3>1, <3>3, <3>4, <3>5, <1>3, <1>4
  <2>3. QED
    BY <2>1, <2>2
<1>16. Chains'
  BY <1>1, <1>3, <1>4 DEF Chains, Busy
<1>17. Tokens'
  <2>1. \A t \in Tabs : tab'[t].page # 0 /\ ~tab'[t].early /\ Owns(t, jar)' => tab'[t].csrf = jar'
    BY <1>1, <1>3, <1>7 DEF Tokens
  <2>2. ASSUME NEW t \in Tabs, NEW j \in Slots, call'[j].pc # "idle", call'[j].op = "who2",
               call'[j].page = tab'[t].page, Owns(t, jar)', call'[j].setCookie = "keep"
        PROVE  IF call'[j].pc = "answered" THEN Ok(call'[j]) /\ call'[j].token = jar'
               ELSE call'[j].cookie = jar'
    <3>1. Owns(t, jar)
      BY <2>2, <1>7
    <3>2. CASE j # k
      BY <2>2, <3>1, <3>2, <1>1, <1>3, <1>4 DEF Tokens, Busy
    <3>3. CASE j = k
      <4>1. call[k].setCookie = "keep"
        <5>1. CASE call[k].pc = "sent"
          BY <5>1, <1>1 DEF Frames, Shape
        <5>2. CASE call[k].pc = "run"
          BY <5>2, <2>2, <3>3, <1>4 DEF Serves
        <5>3. QED
          BY <5>1, <5>2, <1>3
      <4>2. call[k].cookie = jar
        BY <4>1, <2>2, <3>1, <3>3, <1>1, <1>3, <1>4 DEF Tokens, Busy
      <4>3. jar \in opsess' \ lapsed'
        BY <2>2, <1>3 DEF Owns, Live
      <4>4. IF g.pc = "answered" THEN Ok(g) /\ g.token = call[k].cookie
            ELSE g.cookie = call[k].cookie
        BY <2>2, <3>3, <4>2, <4>3, <1>4 DEF Serves
      <4>5. QED
        BY <3>3, <4>2, <4>4, <1>3, <1>4
    <3>4. QED
      BY <3>2, <3>3
  <2>3. \A t \in Tabs, j \in Slots :
          /\ call'[j].pc # "idle" /\ call'[j].op \in {"logout", "who"}
          /\ call'[j].page = tab'[t].page /\ ~tab'[t].early
          => tab'[t].phase = "ready" /\ (call'[j].op = "who" => ~Owns(t, jar)')
    BY <1>1, <1>3, <1>4, <1>7 DEF Tokens, Busy
  <2>4. \A t \in Tabs, j \in Slots :
          /\ call'[j].pc = "sent" /\ call'[j].op \notin Gets /\ call'[j].page = tab'[t].page
          /\ ~tab'[t].early /\ Owns(t, call[j].cookie)'
          => call'[j].csrf = call'[j].cookie
    BY <1>1, <1>3, <1>4, <1>7 DEF Tokens, Owns, Live
  <2>5. QED
    BY <2>1, <2>2, <2>3, <2>4 DEF Tokens, Busy, Ok
<1>18. CsrfRefusalExplained'
  <2> SUFFICES ASSUME NEW t \in Tabs, NEW j \in Slots, call'[j].page = tab[t].page,
                      call'[j].result = "csrf", ~tab[t].early
               PROVE  origin[call'[j].cookie] # tab[t].page
    BY <1>3 DEF CsrfRefusalExplained
  <2>1. CASE j # k
    BY <2>1, <1>1, <1>4 DEF CsrfRefusalExplained
  <2>2. CASE j = k
    <3>1. /\ call[k].pc = "sent" /\ call[k].op \notin Gets /\ Live(call[k].cookie)
          /\ g.cookie = call[k].cookie /\ call[k].csrf # call[k].cookie
      BY <2>2, <1>4 DEF Serves
    <3>2. ~Owns(t, call[k].cookie)
      BY <2>2, <3>1, <1>1, <1>3, <1>4 DEF Tokens
    <3>3. QED
      BY <2>2, <3>1, <3>2, <1>4 DEF Owns
  <2>3. QED
    BY <2>1, <2>2
<1>19. StartupNeverStalls'
  BY <1>1, <1>3, <1>4 DEF StartupNeverStalls
<1>20. Lists'
  BY <1>1, <1>3, <1>4 DEF Lists
<1>21. QED
  BY <1>11, <1>12, <1>13, <1>14, <1>15, <1>16, <1>17, <1>18, <1>19, <1>20 DEF CInv

-----------------------------------------------------------------------------
(* The user keeps the invariant.                                           *)

\* A click: a call for a list, a write or a sign-out goes out with the token
\* and the cookie as they are; what the page shows stays, what it marks may
\* become what it asks for.
Asks(t, k, p, op, view) ==
    /\ tab[t].page # 0 /\ call[k].pc = "idle"
    /\ op \in {"load", "write", "logout"} /\ view \in Views
    /\ p \in Page /\ p.page = tab[t].page /\ p.phase = tab[t].phase
    /\ p.csrf = tab[t].csrf /\ p.painted = tab[t].painted
    /\ p.view = tab[t].view \/ (op = "load" /\ p.view = view)
    /\ tab[t].early => p.early
    /\ op = "logout" /\ tab[t].phase = "starting" => p.early
    /\ Shows(t, p) /\ Sends(k, tab[t], op, view)
    /\ clicks' \in 0 .. MaxClicks /\ UNCHANGED browserKept

\* Every click is of that kind.
LEMMA ClicksAsk ==
    ASSUME CInv, NEW t \in Tabs, NEW k \in Slots,
           Write(t, k) \/ Logout(t, k) \/ (\E v \in Views : Navigate(t, k, v))
    PROVE  \E p, op, view : Asks(t, k, p, op, view)
<1>1. TypeOK /\ Pages /\ tab[t] \in Page /\ NoView \in Views /\ tab \in [Tabs -> Page]
  BY EmptyFrame DEF CInv, TypeOK
<1>2. Clicks(k) => call[k].pc = "idle" /\ clicks' \in 0 .. MaxClicks
  BY <1>1, BoundAssumption DEF Clicks, Free, TypeOK
<1>3. CASE Write(t, k)
  <2>1. /\ tab[t].painted \in Editable /\ Clicks(k)
        /\ Sends(k, tab[t], "write", tab[t].painted) /\ UNCHANGED <<tab, browserKept>>
    BY <1>3 DEF Write
  <2>2. tab[t].painted \in Views
    BY <1>1, <2>1 DEF Page, Editable
  <2>3. tab[t].page # 0
    BY <1>1, <2>1 DEF Pages, Editable
  <2>4. Shows(t, tab[t])
    BY <1>1, <2>1 DEF Shows
  <2>5. Asks(t, k, tab[t], "write", tab[t].painted)
    BY <1>1, <1>2, <2>1, <2>2, <2>3, <2>4 DEF Asks
  <2>6. QED
    BY <2>5
<1>4. CASE Logout(t, k)
  <2>0. PICK p : p = [tab[t] EXCEPT !.early = @ \/ tab[t].phase = "starting"]
    OBVIOUS
  <2>1. /\ tab[t].page # 0 /\ Clicks(k) /\ Sends(k, tab[t], "logout", NoView)
        /\ Shows(t, p) /\ UNCHANGED browserKept
    BY <1>4, <2>0 DEF Logout
  <2>2. /\ p \in Page /\ p.page = tab[t].page /\ p.phase = tab[t].phase
        /\ p.csrf = tab[t].csrf /\ p.painted = tab[t].painted /\ p.view = tab[t].view
        /\ p.early = (tab[t].early \/ tab[t].phase = "starting")
    BY <1>1, <2>0 DEF Page
  <2>3. (tab[t].early => p.early) /\ (tab[t].phase = "starting" => p.early)
    BY <2>2, Zenon
  <2>4. Asks(t, k, p, "logout", NoView)
    BY <1>1, <1>2, <2>1, <2>2, <2>3 DEF Asks
  <2>5. QED
    BY <2>4
<1>5. CASE \E v \in Views : Navigate(t, k, v)
  <2>v. PICK v \in Views : Navigate(t, k, v)
    BY <1>5
  <2>0. PICK p : p = [tab[t] EXCEPT !.view = v]
    OBVIOUS
  <2>1. /\ tab[t].page # 0 /\ Clicks(k) /\ Sends(k, tab[t], "load", v)
        /\ Shows(t, p) /\ UNCHANGED browserKept
    BY <2>v, <2>0 DEF Navigate
  <2>2. /\ p \in Page /\ p.page = tab[t].page /\ p.phase = tab[t].phase
        /\ p.csrf = tab[t].csrf /\ p.painted = tab[t].painted /\ p.view = v
        /\ p.early = tab[t].early
    BY <1>1, <2>0 DEF Page
  <2>3. Asks(t, k, p, "load", v)
    BY <1>1, <1>2, <2>1, <2>2 DEF Asks
  <2>4. QED
    BY <2>3
<1>6. QED
  BY <1>3, <1>4, <1>5

\* A click takes a token and a cookie that belong together, unless the cookie
\* is another page's or the page had already signed out.
LEMMA AsksKeeps ==
    ASSUME CInv, NEW t \in Tabs, NEW k \in Slots, NEW p, NEW op, NEW view,
           Asks(t, k, p, op, view)
    PROVE  CInv'
<1>1. /\ TypeOK /\ Frames /\ Pages /\ Counted /\ Fresh /\ Chains /\ Tokens
      /\ CsrfRefusalExplained /\ StartupNeverStalls /\ Lists
  BY DEF CInv
<1>2. /\ nextSid \in Nat \ {0} /\ loads \in 0 .. MaxLoads /\ MaxLoads \in Nat
      /\ nextSid <= loads + 1 /\ jar \in 0 .. (nextSid - 1)
      /\ \A j \in Slots : /\ call[j] \in CallFrame /\ call[j].page \in Nat
                          /\ call[j].cookie \in 0 .. (nextSid - 1)
                          /\ call[j].token \in 0 .. (nextSid - 1)
      /\ \A s \in Tabs : tab[s] \in Page /\ tab[s].page \in Nat /\ tab[s].csrf \in Nat
  BY <1>1, Bounds
<1>3. /\ UNCHANGED <<peer, opsess, lapsed, nextSid, jar, loads, origin>>
      /\ tab[t].page # 0 /\ call[k].pc = "idle"
      /\ op \in {"load", "write", "logout"} /\ op \in Ops /\ view \in Views
      /\ p \in Page /\ p.page = tab[t].page /\ p.phase = tab[t].phase
      /\ p.csrf = tab[t].csrf /\ p.painted = tab[t].painted
      /\ p.view = tab[t].view \/ (op = "load" /\ p.view = view)
      /\ tab[t].early => p.early
      /\ op = "logout" /\ tab[t].phase = "starting" => p.early
  BY DEF Asks, browserKept, Ops
<1>4. PICK g : g = Api(tab[t], jar, op, view)
  OBVIOUS
<1>5. /\ g \in CallFrame /\ g.pc = "sent" /\ g.page = tab[t].page /\ g.op = op
      /\ g.view = view /\ g.cookie = jar /\ g.result = "none" /\ g.token = 0
      /\ g.setCookie = "keep" /\ (op \notin Gets => g.csrf = tab[t].csrf)
  BY <1>2, <1>3, <1>4, SentFrame
<1>6. Becomes(k, g)
  BY <1>4 DEF Asks, Sends, Becomes
<1>7. /\ call' \in [Slots -> CallFrame] /\ call'[k] = g
      /\ \A j \in Slots : j # k => call'[j] = call[j]
  BY <1>1, <1>5, <1>6, Replaced
<1>8. /\ tab' \in [Tabs -> Page] /\ tab'[t] = p /\ (\A s \in Tabs : s # t => tab'[s] = tab[s])
      /\ \A s \in Tabs : /\ tab'[s].page = tab[s].page /\ tab'[s].phase = tab[s].phase
                         /\ tab'[s].csrf = tab[s].csrf /\ tab'[s].painted = tab[s].painted
                         /\ tab[s].early => tab'[s].early
  BY <1>1, <1>3 DEF Asks, Shows, TypeOK
<1>9. /\ call[k] = NoCall /\ call[k].page = 0 /\ ~Minted(call[k]) /\ ~Minted(g)
      /\ ~Waiting(call[k]) /\ ~Waiting(g)
  BY <1>1, <1>3, <1>5, EmptyFrame DEF Frames, Shape, Minted, Waiting
<1>10. \A s \in Tabs : s # t => tab[s].page # g.page
  BY <1>1, <1>3, <1>5 DEF Pages
<1>11. TypeOK'
  <2>1. SessionTypeOK'
    BY <1>1, <1>3, <1>7 DEF SessionTypeOK, TypeOK
  <2>2. QED
    BY <1>1, <1>3, <1>8, <2>1 DEF TypeOK, Asks
<1>12. Frames'
  <2>1. g.page \in 1 .. loads
    BY <1>1, <1>2, <1>3, <1>5 DEF Pages
  <2>2. QED
    BY <1>1, <1>2, <1>3, <1>5, <1>7, <1>9, <2>1 DEF Frames, Shape, Minted
<1>13. Pages'
  BY <1>1, <1>3, <1>8 DEF Pages
<1>14. Counted'
  <2>1. Weight(g) = 0 /\ Weight(call[k]) = 0
    BY <1>9 DEF Weight
  <2>2. QED
    BY <2>1, <1>1, <1>2, <1>3, <1>5, <1>6, Recount
<1>15. Fresh'
  BY <1>1, <1>3, <1>5, <1>7, <1>9 DEF Fresh, Minted
<1>16. Chains'
  BY <1>1, <1>3, <1>5, <1>7, <1>8 DEF Chains, Busy, StartUp
<1>17. Tokens'
  <2>1. /\ \A s \in Tabs : Owns(s, jar)' <=> Owns(s, jar)
        /\ \A s \in Tabs, j \in Slots : j # k =>
             (Owns(s, call[j].cookie)' <=> Owns(s, call[j].cookie))
        /\ \A s \in Tabs : Owns(s, call[k].cookie)' <=> Owns(s, jar)
    BY <1>3, <1>5, <1>7, <1>8 DEF Owns, Live
  <2>2. \A s \in Tabs : tab'[s].page # 0 /\ ~tab'[s].early /\ Owns(s, jar)' => tab'[s].csrf = jar'
    BY <1>1, <1>3, <1>8, <2>1 DEF Tokens
  <2>3. \A s \in Tabs, j \in Slots :
          /\ call'[j].pc # "idle" /\ call'[j].op = "who2" /\ call'[j].page = tab'[s].page
          /\ Owns(s, jar)' /\ call'[j].setCookie = "keep"
          => IF call'[j].pc = "answered" THEN Ok(call'[j]) /\ call'[j].token = jar'
             ELSE call'[j].cookie = jar'
    BY <1>1, <1>3, <1>5, <1>7, <1>8, <2>1 DEF Tokens, Busy
  <2>4. \A s \in Tabs, j \in Slots :
          /\ call'[j].pc # "idle" /\ call'[j].op \in {"logout", "who"}
          /\ call'[j].page = tab'[s].page /\ ~tab'[s].early
          => tab'[s].phase = "ready" /\ (call'[j].op = "who" => ~Owns(s, jar)')
    <3> TAKE s \in Tabs, j \in Slots
    <3>1. CASE j # k
      BY <3>1, <1>1, <1>7, <1>8, <2>1 DEF Tokens, Busy
    <3>2. CASE j = k /\ s = t
      BY <3>2, <1>2, <1>3, <1>5, <1>7, <1>8 DEF Page
    <3>3. CASE j = k /\ s # t
      BY <3>3, <1>7, <1>8, <1>10
    <3>4. QED
      BY <3>1, <3>2, <3>3
  <2>5. \A s \in Tabs, j \in Slots :
          /\ call'[j].pc = "sent" /\ call'[j].op \notin Gets /\ call'[j].page = tab'[s].page
          /\ ~tab'[s].early /\ Owns(s, call[j].cookie)'
          => call'[j].csrf = call'[j].cookie
    <3> TAKE s \in Tabs, j \in Slots
    <3>1. CASE j # k
      BY <3>1, <1>1, <1>7, <1>8, <2>1 DEF Tokens
    <3>2. CASE j = k /\ s = t
      BY <3>2, <1>1, <1>3, <1>5, <1>7, <1>8, <2>1 DEF Tokens
    <3>3. CASE j = k /\ s # t
      BY <3>3, <1>7, <1>8, <1>10
    <3>4. QED
      BY <3>1, <3>2, <3>3
  <2>6. QED
    BY <2>2, <2>3, <2>4, <2>5 DEF Tokens, Busy, Ok
<1>18. CsrfRefusalExplained'
  BY <1>1, <1>3, <1>5, <1>7, <1>8 DEF CsrfRefusalExplained
<1>19. StartupNeverStalls'
  BY <1>1, <1>3, <1>7, <1>8 DEF StartupNeverStalls
<1>20. Lists'
  <2> SUFFICES ASSUME NEW s \in Tabs, tab'[s].page # 0, tab'[s].phase = "ready",
                      tab'[s].painted \notin {tab'[s].view, "blank"}
               PROVE  \E j \in Slots : /\ call'[j].page = tab'[s].page
                                       /\ call'[j].op = "load" /\ call'[j].view = tab'[s].view
    BY DEF Lists
  <2>1. CASE s = t /\ p.view # tab[t].view
    <3>1. call'[k].page = tab'[s].page /\ call'[k].op = "load" /\ call'[k].view = tab'[s].view
      BY <2>1, <1>3, <1>5, <1>7, <1>8
    <3>2. QED
      BY <3>1
  <2>2. CASE s # t \/ p.view = tab[t].view
    <3>1. tab'[s].view = tab[s].view
      BY <2>2, <1>8
    <3>2. PICK j \in Slots : /\ call[j].page = tab[s].page
                             /\ call[j].op = "load" /\ call[j].view = tab[s].view
      BY <3>1, <1>1, <1>8 DEF Lists
    <3>3. j # k
      BY <3>2, <1>8, <1>9
    <3>4. call'[j].page = tab'[s].page /\ call'[j].op = "load" /\ call'[j].view = tab'[s].view
      BY <3>1, <3>2, <3>3, <1>7, <1>8
    <3>5. QED
      BY <3>4
  <2>3. QED
    BY <2>1, <2>2
<1>21. QED
  BY <1>11, <1>12, <1>13, <1>14, <1>15, <1>16, <1>17, <1>18, <1>19, <1>20 DEF CInv

\* A page that is opened is known to nobody: its number is new, it owns no
\* session, and its start-up has one call.
LEMMA OpenKeeps ==
    ASSUME CInv, NEW t \in Tabs, NEW k \in Slots, Open(t, k)
    PROVE  CInv'
<1>1. /\ TypeOK /\ Frames /\ Pages /\ Counted /\ Fresh /\ Chains /\ Tokens
      /\ CsrfRefusalExplained /\ StartupNeverStalls /\ Lists
  BY DEF CInv
<1>2. /\ nextSid \in Nat \ {0} /\ loads \in 0 .. MaxLoads /\ MaxLoads \in Nat
      /\ nextSid <= loads + 1 /\ jar \in 0 .. (nextSid - 1)
      /\ \A x : Live(x) => x \in 1 .. MaxLoads /\ x < nextSid
      /\ \A j \in Slots : /\ call[j] \in CallFrame /\ call[j].page \in Nat
                          /\ call[j].cookie \in 0 .. (nextSid - 1)
                          /\ call[j].token \in 0 .. (nextSid - 1)
      /\ \A s \in Tabs : tab[s] \in Page /\ tab[s].page \in Nat /\ tab[s].csrf \in Nat
      /\ \A x \in 1 .. MaxLoads : origin[x] \in Nat
  BY <1>1, Bounds
<1>3. PICK p, g : /\ p = [EmptyTab EXCEPT !.page = loads', !.phase = "starting",
                                          !.painted = "loading"]
                  /\ g = Api(p, jar, "who1", NoView)
  OBVIOUS
<1>4. /\ loads < MaxLoads /\ call[k].pc = "idle" /\ loads' = loads + 1
      /\ Shows(t, p) /\ Becomes(k, g)
      /\ UNCHANGED <<peer, opsess, lapsed, nextSid, jar, clicks, origin>>
  BY <1>3 DEF Open, Free, Sends, Becomes
<1>5. /\ p \in Page /\ p.page = loads + 1 /\ p.phase = "starting"
      /\ p.csrf = 0 /\ p.painted = "loading" /\ p.early = FALSE
  <2>1. p = [page |-> loads + 1, phase |-> "starting", csrf |-> 0, view |-> NoView,
             painted |-> "loading", early |-> FALSE]
    BY <1>3, <1>4 DEF EmptyTab
  <2>2. loads + 1 \in Nat /\ NoView \in Views
    BY <1>2, EmptyFrame
  <2>3. QED
    BY <2>1, <2>2 DEF Page
<1>6. /\ g \in CallFrame /\ g.pc = "sent" /\ g.page = loads + 1 /\ g.op = "who1"
      /\ g.cookie = jar /\ g.result = "none" /\ g.token = 0 /\ g.setCookie = "keep"
  <2>1. p.page \in Nat /\ p.csrf \in Nat /\ jar \in Nat /\ "who1" \in Ops
    BY <1>2, <1>5 DEF Ops
  <2>2. g = Api(p, jar, "who1", NoView) /\ NoView \in Views
    BY <1>3, EmptyFrame
  <2>3. QED
    BY <2>1, <2>2, <1>5, SentFrame
<1>7. /\ call' \in [Slots -> CallFrame] /\ call'[k] = g
      /\ \A j \in Slots : j # k => call'[j] = call[j]
  BY <1>1, <1>4, <1>6, Replaced
<1>8. /\ tab' \in [Tabs -> Page] /\ tab'[t] = p
      /\ \A s \in Tabs : s # t => tab'[s] = tab[s]
  BY <1>1, <1>4, <1>5 DEF Shows, TypeOK
<1>9. /\ call[k] = NoCall /\ call[k].page = 0 /\ ~Minted(call[k]) /\ ~Minted(g)
      /\ ~Waiting(call[k]) /\ Waiting(g)
  BY <1>1, <1>4, <1>6, EmptyFrame DEF Frames, Shape, Minted, Waiting
<1>10. /\ \A j \in Slots : call[j].page # loads + 1
       /\ \A s \in Tabs : tab[s].page # loads + 1
       /\ \A x \in 1 .. MaxLoads : origin[x] # loads + 1
  <2>1. \A j \in Slots : call[j].page <= loads
    BY <1>1, <1>2, EmptyFrame DEF Frames, Shape
  <2>2. (\A s \in Tabs : tab[s].page <= loads) /\ (\A x \in 1 .. MaxLoads : origin[x] <= loads)
    BY <1>1 DEF Pages
  <2>3. QED
    BY <1>2, <2>1, <2>2
<1>11. TypeOK'
  <2>1. SessionTypeOK'
    BY <1>1, <1>4, <1>7 DEF SessionTypeOK, TypeOK
  <2>2. loads' \in 0 .. MaxLoads
    BY <1>2, <1>4
  <2>3. QED
    BY <1>1, <1>4, <1>8, <2>1, <2>2 DEF TypeOK
<1>12. Frames'
  BY <1>1, <1>2, <1>4, <1>6, <1>7, <1>9 DEF Frames, Shape, Minted
<1>13. Pages'
  BY <1>1, <1>2, <1>4, <1>5, <1>8, <1>10 DEF Pages
<1>14. Counted'
  <2>1. Weight(g) = 1 /\ Weight(call[k]) = 0
    BY <1>9 DEF Weight
  <2>2. QED
    BY <2>1, <1>1, <1>2, <1>4, <1>6, Recount
<1>15. Fresh'
  BY <1>1, <1>4, <1>6, <1>7, <1>9 DEF Fresh, Minted
<1>16. Chains'
  <2>1. \A i, j \in Slots : /\ call'[i].pc # "idle" /\ call'[j].pc # "idle"
                            /\ call'[i].page = call'[j].page
                            /\ call'[i].op \in StartUp /\ call'[j].op \in StartUp
                            => i = j
    BY <1>1, <1>6, <1>7, <1>10 DEF Chains, Busy
  <2>2. \A j \in Slots, s \in Tabs :
          call'[j].pc # "idle" /\ call'[j].op \in StartUp /\ call'[j].page = tab'[s].page
          => tab'[s].phase = "starting"
    BY <1>1, <1>5, <1>6, <1>7, <1>8, <1>10 DEF Chains, Busy
  <2>3. \A j \in Slots : call'[j].pc # "idle" /\ call'[j].op \in {"who1", "mintOnce"}
          => \A x \in 1 .. MaxLoads : origin'[x] # call'[j].page
    BY <1>1, <1>4, <1>6, <1>7, <1>10 DEF Chains, Busy
  <2>4. QED
    BY <2>1, <2>2, <2>3 DEF Chains, Busy
<1>17. Tokens'
  <2>1. \A sid \in Nat : ~Owns(t, sid)'
    BY <1>2, <1>4, <1>5, <1>8, <1>10 DEF Owns, Live
  <2>2. \A s \in Tabs, sid \in Nat : s # t => (Owns(s, sid)' <=> Owns(s, sid))
    BY <1>4, <1>8 DEF Owns, Live
  <2>3. \A s \in Tabs : ~Owns(t, jar)' /\ (s # t => (Owns(s, jar)' <=> Owns(s, jar)))
    BY <1>2, <1>4, <2>1, <2>2 DEF Owns, Live
  <2>4. \A s \in Tabs : tab'[s].page # 0 /\ ~tab'[s].early /\ Owns(s, jar)' => tab'[s].csrf = jar'
    BY <1>1, <1>4, <1>8, <2>3 DEF Tokens
  <2>5. \A s \in Tabs, j \in Slots :
          /\ call'[j].pc # "idle" /\ call'[j].op = "who2" /\ call'[j].page = tab'[s].page
          /\ Owns(s, jar)' /\ call'[j].setCookie = "keep"
          => IF call'[j].pc = "answered" THEN Ok(call'[j]) /\ call'[j].token = jar'
             ELSE call'[j].cookie = jar'
    BY <1>1, <1>4, <1>6, <1>7, <1>8, <2>3 DEF Tokens, Busy
  <2>6. \A s \in Tabs, j \in Slots :
          /\ call'[j].pc # "idle" /\ call'[j].op \in {"logout", "who"}
          /\ call'[j].page = tab'[s].page /\ ~tab'[s].early
          => tab'[s].phase = "ready" /\ (call'[j].op = "who" => ~Owns(s, jar)')
    BY <1>1, <1>5, <1>6, <1>7, <1>8, <1>10, <2>3 DEF Tokens, Busy
  <2>7. \A s \in Tabs, j \in Slots :
          /\ call'[j].pc = "sent" /\ call'[j].op \notin Gets /\ call'[j].page = tab'[s].page
          /\ ~tab'[s].early /\ Owns(s, call[j].cookie)'
          => call'[j].csrf = call'[j].cookie
    <3> TAKE s \in Tabs, j \in Slots
    <3>1. CASE j = k
      BY <3>1, <1>6, <1>7 DEF Gets
    <3>2. CASE j # k /\ s = t
      BY <3>2, <1>5, <1>7, <1>8, <1>10
    <3>3. CASE j # k /\ s # t
      <4>1. Owns(s, call[j].cookie)' => Owns(s, call[j].cookie)
        BY <3>3, <1>4, <1>7, <1>8 DEF Owns, Live
      <4>2. QED
        BY <4>1, <3>3, <1>1, <1>7, <1>8 DEF Tokens
    <3>4. QED
      BY <3>1, <3>2, <3>3
  <2>8. QED
    BY <2>4, <2>5, <2>6, <2>7 DEF Tokens, Busy, Ok
<1>18. CsrfRefusalExplained'
  BY <1>1, <1>4, <1>5, <1>6, <1>7, <1>8, <1>10 DEF CsrfRefusalExplained
<1>19. StartupNeverStalls'
  <2> SUFFICES ASSUME NEW s \in Tabs, tab'[s].phase = "starting"
               PROVE  \E j \in Slots : /\ call'[j].pc # "idle" /\ call'[j].page = tab'[s].page
                                       /\ call'[j].op \in {"who1", "mintOnce", "who2", "refreshMeta"}
    BY DEF StartupNeverStalls
  <2>1. CASE s = t
    BY <2>1, <1>5, <1>6, <1>7, <1>8
  <2>2. CASE s # t
    BY <2>2, <1>1, <1>4, <1>7, <1>8 DEF StartupNeverStalls
  <2>3. QED
    BY <2>1, <2>2
<1>20. Lists'
  <2>1. tab'[t].phase # "ready"
    BY <1>5, <1>8
  <2>2. \A s \in Tabs : s # t => tab'[s] = tab[s]
    BY <1>8
  <2>3. \A s \in Tabs, j \in Slots : tab[s].page # 0 /\ call[j].page = tab[s].page => call'[j] = call[j]
    BY <1>7, <1>9
  <2>4. QED
    BY <2>1, <2>2, <2>3, <1>1 DEF Lists
<1>21. QED
  BY <1>11, <1>12, <1>13, <1>14, <1>15, <1>16, <1>17, <1>18, <1>19, <1>20 DEF CInv

-----------------------------------------------------------------------------
(* Time keeps the invariant, and so does an answer that nobody awaits.     *)

\* A session that ends takes nothing from what the pages rely on: they lose
\* the session, or the cookie, and with it what the invariant asks of them.
LEMMA ExpireKeeps ==
    ASSUME CInv, NEW sid \in opsess, Expire(sid)
    PROVE  CInv'
<1>1. /\ TypeOK /\ Frames /\ Pages /\ Counted /\ Fresh /\ Chains /\ Tokens
      /\ CsrfRefusalExplained /\ StartupNeverStalls /\ Lists
  BY DEF CInv
<1>2. /\ UNCHANGED <<peer, opsess, nextSid, call, tab, loads, clicks, origin>>
      /\ lapsed' = lapsed \cup {sid} /\ jar' \in {0, jar}
  BY DEF Expire, Lapse
<1>3. nextSid \in Nat \ {0} /\ jar \in Nat /\ ~Live(0)
  <2>1. SessionTypeOK /\ jar \in Nat
    BY <1>1 DEF TypeOK
  <2>2. QED
    BY <2>1 DEF SessionTypeOK, Live
<1>4. /\ \A x : Live(x)' => Live(x)
      /\ \A t \in Tabs : \A x : Owns(t, x)' => Owns(t, x)
      /\ \A t \in Tabs : Owns(t, jar)' => jar' = jar /\ Owns(t, jar)
      /\ \A t \in Tabs, j \in Slots : Owns(t, call[j].cookie)' => Owns(t, call[j].cookie)
  BY <1>2, <1>3 DEF Owns, Live
<1>11. TypeOK'
  <2>1. SessionTypeOK'
    BY <1>1, <1>2 DEF SessionTypeOK, TypeOK
  <2>2. QED
    BY <1>1, <1>2, <2>1 DEF TypeOK
<1>12. Frames' /\ Counted' /\ Chains'
  BY <1>1, <1>2 DEF Frames, Shape, Counted, Pending, Chains, Busy
<1>13. Pages'
  BY <1>1, <1>2, <1>3 DEF Pages
<1>14. Fresh'
  BY <1>1, <1>2 DEF Fresh, Frames, Shape
<1>15. Tokens'
  BY <1>1, <1>2, <1>4 DEF Tokens, Busy
<1>16. CsrfRefusalExplained' /\ StartupNeverStalls' /\ Lists'
  BY <1>1, <1>2 DEF CsrfRefusalExplained, StartupNeverStalls, Lists
<1>17. QED
  BY <1>11, <1>12, <1>13, <1>14, <1>15, <1>16 DEF CInv

\* The answer to a page that is gone falls away; no tab misses it.
LEMMA DroppedKeeps ==
    ASSUME CInv, NEW k \in Slots, Dropped(k)
    PROVE  CInv'
<1>1. /\ TypeOK /\ Frames /\ Pages /\ Counted /\ Fresh /\ Chains /\ Tokens
      /\ CsrfRefusalExplained /\ StartupNeverStalls /\ Lists
  BY DEF CInv
<1>2. /\ nextSid \in Nat \ {0} /\ loads \in 0 .. MaxLoads /\ MaxLoads \in Nat
      /\ nextSid <= loads + 1 /\ jar \in 0 .. (nextSid - 1)
  BY <1>1, Bounds
<1>3. /\ call[k].pc = "answered" /\ (\A t \in Tabs : tab[t].page # call[k].page)
      /\ Becomes(k, NoCall)
      /\ UNCHANGED <<peer, opsess, lapsed, nextSid, jar, tab, loads, clicks, origin>>
  BY DEF Dropped, Becomes, browserVars
<1>4. PICK g : g = NoCall
  OBVIOUS
<1>5. /\ g \in CallFrame /\ g.pc = "idle" /\ g.page = 0 /\ g.op = "who" /\ g.cookie = 0
      /\ g.csrf = 0 /\ g.result = "none" /\ g.token = 0 /\ g.setCookie = "keep"
  BY <1>4, EmptyFrame
<1>6. /\ call' \in [Slots -> CallFrame] /\ call'[k] = g
      /\ \A j \in Slots : j # k => call'[j] = call[j]
  BY <1>1, <1>3, <1>4, <1>5, Replaced
<1>7. ~Minted(g) /\ ~Waiting(g)
  BY <1>5 DEF Minted, Waiting
<1>11. TypeOK'
  <2>1. SessionTypeOK'
    BY <1>1, <1>3, <1>6 DEF SessionTypeOK, TypeOK
  <2>2. QED
    BY <1>1, <1>3, <2>1 DEF TypeOK
<1>12. Frames'
  BY <1>1, <1>2, <1>3, <1>4, <1>5, <1>6 DEF Frames, Shape, Minted
<1>13. Pages'
  BY <1>1, <1>3 DEF Pages
<1>14. Counted'
  <2>1. Weight(g) = 0 /\ Weight(call[k]) \in {0, 1}
    BY <1>7 DEF Weight
  <2>2. nextSid' + Weight(g) + loads <= nextSid + Weight(call[k]) + loads'
    BY <2>1, <1>2, <1>3
  <2>3. QED
    BY <2>2, <1>1, <1>2, <1>3, <1>4, <1>5, Recount
<1>15. Fresh'
  BY <1>1, <1>3, <1>5, <1>6, <1>7 DEF Fresh, Minted, Frames, Shape
<1>16. Chains'
  BY <1>1, <1>3, <1>5, <1>6 DEF Chains, Busy
<1>17. Tokens'
  <2>1. /\ \A t \in Tabs : Owns(t, jar)' <=> Owns(t, jar)
        /\ \A t \in Tabs, j \in Slots : j # k =>
             (Owns(t, call[j].cookie)' <=> Owns(t, call[j].cookie))
    BY <1>3, <1>6 DEF Owns, Live
  <2>2. QED
    BY <1>1, <1>3, <1>5, <1>6, <2>1 DEF Tokens, Busy
<1>18. CsrfRefusalExplained' /\ StartupNeverStalls'
  BY <1>1, <1>3, <1>5, <1>6 DEF CsrfRefusalExplained, StartupNeverStalls
<1>19. Lists'
  BY <1>1, <1>3, <1>6 DEF Lists
<1>20. QED
  BY <1>11, <1>12, <1>13, <1>14, <1>15, <1>16, <1>17, <1>18, <1>19 DEF CInv

-----------------------------------------------------------------------------
(* The answers.                                                            *)

\* The answer f to the page in tab t leaves the page p and the call g, which
\* is NoCall if the callback sends none.
Follows(t, k, f, p, g) ==
    /\ f = call[k] /\ f.pc = "answered" /\ f.page = tab[t].page /\ tab[t].page # 0
    /\ Shows(t, p) /\ Becomes(k, g)
    /\ p \in Page /\ p.page = tab[t].page /\ p.early = tab[t].early /\ p.view = tab[t].view
    /\ p.phase = IF f.op = "refreshMeta" THEN "ready" ELSE tab[t].phase
    /\ \/ f.op # "load" /\ p.painted = tab[t].painted
       \/ f.op = "load" /\ p.painted \in {tab[t].view, "blank"}
       \/ f.op = "load" /\ p.painted = tab[t].painted /\ f.view # tab[t].view
    /\ g \in CallFrame
    /\ \/ g = NoCall /\ f.op \in {"load", "write", "logout", "who"}
       \/ /\ g.pc = "sent" /\ g.page = f.page /\ g.cookie = jar'
          /\ g.result = "none" /\ g.token = 0 /\ g.setCookie = "keep"
          /\ \/ f.op = "who1" /\ g.op \in {"mintOnce", "who2"}
             \/ f.op = "mintOnce" /\ g.op = "who2"
             \/ f.op = "who2" /\ g.op = "refreshMeta"
             \/ f.op = "refreshMeta" /\ g.op = "load" /\ g.view = tab[t].view
             \/ f.op = "write" /\ g.op = "load"
             \/ f.op = "logout" /\ g.op = "who" /\ Ok(f)
    /\ UNCHANGED <<peer, opsess, lapsed, nextSid, loads, clicks>>

\* What the answer does to the cookie and the page's token.
Reads(t, f, p) ==
    /\ ~Minted(f) /\ jar' = (IF f.setCookie = "keep" THEN jar ELSE 0) /\ origin' = origin
    /\ \/ p.csrf = tab[t].csrf /\ f.op # "who2"
       \/ f.op \in {"who1", "who"}
       \/ f.op = "logout" /\ jar' = 0
       \/ f.op = "who2" /\ p.csrf = (IF Ok(f) THEN f.token ELSE 0)
    /\ f.op = "logout" /\ Ok(f) => jar' = 0

\* A page's new session comes into the cookie and the page's memory at once.
Takes(t, f, p) ==
    /\ Minted(f) /\ jar' = f.token /\ p.csrf = f.token
    /\ origin' = [origin EXCEPT ![f.token] = f.page]

\* Every answer that finds its page is one of the two.
LEMMA AnsweredFollows ==
    ASSUME CInv, NEW t \in Tabs, NEW k \in Slots, Answered(t, k)
    PROVE  \E f, p, g : Follows(t, k, f, p, g) /\ (Reads(t, f, p) \/ Takes(t, f, p))
<1>0. PICK f, p, op, v, g :
        /\ f = call[k] /\ p = AfterAnswer(tab[t], f) /\ op = NextOp(p, f)
        /\ v = (IF op = "load" THEN NextView(p, f) ELSE NoView)
        /\ g = (IF op = "none" THEN NoCall ELSE Api(p, jar', op, v))
  OBVIOUS
<1>1. /\ TypeOK /\ Frames /\ Pages /\ Counted
      /\ NoView \in Views
  BY EmptyFrame DEF CInv
<1>2. /\ f = call[k] /\ f.pc = "answered" /\ f.page = tab[t].page
      /\ jar' = JarAfter(f) /\ Shows(t, p) /\ Becomes(k, g)
      /\ origin' = (IF f.op = "mintOnce" /\ Ok(f)
                    THEN [origin EXCEPT ![f.token] = f.page] ELSE origin)
      /\ UNCHANGED <<peer, opsess, lapsed, nextSid, loads, clicks>>
  BY <1>0 DEF Answered, Becomes
<1>3. /\ f \in CallFrame /\ Shape(f) /\ f.page # 0 /\ f.page \in Nat /\ f.token \in Nat
      /\ f.view \in Views /\ f.op \in Ops /\ f.setCookie \in {"keep", "clear", "set"}
      /\ tab[t] \in Page /\ jar \in Nat
  <2>1. f \in CallFrame /\ Shape(f) /\ tab[t] \in Page /\ jar \in Nat /\ loads \in Nat
    BY <1>0, <1>1, BoundAssumption DEF TypeOK, SessionTypeOK, Frames
  <2>2. f.page \in 1 .. loads
    BY <1>2, <2>1 DEF Shape
  <2>3. QED
    BY <2>1, <2>2 DEF CallFrame
<1>4. /\ p \in Page /\ p.page = tab[t].page /\ p.early = tab[t].early /\ p.view = tab[t].view
      /\ p.phase = IF f.op = "refreshMeta" THEN "ready" ELSE tab[t].phase
      /\ \/ f.op # "load" /\ p.painted = tab[t].painted
         \/ f.op = "load" /\ p.painted \in {tab[t].view, "blank"}
         \/ f.op = "load" /\ p.painted = tab[t].painted /\ f.view # tab[t].view
      /\ f.op \in {"who1", "who2", "who"} => p.csrf = (IF Ok(f) THEN f.token ELSE 0)
      /\ f.op = "mintOnce" => p.csrf = (IF Ok(f) THEN f.token ELSE tab[t].csrf)
      /\ f.op = "logout" => p.csrf = (IF Ok(f) THEN 0 ELSE tab[t].csrf)
      /\ f.op \in {"refreshMeta", "load", "write"} => p.csrf = tab[t].csrf
  <2>1. CASE f.op \in {"who1", "who2", "who"}
    <3>1. p = [tab[t] EXCEPT !.csrf = IF Ok(f) THEN f.token ELSE 0]
      BY <2>1, <1>0 DEF AfterAnswer, WithWho
    <3>2. QED
      BY <2>1, <3>1, <1>3 DEF Page
  <2>2. CASE f.op = "mintOnce"
    <3>1. p = [tab[t] EXCEPT !.csrf = IF Ok(f) THEN f.token ELSE @]
      BY <2>2, <1>0 DEF AfterAnswer, WithMint
    <3>2. QED
      BY <2>2, <3>1, <1>3 DEF Page
  <2>3. CASE f.op = "refreshMeta"
    <3>1. p = [tab[t] EXCEPT !.phase = "ready"]
      BY <2>3, <1>0 DEF AfterAnswer
    <3>2. QED
      BY <2>3, <3>1, <1>3 DEF Page
  <2>4. CASE f.op = "load"
    <3>1. CASE f.view # tab[t].view
      <4>1. p = tab[t]
        BY <2>4, <3>1, <1>0 DEF AfterAnswer, WithList
      <4>2. QED
        BY <2>4, <3>1, <4>1, <1>3
    <3>2. CASE f.view = tab[t].view
      <4>1. p = [tab[t] EXCEPT !.painted = IF Ok(f) THEN f.view ELSE "blank"]
        BY <2>4, <3>2, <1>0 DEF AfterAnswer, WithList
      <4>2. QED
        BY <2>4, <3>2, <4>1, <1>3 DEF Page
    <3>3. QED
      BY <3>1, <3>2
  <2>5. CASE f.op = "logout"
    <3>1. p = [tab[t] EXCEPT !.csrf = IF Ok(f) THEN 0 ELSE @]
      BY <2>5, <1>0 DEF AfterAnswer
    <3>2. QED
      BY <2>5, <3>1, <1>3 DEF Page
  <2>6. CASE f.op = "write"
    <3>1. p = tab[t]
      BY <2>6, <1>0 DEF AfterAnswer
    <3>2. QED
      BY <2>6, <3>1, <1>3
  <2>7. QED
    BY <2>1, <2>2, <2>3, <2>4, <2>5, <2>6, <1>3 DEF Ops
<1>5. /\ op \in Ops \cup {"none"}
      /\ \/ op = "none" /\ f.op \in {"load", "write", "logout", "who"}
         \/ f.op = "who1" /\ op \in {"mintOnce", "who2"}
         \/ f.op = "mintOnce" /\ op = "who2"
         \/ f.op = "who2" /\ op = "refreshMeta"
         \/ f.op = "refreshMeta" /\ op = "load" /\ v = tab[t].view
         \/ f.op = "write" /\ op = "load"
         \/ f.op = "logout" /\ op = "who" /\ Ok(f)
  <2>1. CASE f.op = "who1"
    BY <2>1, <1>0 DEF NextOp, Ops
  <2>2. CASE f.op = "mintOnce"
    BY <2>2, <1>0 DEF NextOp, Ops
  <2>3. CASE f.op = "who2"
    BY <2>3, <1>0 DEF NextOp, Ops
  <2>4. CASE f.op = "refreshMeta"
    BY <2>4, <1>0, <1>4 DEF NextOp, NextView, Ops
  <2>5. CASE f.op = "write"
    BY <2>5, <1>0 DEF NextOp, Ops
  <2>6. CASE f.op = "logout"
    BY <2>6, <1>0 DEF NextOp, Ops
  <2>7. CASE f.op \in {"load", "who"}
    BY <2>7, <1>0 DEF NextOp
  <2>8. QED
    BY <2>1, <2>2, <2>3, <2>4, <2>5, <2>6, <2>7, <1>3 DEF Ops
<1>6. jar' \in Nat
  BY <1>2, <1>3 DEF JarAfter
<1>7. \/ op = "none" /\ g = NoCall /\ g \in CallFrame
      \/ /\ op # "none" /\ g \in CallFrame /\ g.op = op /\ g.view = v
         /\ g.pc = "sent" /\ g.page = f.page /\ g.cookie = jar'
         /\ g.result = "none" /\ g.token = 0 /\ g.setCookie = "keep"
  <2>1. CASE op = "none"
    BY <2>1, <1>0, EmptyFrame
  <2>2. CASE op # "none"
    <3>1. g = Api(p, jar', op, v) /\ op \in Ops
      BY <2>2, <1>0, <1>5
    <3>2. v \in Views /\ p.page \in Nat /\ p.csrf \in Nat
      BY <1>0, <1>1, <1>3, <1>4 DEF NextView, Page
    <3>3. QED
      BY <2>2, <3>1, <3>2, <1>2, <1>4, <1>6, SentFrame
  <2>3. QED
    BY <2>1, <2>2
<1>8. Follows(t, k, f, p, g)
  BY <1>2, <1>3, <1>4, <1>5, <1>7 DEF Follows
<1>9. Reads(t, f, p) \/ Takes(t, f, p)
  <2>1. CASE Minted(f)
    <3>1. f.op = "mintOnce" /\ Ok(f) /\ f.setCookie = "set"
      BY <2>1, <1>3 DEF Minted, Ok, Shape
    <3>2. jar' = f.token
      BY <3>1, <1>2 DEF JarAfter
    <3>3. Takes(t, f, p)
      BY <2>1, <3>1, <3>2, <1>2, <1>4 DEF Takes
    <3>4. QED
      BY <3>3
  <2>2. CASE ~Minted(f)
    <3>1. f.setCookie \in {"keep", "clear"} /\ ~(f.op = "mintOnce" /\ Ok(f))
      BY <2>2, <1>2, <1>3 DEF Minted, Ok, Shape
    <3>2. jar' = IF f.setCookie = "keep" THEN jar ELSE 0
      BY <3>1, <1>2 DEF JarAfter
    <3>3. f.op = "logout" /\ Ok(f) => jar' = 0
      BY <3>2, <1>2, <1>3 DEF Shape, Ok
    <3>4. origin' = origin
      BY <3>1, <1>2
    <3>5. \/ p.csrf = tab[t].csrf /\ f.op # "who2"
          \/ f.op \in {"who1", "who"}
          \/ f.op = "logout" /\ jar' = 0
          \/ f.op = "who2" /\ p.csrf = (IF Ok(f) THEN f.token ELSE 0)
      BY <3>1, <3>3, <1>3, <1>4 DEF Ops
    <3>6. Reads(t, f, p)
      BY <2>2, <3>2, <3>3, <3>4, <3>5 DEF Reads
    <3>7. QED
      BY <3>6
  <2>3. QED
    BY <2>1, <2>2
<1>10. QED
  BY <1>8, <1>9

\* What follows from an answer, whatever it says: the calls of the start-up
\* hand over to each other, and no list is lost that the page waits for.
LEMMA FollowsKeeps ==
    ASSUME CInv, NEW t \in Tabs, NEW k \in Slots, NEW f, NEW p, NEW g,
           Follows(t, k, f, p, g), jar' \in 0 .. (nextSid - 1),
           origin' \in [1 .. MaxLoads -> 0 .. loads]
    PROVE  /\ TypeOK' /\ Frames' /\ Pages' /\ Counted'
           /\ StartupNeverStalls' /\ Lists'
           /\ \A i, j \in Slots : /\ call'[i].pc # "idle" /\ call'[j].pc # "idle"
                                  /\ call'[i].page = call'[j].page
                                  /\ call'[i].op \in StartUp /\ call'[j].op \in StartUp
                                  => i = j
           /\ \A j \in Slots, s \in Tabs :
                call'[j].pc # "idle" /\ call'[j].op \in StartUp /\ call'[j].page = tab'[s].page
                => tab'[s].phase = "starting"
           /\ call'[k] = g /\ (\A j \in Slots : j # k => call'[j] = call[j])
           /\ tab'[t] = p /\ (\A s \in Tabs : s # t => tab'[s] = tab[s])
           /\ \A s \in Tabs : tab[s].page = f.page => s = t
           /\ g.pc \in {"idle", "sent"} /\ g.result = "none" /\ ~Minted(g) /\ g.cookie \in {0, jar'}
<1>1. TypeOK /\ Frames /\ Pages /\ Counted /\ Chains /\ StartupNeverStalls /\ Lists
  BY DEF CInv
<1>2. /\ nextSid \in Nat \ {0} /\ loads \in 0 .. MaxLoads /\ MaxLoads \in Nat
      /\ nextSid <= loads + 1
      /\ \A j \in Slots : /\ call[j] \in CallFrame /\ call[j].page \in Nat
                          /\ call[j].cookie \in 0 .. (nextSid - 1)
                          /\ call[j].token \in 0 .. (nextSid - 1)
      /\ \A s \in Tabs : tab[s] \in Page /\ tab[s].page \in Nat /\ tab[s].csrf \in Nat
  BY <1>1, Bounds
<1>3. /\ f = call[k] /\ f.pc = "answered" /\ f.page = tab[t].page /\ tab[t].page # 0
      /\ Shows(t, p) /\ Becomes(k, g) /\ g \in CallFrame
      /\ p \in Page /\ p.page = tab[t].page /\ p.early = tab[t].early /\ p.view = tab[t].view
      /\ p.phase = IF f.op = "refreshMeta" THEN "ready" ELSE tab[t].phase
      /\ UNCHANGED <<peer, opsess, lapsed, nextSid, loads, clicks>>
  BY DEF Follows
<1>4. \/ g = NoCall /\ f.op \in {"load", "write", "logout", "who"}
      \/ /\ g.pc = "sent" /\ g.page = f.page /\ g.cookie = jar'
         /\ g.result = "none" /\ g.token = 0 /\ g.setCookie = "keep"
         /\ \/ f.op = "who1" /\ g.op \in {"mintOnce", "who2"}
            \/ f.op = "mintOnce" /\ g.op = "who2"
            \/ f.op = "who2" /\ g.op = "refreshMeta"
            \/ f.op = "refreshMeta" /\ g.op = "load" /\ g.view = tab[t].view
            \/ f.op = "write" /\ g.op = "load"
            \/ f.op = "logout" /\ g.op = "who" /\ Ok(f)
  BY DEF Follows
<1>5. \/ f.op # "load" /\ p.painted = tab[t].painted
      \/ f.op = "load" /\ p.painted \in {tab[t].view, "blank"}
      \/ f.op = "load" /\ p.painted = tab[t].painted /\ f.view # tab[t].view
  BY DEF Follows
<1>6. /\ call' \in [Slots -> CallFrame] /\ call'[k] = g
      /\ \A j \in Slots : j # k => call'[j] = call[j]
  BY <1>1, <1>3, Replaced
<1>7. tab' \in [Tabs -> Page] /\ tab'[t] = p /\ (\A s \in Tabs : s # t => tab'[s] = tab[s])
  BY <1>1, <1>3 DEF Shows, TypeOK
<1>8. /\ \A s \in Tabs : tab[s].page = f.page => s = t
      /\ f.page \in 1 .. loads
  BY <1>1, <1>2, <1>3 DEF Pages
<1>9. /\ g.pc \in {"idle", "sent"} /\ g.result = "none" /\ ~Minted(g) /\ g.cookie \in {0, jar'}
      /\ g.token = 0 /\ g.setCookie = "keep" /\ (g.pc = "idle" => g = NoCall)
      /\ g.pc = "sent" => g.page = f.page
  BY <1>4, EmptyFrame DEF Minted
<1>10. /\ g.pc # "idle" /\ g.op \in StartUp =>
             g.page = f.page /\ f.op \in StartUp /\ f.op # "refreshMeta"
       /\ f.op \in StartUp /\ f.op # "refreshMeta" => g.pc = "sent" /\ g.op \in StartUp
  BY <1>4, <1>9, EmptyFrame DEF StartUp
<1>11. TypeOK'
  <2>1. SessionTypeOK'
    BY <1>1, <1>3, <1>6 DEF SessionTypeOK, TypeOK
  <2>2. jar' \in Nat /\ origin' \in [1 .. MaxLoads -> 0 .. MaxLoads]
    BY <1>2
  <2>3. QED
    BY <1>1, <1>3, <1>7, <2>1, <2>2 DEF TypeOK
<1>12. Frames'
  <2>1. Shape(g)'
    BY <1>2, <1>3, <1>8, <1>9 DEF Shape, Minted
  <2>2. QED
    BY <2>1, <1>1, <1>3, <1>6 DEF Frames, Shape
<1>13. Pages'
  <2>1. \A s \in Tabs : /\ tab'[s].page = tab[s].page
                        /\ tab[s].page = 0 => tab'[s] = tab[s]
    BY <1>3, <1>7
  <2>2. jar' < nextSid' /\ (\A x \in 1 .. MaxLoads : origin'[x] <= loads')
    BY <1>2, <1>3
  <2>3. QED
    BY <2>1, <2>2, <1>1, <1>3 DEF Pages
<1>14. Counted'
  <2>1. Waiting(g) => Waiting(call[k])
    BY <1>3, <1>4, <1>9, EmptyFrame DEF Waiting
  <2>2. nextSid' + Weight(g) + loads <= nextSid + Weight(call[k]) + loads'
    BY <2>1, <1>2, <1>3 DEF Weight
  <2>3. QED
    BY <2>2, <1>1, <1>2, <1>3, Recount
<1>15. \A i, j \in Slots : /\ call'[i].pc # "idle" /\ call'[j].pc # "idle"
                           /\ call'[i].page = call'[j].page
                           /\ call'[i].op \in StartUp /\ call'[j].op \in StartUp
                           => i = j
  BY <1>1, <1>3, <1>6, <1>10 DEF Chains, Busy
<1>16. \A j \in Slots, s \in Tabs :
         call'[j].pc # "idle" /\ call'[j].op \in StartUp /\ call'[j].page = tab'[s].page
         => tab'[s].phase = "starting"
  <2> SUFFICES ASSUME NEW j \in Slots, NEW s \in Tabs, call'[j].pc # "idle",
                      call'[j].op \in StartUp, call'[j].page = tab'[s].page
               PROVE  tab'[s].phase = "starting"
    OBVIOUS
  <2>1. tab'[s].page = tab[s].page
    BY <1>3, <1>7
  <2>2. CASE j = k
    <3>1. g.page = f.page /\ f.op \in StartUp /\ f.op # "refreshMeta" /\ s = t
      BY <2>1, <2>2, <1>6, <1>8, <1>10
    <3>2. tab[t].phase = "starting"
      BY <3>1, <1>1, <1>3 DEF Chains, Busy
    <3>3. QED
      BY <3>1, <3>2, <1>3, <1>7
  <2>3. CASE j # k
    <3>1. tab[s].phase = "starting"
      BY <2>1, <2>3, <1>1, <1>6 DEF Chains, Busy
    <3>2. s = t => f.op # "refreshMeta"
      BY <2>1, <2>3, <1>1, <1>3, <1>6 DEF Chains, Busy, StartUp
    <3>3. QED
      BY <3>1, <3>2, <1>3, <1>7
  <2>4. QED
    BY <2>2, <2>3
<1>17. StartupNeverStalls'
  <2> SUFFICES ASSUME NEW s \in Tabs, tab'[s].phase = "starting"
               PROVE  \E j \in Slots : /\ call'[j].pc # "idle" /\ call'[j].page = tab'[s].page
                                       /\ call'[j].op \in StartUp
    BY DEF StartupNeverStalls, StartUp
  <2>1. tab[s].phase = "starting" /\ tab'[s].page = tab[s].page
    BY <1>3, <1>7
  <2>2. PICK j \in Slots : call[j].pc # "idle" /\ call[j].page = tab[s].page /\ call[j].op \in StartUp
    BY <2>1, <1>1 DEF StartupNeverStalls, StartUp
  <2>3. CASE j # k
    BY <2>1, <2>2, <2>3, <1>6
  <2>4. CASE j = k
    <3>1. s = t
      BY <2>2, <2>4, <1>3, <1>8
    <3>2. f.op # "refreshMeta"
      BY <3>1, <1>3, <1>7
    <3>3. g.pc = "sent" /\ g.op \in StartUp /\ g.page = f.page
      BY <2>2, <2>4, <3>2, <1>3, <1>9, <1>10
    <3>4. QED
      BY <3>1, <3>3, <2>1, <1>3, <1>6
  <2>5. QED
    BY <2>3, <2>4
<1>18. Lists'
  <2> SUFFICES ASSUME NEW s \in Tabs, tab'[s].page # 0, tab'[s].phase = "ready",
                      tab'[s].painted \notin {tab'[s].view, "blank"}
               PROVE  \E j \in Slots : /\ call'[j].page = tab'[s].page
                                       /\ call'[j].op = "load" /\ call'[j].view = tab'[s].view
    BY DEF Lists
  <2>1. CASE s = t /\ f.op = "refreshMeta"
    <3>1. g.page = f.page /\ g.op = "load" /\ g.view = tab[t].view
      BY <2>1, <1>4
    <3>2. QED
      BY <2>1, <3>1, <1>3, <1>6, <1>7
  <2>2. CASE ~(s = t /\ f.op = "refreshMeta")
    <3>1. /\ tab'[s].page = tab[s].page /\ tab'[s].view = tab[s].view
          /\ tab'[s].phase = tab[s].phase /\ tab'[s].painted = tab[s].painted
          /\ s = t => f.op # "load" \/ f.view # tab[t].view
      BY <2>2, <1>3, <1>5, <1>7
    <3>2. PICK j \in Slots : /\ call[j].page = tab[s].page
                             /\ call[j].op = "load" /\ call[j].view = tab[s].view
      BY <3>1, <1>1 DEF Lists
    <3>3. j # k
      BY <3>1, <3>2, <1>3, <1>8
    <3>4. call'[j].page = tab'[s].page /\ call'[j].op = "load" /\ call'[j].view = tab'[s].view
      BY <3>1, <3>2, <3>3, <1>6
    <3>5. QED
      BY <3>4
  <2>3. QED
    BY <2>1, <2>2
<1>19. QED
  BY <1>6, <1>7, <1>8, <1>9, <1>11, <1>12, <1>13, <1>14, <1>15, <1>16, <1>17, <1>18

\* An answer that brings no new session leaves the cookie or takes it away.
\* If it leaves it and the session is the page's own, the token that the page
\* learns is the cookie's.
LEMMA ReadsKeeps ==
    ASSUME CInv, NEW t \in Tabs, NEW k \in Slots, NEW f, NEW p, NEW g,
           Follows(t, k, f, p, g), Reads(t, f, p)
    PROVE  CInv'
<1>1. /\ TypeOK /\ Frames /\ Pages /\ Counted /\ Fresh /\ Chains /\ Tokens
      /\ CsrfRefusalExplained
  BY DEF CInv
<1>2. /\ nextSid \in Nat \ {0} /\ jar \in 0 .. (nextSid - 1)
      /\ \A x : Live(x) => x \in 1 .. MaxLoads
  BY <1>1, Bounds
<1>3. /\ f = call[k] /\ f.pc = "answered" /\ f.page = tab[t].page /\ tab[t].page # 0
      /\ p.page = tab[t].page /\ p.early = tab[t].early
      /\ p.phase = IF f.op = "refreshMeta" THEN "ready" ELSE tab[t].phase
      /\ UNCHANGED <<peer, opsess, lapsed, nextSid, loads, clicks, origin>>
      /\ jar' = (IF f.setCookie = "keep" THEN jar ELSE 0)
  BY DEF Follows, Reads
<1>4. \/ g = NoCall
      \/ /\ g.pc = "sent" /\ g.page = f.page /\ g.cookie = jar'
         /\ \/ f.op = "who1" /\ g.op \in {"mintOnce", "who2"}
            \/ f.op = "mintOnce" /\ g.op = "who2"
            \/ g.op \in {"refreshMeta", "load"}
            \/ f.op = "logout" /\ g.op = "who" /\ jar' = 0
  BY DEF Follows, Reads
<1>5. jar' \in 0 .. (nextSid - 1) /\ origin' \in [1 .. MaxLoads -> 0 .. loads]
  <2>1. origin \in [1 .. MaxLoads -> 0 .. loads]
    BY <1>1, BoundAssumption DEF TypeOK, Pages
  <2>2. QED
    BY <2>1, <1>2, <1>3
<1>6. /\ TypeOK' /\ Frames' /\ Pages' /\ Counted' /\ StartupNeverStalls' /\ Lists'
      /\ \A i, j \in Slots : /\ call'[i].pc # "idle" /\ call'[j].pc # "idle"
                             /\ call'[i].page = call'[j].page
                             /\ call'[i].op \in StartUp /\ call'[j].op \in StartUp
                             => i = j
      /\ \A j \in Slots, s \in Tabs :
           call'[j].pc # "idle" /\ call'[j].op \in StartUp /\ call'[j].page = tab'[s].page
           => tab'[s].phase = "starting"
  BY <1>5, FollowsKeeps
<1>7. /\ call'[k] = g /\ (\A j \in Slots : j # k => call'[j] = call[j])
      /\ tab'[t] = p /\ (\A s \in Tabs : s # t => tab'[s] = tab[s])
      /\ \A s \in Tabs : tab[s].page = f.page => s = t
      /\ g.pc \in {"idle", "sent"} /\ g.result = "none" /\ ~Minted(g) /\ g.cookie \in {0, jar'}
  BY <1>5, FollowsKeeps
<1>8. \A s \in Tabs : /\ tab'[s].page = tab[s].page /\ tab'[s].early = tab[s].early
                      /\ tab[s].phase = "ready" => tab'[s].phase = "ready"
  BY <1>3, <1>7
<1>9. \A s \in Tabs : Owns(s, jar)' => Owns(s, jar) /\ jar' = jar /\ f.setCookie = "keep"
  BY <1>2, <1>3, <1>8 DEF Owns, Live
<1>10. f.op \in {"who1", "mintOnce"} => \A s \in Tabs : ~(tab[s].page = f.page /\ Owns(s, jar))
  BY <1>1, <1>2, <1>3 DEF Owns, Chains, Busy
<1>11. Fresh'
  <2>1. jar' \in {0, jar}
    BY <1>3
  <2>2. \A j \in Slots : Minted(call[j]) => call[j].token # 0
    BY <1>1 DEF Frames, Shape
  <2>3. QED
    BY <2>1, <2>2, <1>1, <1>7 DEF Fresh, Minted
<1>12. Chains'
  <2>1. \A j \in Slots : call'[j].pc # "idle" /\ call'[j].op \in {"who1", "mintOnce"}
          => \A x \in 1 .. MaxLoads : origin'[x] # call'[j].page
    BY <1>1, <1>3, <1>4, <1>7, EmptyFrame DEF Chains, Busy
  <2>2. QED
    BY <2>1, <1>6 DEF Chains, Busy
<1>13. Tokens'
  <2>1. \A s \in Tabs : tab'[s].page # 0 /\ ~tab'[s].early /\ Owns(s, jar)' => tab'[s].csrf = jar'
    <3> SUFFICES ASSUME NEW s \in Tabs, tab'[s].page # 0, ~tab'[s].early, Owns(s, jar)'
                 PROVE  tab'[s].csrf = jar'
      OBVIOUS
    <3>1. Owns(s, jar) /\ jar' = jar /\ f.setCookie = "keep" /\ tab[s].csrf = jar
      BY <1>1, <1>8, <1>9 DEF Tokens
    <3>2. CASE s # t
      BY <3>1, <3>2, <1>7
    <3>3. CASE s = t
      <4>1. f.op # "who1"
        BY <3>1, <3>3, <1>3, <1>10
      <4>2. f.op # "who"
        BY <3>1, <3>3, <1>1, <1>3, <1>8 DEF Tokens, Busy
      <4>3. jar' # 0
        BY <3>1, <1>1 DEF Owns, Live, TypeOK, SessionTypeOK
      <4>4. f.op = "who2" => Ok(f) /\ f.token = jar
        BY <3>1, <3>3, <1>1, <1>3 DEF Tokens, Busy
      <4>5. p.csrf = jar
        BY <3>1, <3>3, <4>1, <4>2, <4>3, <4>4 DEF Reads
      <4>6. QED
        BY <3>1, <3>3, <4>5, <1>7
    <3>4. QED
      BY <3>2, <3>3
  <2>2. \A s \in Tabs, j \in Slots :
          /\ call'[j].pc # "idle" /\ call'[j].op = "who2" /\ call'[j].page = tab'[s].page
          /\ Owns(s, jar)' /\ call'[j].setCookie = "keep"
          => IF call'[j].pc = "answered" THEN Ok(call'[j]) /\ call'[j].token = jar'
             ELSE call'[j].cookie = jar'
    <3> SUFFICES ASSUME NEW s \in Tabs, NEW j \in Slots, call'[j].pc # "idle",
                        call'[j].op = "who2", call'[j].page = tab'[s].page,
                        Owns(s, jar)', call'[j].setCookie = "keep"
                 PROVE  IF call'[j].pc = "answered" THEN Ok(call'[j]) /\ call'[j].token = jar'
                        ELSE call'[j].cookie = jar'
      OBVIOUS
    <3>1. CASE j # k
      BY <3>1, <1>1, <1>7, <1>8, <1>9 DEF Tokens, Busy
    <3>2. CASE j = k
      <4>1. g.page = f.page /\ f.op \in {"who1", "mintOnce"}
        BY <3>2, <1>4, <1>7, EmptyFrame
      <4>2. QED
        BY <3>2, <4>1, <1>7, <1>8, <1>9, <1>10
    <3>3. QED
      BY <3>1, <3>2
  <2>3. \A s \in Tabs, j \in Slots :
          /\ call'[j].pc # "idle" /\ call'[j].op \in {"logout", "who"}
          /\ call'[j].page = tab'[s].page /\ ~tab'[s].early
          => tab'[s].phase = "ready" /\ (call'[j].op = "who" => ~Owns(s, jar)')
    <3> SUFFICES ASSUME NEW s \in Tabs, NEW j \in Slots, call'[j].pc # "idle",
                        call'[j].op \in {"logout", "who"}, call'[j].page = tab'[s].page,
                        ~tab'[s].early
                 PROVE  tab'[s].phase = "ready" /\ (call'[j].op = "who" => ~Owns(s, jar)')
      OBVIOUS
    <3>1. CASE j # k
      BY <3>1, <1>1, <1>7, <1>8, <1>9 DEF Tokens, Busy
    <3>2. CASE j = k
      <4>1. g.page = f.page /\ f.op = "logout" /\ jar' = 0
        BY <3>2, <1>4, <1>7, EmptyFrame
      <4>2. tab[s].phase = "ready"
        BY <3>2, <4>1, <1>1, <1>3, <1>7, <1>8 DEF Tokens, Busy
      <4>3. ~Owns(s, jar)'
        BY <4>1, <1>1, <1>9 DEF Owns, Live, TypeOK, SessionTypeOK
      <4>4. QED
        BY <4>2, <4>3, <1>8
    <3>3. QED
      BY <3>1, <3>2
  <2>4. \A s \in Tabs, j \in Slots :
          /\ call'[j].pc = "sent" /\ call'[j].op \notin Gets /\ call'[j].page = tab'[s].page
          /\ ~tab'[s].early /\ Owns(s, call[j].cookie)'
          => call'[j].csrf = call'[j].cookie
    <3> SUFFICES ASSUME NEW s \in Tabs, NEW j \in Slots, call'[j].pc = "sent",
                        call'[j].op \notin Gets, call'[j].page = tab'[s].page,
                        ~tab'[s].early, Owns(s, call[j].cookie)'
                 PROVE  call'[j].csrf = call'[j].cookie
      OBVIOUS
    <3>1. CASE j # k
      <4>1. Owns(s, call[j].cookie)
        BY <3>1, <1>3, <1>7, <1>8 DEF Owns, Live
      <4>2. QED
        BY <3>1, <4>1, <1>1, <1>7, <1>8 DEF Tokens
    <3>2. CASE j = k
      <4>1. g.page = f.page /\ f.op = "who1" /\ g.cookie = jar'
        BY <3>2, <1>4, <1>7, EmptyFrame DEF Gets
      <4>2. Owns(s, jar)'
        BY <3>2, <4>1, <1>7 DEF Owns, Live
      <4>3. QED
        BY <3>2, <4>1, <4>2, <1>7, <1>8, <1>9, <1>10
    <3>3. QED
      BY <3>1, <3>2
  <2>5. QED
    BY <2>1, <2>2, <2>3, <2>4 DEF Tokens, Busy, Ok
<1>14. CsrfRefusalExplained'
  BY <1>1, <1>3, <1>7, <1>8 DEF CsrfRefusalExplained
<1>15. QED
  BY <1>6, <1>11, <1>12, <1>13, <1>14 DEF CInv

\* The answer of mintOnce makes the page the owner of the cookie's session,
\* which nobody else has, and gives it the token in the same turn.
LEMMA TakesKeeps ==
    ASSUME CInv, NEW t \in Tabs, NEW k \in Slots, NEW f, NEW p, NEW g,
           Follows(t, k, f, p, g), Takes(t, f, p)
    PROVE  CInv'
<1>1. /\ TypeOK /\ Frames /\ Pages /\ Counted /\ Fresh /\ Chains /\ Tokens
      /\ CsrfRefusalExplained
  BY DEF CInv
<1>2. /\ nextSid \in Nat \ {0} /\ loads \in 0 .. MaxLoads /\ MaxLoads \in Nat
      /\ nextSid <= loads + 1
      /\ \A x : Live(x) => x \in 1 .. MaxLoads
      /\ \A j \in Slots : /\ call[j].page \in Nat
                          /\ call[j].cookie \in 0 .. (nextSid - 1)
                          /\ call[j].token \in 0 .. (nextSid - 1)
  BY <1>1, Bounds
<1>3. /\ f = call[k] /\ f.pc = "answered" /\ f.page = tab[t].page /\ tab[t].page # 0
      /\ p.page = tab[t].page /\ p.early = tab[t].early
      /\ p.phase = IF f.op = "refreshMeta" THEN "ready" ELSE tab[t].phase
      /\ UNCHANGED <<peer, opsess, lapsed, nextSid, loads, clicks>>
      /\ Minted(f) /\ f.op = "mintOnce" /\ jar' = f.token /\ p.csrf = f.token
      /\ origin' = [origin EXCEPT ![f.token] = f.page]
  BY DEF Follows, Takes, Minted
<1>4. g.op = "who2" /\ g.pc = "sent" /\ g.page = f.page /\ g.cookie = f.token
  BY <1>3 DEF Follows
<1>5. /\ f.token \in 1 .. MaxLoads /\ f.token < nextSid /\ f.page \in 1 .. loads
      /\ origin \in [1 .. MaxLoads -> 0 .. loads]
  <2>1. Shape(f)
    BY <1>1, <1>3 DEF Frames
  <2>2. f.token # 0 /\ f.token \in 0 .. (nextSid - 1) /\ f.page \in 1 .. loads
    BY <2>1, <1>2, <1>3 DEF Shape
  <2>3. origin \in [1 .. MaxLoads -> 0 .. loads]
    BY <1>1, BoundAssumption DEF TypeOK, Pages
  <2>4. QED
    BY <2>2, <2>3, <1>2
<1>6. /\ jar' \in 0 .. (nextSid - 1) /\ origin' \in [1 .. MaxLoads -> 0 .. loads]
      /\ origin'[f.token] = f.page
      /\ \A x \in 1 .. MaxLoads : x # f.token => origin'[x] = origin[x]
  BY <1>2, <1>3, <1>5
<1>7. /\ TypeOK' /\ Frames' /\ Pages' /\ Counted' /\ StartupNeverStalls' /\ Lists'
      /\ \A i, j \in Slots : /\ call'[i].pc # "idle" /\ call'[j].pc # "idle"
                             /\ call'[i].page = call'[j].page
                             /\ call'[i].op \in StartUp /\ call'[j].op \in StartUp
                             => i = j
      /\ \A j \in Slots, s \in Tabs :
           call'[j].pc # "idle" /\ call'[j].op \in StartUp /\ call'[j].page = tab'[s].page
           => tab'[s].phase = "starting"
  BY <1>6, FollowsKeeps
<1>8. /\ call'[k] = g /\ (\A j \in Slots : j # k => call'[j] = call[j])
      /\ tab'[t] = p /\ (\A s \in Tabs : s # t => tab'[s] = tab[s])
      /\ \A s \in Tabs : tab[s].page = f.page => s = t
      /\ g.result = "none" /\ ~Minted(g)
  BY <1>6, FollowsKeeps
<1>9. \A s \in Tabs : /\ tab'[s].page = tab[s].page /\ tab'[s].early = tab[s].early
                      /\ tab'[s].phase = tab[s].phase
  BY <1>3, <1>8
<1>10. \A s \in Tabs : Owns(s, jar)' => s = t
  BY <1>3, <1>6, <1>8, <1>9 DEF Owns
<1>11. \A j \in Slots : Busy(j) /\ call[j].page = f.page /\ call[j].op \in StartUp => j = k
  BY <1>1, <1>3 DEF Chains, Busy, StartUp
<1>12. \A j \in Slots : call[j].cookie # f.token
  BY <1>1, <1>3 DEF Fresh
<1>13. Fresh'
  <2>1. \A j \in Slots : Minted(call[j]) /\ call[j].token = f.token => j = k
    BY <1>1, <1>3 DEF Fresh
  <2>2. QED
    BY <2>1, <1>1, <1>3, <1>4, <1>8 DEF Fresh, Minted
<1>14. Chains'
  <2>1. \A j \in Slots : call'[j].pc # "idle" /\ call'[j].op \in {"who1", "mintOnce"}
          => \A x \in 1 .. MaxLoads : origin'[x] # call'[j].page
    <3> SUFFICES ASSUME NEW j \in Slots, call'[j].pc # "idle",
                        call'[j].op \in {"who1", "mintOnce"}, NEW x \in 1 .. MaxLoads
                 PROVE  origin'[x] # call'[j].page
      OBVIOUS
    <3>1. j # k /\ call'[j] = call[j]
      BY <1>4, <1>8
    <3>2. call[j].page # f.page
      BY <3>1, <1>11 DEF Busy, StartUp
    <3>3. origin[x] # call[j].page
      BY <3>1, <1>1 DEF Chains, Busy
    <3>4. QED
      BY <3>1, <3>2, <3>3, <1>6
  <2>2. QED
    BY <2>1, <1>7 DEF Chains, Busy
<1>15. Tokens'
  <2>1. \A s \in Tabs : tab'[s].page # 0 /\ ~tab'[s].early /\ Owns(s, jar)' => tab'[s].csrf = jar'
    BY <1>3, <1>8, <1>10
  <2>2. \A s \in Tabs, j \in Slots :
          /\ call'[j].pc # "idle" /\ call'[j].op = "who2" /\ call'[j].page = tab'[s].page
          /\ Owns(s, jar)' /\ call'[j].setCookie = "keep"
          => IF call'[j].pc = "answered" THEN Ok(call'[j]) /\ call'[j].token = jar'
             ELSE call'[j].cookie = jar'
    <3> SUFFICES ASSUME NEW s \in Tabs, NEW j \in Slots, call'[j].pc # "idle",
                        call'[j].op = "who2", call'[j].page = tab'[s].page, Owns(s, jar)'
                 PROVE  call'[j].pc = "sent" /\ call'[j].cookie = jar'
      OBVIOUS
    <3>1. s = t /\ tab'[s].page = f.page
      BY <1>3, <1>9, <1>10
    <3>2. j = k
      BY <3>1, <1>8, <1>11 DEF Busy, StartUp
    <3>3. QED
      BY <3>2, <1>3, <1>4, <1>8
  <2>3. \A s \in Tabs, j \in Slots :
          /\ call'[j].pc # "idle" /\ call'[j].op \in {"logout", "who"}
          /\ call'[j].page = tab'[s].page /\ ~tab'[s].early
          => tab'[s].phase = "ready" /\ (call'[j].op = "who" => ~Owns(s, jar)')
    <3> SUFFICES ASSUME NEW s \in Tabs, NEW j \in Slots, call'[j].pc # "idle",
                        call'[j].op \in {"logout", "who"}, call'[j].page = tab'[s].page,
                        ~tab'[s].early
                 PROVE  tab'[s].phase = "ready" /\ ~Owns(s, jar)'
      OBVIOUS
    <3>1. j # k /\ call'[j] = call[j]
      BY <1>4, <1>8
    <3>2. tab[s].phase = "ready"
      BY <3>1, <1>1, <1>9 DEF Tokens, Busy
    <3>3. tab[t].phase = "starting"
      BY <1>1, <1>3 DEF Chains, Busy, StartUp
    <3>4. QED
      BY <3>2, <3>3, <1>9, <1>10
  <2>4. \A s \in Tabs, j \in Slots :
          /\ call'[j].pc = "sent" /\ call'[j].op \notin Gets /\ call'[j].page = tab'[s].page
          /\ ~tab'[s].early /\ Owns(s, call[j].cookie)'
          => call'[j].csrf = call'[j].cookie
    <3> SUFFICES ASSUME NEW s \in Tabs, NEW j \in Slots, call'[j].pc = "sent",
                        call'[j].op \notin Gets, call'[j].page = tab'[s].page,
                        ~tab'[s].early, Owns(s, call[j].cookie)'
                 PROVE  call'[j].csrf = call'[j].cookie
      OBVIOUS
    <3>1. j # k /\ call'[j] = call[j]
      BY <1>4, <1>8 DEF Gets
    <3>2. Live(call[j].cookie) /\ origin'[call[j].cookie] = tab[s].page
      BY <3>1, <1>3, <1>9 DEF Owns, Live
    <3>3. Owns(s, call[j].cookie)
      BY <3>2, <1>2, <1>6, <1>12 DEF Owns
    <3>4. QED
      BY <3>1, <3>3, <1>1, <1>9 DEF Tokens
  <2>5. QED
    BY <2>1, <2>2, <2>3, <2>4 DEF Tokens, Busy, Ok
<1>16. CsrfRefusalExplained'
  <2> SUFFICES ASSUME NEW s \in Tabs, NEW j \in Slots, call'[j].page = tab'[s].page,
                      call'[j].result = "csrf", ~tab'[s].early
               PROVE  origin'[call'[j].cookie] # tab'[s].page
    BY DEF CsrfRefusalExplained
  <2>1. j # k /\ call'[j] = call[j]
    BY <1>8
  <2>2. origin[call[j].cookie] # tab[s].page
    BY <2>1, <1>1, <1>9 DEF CsrfRefusalExplained
  <2>3. call[j].cookie \in 1 .. MaxLoads
    <3>1. call[j].cookie # 0
      BY <2>1, <1>1 DEF Frames, Shape
    <3>2. QED
      BY <3>1, <1>2
  <2>4. QED
    BY <2>1, <2>2, <2>3, <1>6, <1>9, <1>12
<1>17. QED
  BY <1>7, <1>13, <1>14, <1>15, <1>16 DEF CInv

-----------------------------------------------------------------------------
(* The theorems.                                                           *)

\* No step breaks the invariant.
LEMMA ConsoleNext == CInv /\ [Next]_vars => CInv'
<1> SUFFICES ASSUME CInv, [Next]_vars PROVE CInv'
  OBVIOUS
<1>1. ASSUME NEW t \in Tabs, NEW k \in Slots, Open(t, k) PROVE CInv'
  BY <1>1, OpenKeeps
<1>2. ASSUME NEW t \in Tabs, NEW k \in Slots,
             Write(t, k) \/ Logout(t, k) \/ (\E v \in Views : Navigate(t, k, v))
      PROVE  CInv'
  <2>1. PICK p, op, view : Asks(t, k, p, op, view)
    BY <1>2, ClicksAsk
  <2>2. QED
    BY <2>1, AsksKeeps
<1>3. ASSUME NEW k \in Slots, Server(k), UNCHANGED browserVars PROVE CInv'
  <2>1. TypeOK /\ Frames
    BY DEF CInv
  <2>2. PICK g : Serves(k, g)
    BY <1>3, <2>1, ServerServes
  <2>3. QED
    BY <2>2, ServesKeeps
<1>4. ASSUME NEW t \in Tabs, NEW k \in Slots, Answered(t, k) PROVE CInv'
  <2>1. PICK f, p, g : Follows(t, k, f, p, g) /\ (Reads(t, f, p) \/ Takes(t, f, p))
    BY <1>4, AnsweredFollows
  <2>2. QED
    BY <2>1, ReadsKeeps, TakesKeeps
<1>5. ASSUME NEW k \in Slots, Dropped(k) PROVE CInv'
  BY <1>5, DroppedKeeps
<1>6. ASSUME NEW sid \in opsess, Expire(sid) PROVE CInv'
  BY <1>6, ExpireKeeps
<1>7. CASE UNCHANGED vars
  <2>1. UNCHANGED <<peer, opsess, lapsed, nextSid, call, jar, tab, loads, clicks, origin>>
    BY <1>7 DEF vars, sessionVars, browserVars
  <2>2. TypeOK' /\ Frames' /\ Pages' /\ Counted' /\ Fresh' /\ Chains'
    BY <2>1 DEF CInv, TypeOK, SessionTypeOK, Frames, Shape, Pages, Counted, Pending,
                Fresh, Chains, Busy
  <2>3. Tokens' /\ CsrfRefusalExplained' /\ StartupNeverStalls' /\ Lists'
    BY <2>1 DEF CInv, Tokens, Owns, Live, Busy, CsrfRefusalExplained,
                StartupNeverStalls, Lists
  <2>4. QED
    BY <2>2, <2>3 DEF CInv
<1>8. QED
  BY <1>1, <1>2, <1>3, <1>4, <1>5, <1>6, <1>7 DEF Next, Progress

\* Whatever the pages, the server and the user do, in whatever order the
\* answers arrive, the invariant holds.
THEOREM ConsoleInvariance == Spec => []CInv
BY ConsoleInit, ConsoleNext, PTL DEF Spec

\* The cookie, the pages and their calls keep their shapes, and there are no
\* more sessions than pages that asked for one.
THEOREM ConsoleTypeCorrect == Spec => []TypeOK
<1>1. CInv => TypeOK
  BY DEF CInv
<1>2. QED
  BY <1>1, ConsoleInvariance, PTL

\* A page of the console is refused for its CSRF token only if the cookie is
\* another page's session or the user signed out during its start-up
\* (mintOnce, refreshWho and api against Server.authenticate).
THEOREM RefusalsAreExplained == Spec => []CsrfRefusalExplained
<1>1. CInv => CsrfRefusalExplained
  BY DEF CInv
<1>2. QED
  BY <1>1, ConsoleInvariance, PTL

\* Once no list is on its way, a started page paints the view that its
\* navigation marks, or an error (renderView and the guards of the loaders).
THEOREM PaintsCurrentView == Spec => []ShowsCurrentView
<1>1. CInv => ShowsCurrentView
  BY DEF CInv, Lists, ShowsCurrentView
<1>2. QED
  BY <1>1, ConsoleInvariance, PTL

\* A page that is starting always waits for a call of its start-up: no answer
\* ends the chain of refreshWho, mintOnce and refreshMeta early.
THEOREM StartupAlwaysGoesOn == Spec => []StartupNeverStalls
<1>1. CInv => StartupNeverStalls
  BY DEF CInv
<1>2. QED
  BY <1>1, ConsoleInvariance, PTL

=============================================================================
