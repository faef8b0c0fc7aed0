------------------------------ MODULE Console ------------------------------
(***************************************************************************)
(* The operator console in a browser: pages in tabs that share one cookie, *)
(* each with its CSRF token in memory, its calls answered in any order.    *)
(* An action is one turn of a page's event loop: a user's click, or the    *)
(* callback of an answer, up to the next call it sends.                    *)
(*                                                                         *)
(* What the answers contain is left out; a list that spans several API     *)
(* pages, and the three parallel reads of refreshMeta, are one call.       *)
(***************************************************************************)
EXTENDS OperatorSessions

CONSTANTS
    Tabs,       \* numbered, and opened in this order
    MaxLoads,   \* bound on page loads, and so on sessions
    MaxClicks   \* bound on what the user does to the pages

ASSUME BoundAssumption == {MaxLoads, MaxClicks} \subseteq Nat

VARIABLES
    jar,        \* the session cookie of the browser (0: none)
    tab,        \* the page in each tab
    loads,      \* pages loaded so far
    clicks,     \* what the user has done so far
    origin      \* history: the page that asked for each session

browserVars == <<jar, tab, loads, clicks, origin>>
vars == <<sessionVars, browserVars>>

\* The views with buttons that send a POST.
Editable == {"sessions", "users"}

\* page: 0 while the tab is empty; early: the user signed out during start-up.
Page == [page: Nat, phase: {"starting", "ready"}, csrf: Nat,
         view: Views, painted: Views \cup {"loading", "blank"}, early: BOOLEAN]

\* The cookie, the pages and their calls have the shapes the code gives them,
\* and every session in the table was drawn once.
TypeOK ==
    /\ SessionTypeOK
    /\ jar \in Nat /\ loads \in 0..MaxLoads /\ clicks \in 0..MaxClicks
    /\ tab \in [Tabs -> Page]
    /\ origin \in [1..MaxLoads -> 0..MaxLoads]

EmptyTab == [page |-> 0, phase |-> "ready", csrf |-> 0,
             view |-> NoView, painted |-> "blank", early |-> FALSE]

Init ==
    /\ SessionInit
    /\ jar = 0 /\ loads = 0 /\ clicks = 0
    /\ tab = [t \in Tabs |-> EmptyTab]
    /\ origin = [sid \in 1..MaxLoads |-> 0]

\* The first idle slot takes the next call.
Free(k) == call[k].pc = "idle" /\ \A j \in Slots : j < k => call[j].pc # "idle"

\* api: the call carries the browser's cookie and, unless it is a GET, the
\* page's CSRF token, both as they are now.
Api(page, cookie, op, view) ==
    [NoCall EXCEPT !.pc = "sent", !.page = page.page, !.op = op, !.view = view,
                   !.cookie = cookie, !.csrf = IF op \in Gets THEN 0 ELSE page.csrf]

Sends(k, page, op, view) == call' = [call EXCEPT ![k] = Api(page, jar, op, view)]
Shows(t, page) == tab' = [tab EXCEPT ![t] = page]

-----------------------------------------------------------------------------
(* The user.                                                               *)

\* A page is opened or reloaded and starts with refreshWho.  Calls of the page
\* it replaces go on, but nobody waits for their answers.
Open(t, k) ==
    /\ loads < MaxLoads /\ Free(k)
    /\ \A s \in Tabs : s < t => tab[s].page # 0
    /\ loads' = loads + 1
    /\ LET page == [EmptyTab EXCEPT !.page = loads', !.phase = "starting",
                                    !.painted = "loading"]
       IN  Shows(t, page) /\ Sends(k, page, "who1", NoView)
    /\ UNCHANGED <<peer, opsess, lapsed, nextSid, jar, clicks, origin>>

browserKept == <<peer, opsess, lapsed, nextSid, jar, loads, origin>>

Clicks(k) == Free(k) /\ clicks < MaxClicks /\ clicks' = clicks + 1

\* A click in the navigation, or a change of the URL's fragment.
Navigate(t, k, v) ==
    /\ tab[t].page # 0 /\ Clicks(k)
    /\ Shows(t, [tab[t] EXCEPT !.view = v])
    /\ Sends(k, tab[t], "load", v)
    /\ UNCHANGED browserKept

\* A button of the view that is painted, which need not be the current one.
Write(t, k) ==
    /\ tab[t].painted \in Editable /\ Clicks(k)
    /\ Sends(k, tab[t], "write", tab[t].painted)
    /\ UNCHANGED <<tab, browserKept>>

Logout(t, k) ==
    /\ tab[t].page # 0 /\ Clicks(k)
    /\ Sends(k, tab[t], "logout", NoView)
    /\ Shows(t, [tab[t] EXCEPT !.early = @ \/ tab[t].phase = "starting"])
    /\ UNCHANGED browserKept

-----------------------------------------------------------------------------
(* Answers.  The browser applies an answer's cookie, then runs the page's  *)
(* callback; both fall away if the page is gone.                           *)

JarAfter(f) ==
    CASE f.setCookie = "set" -> f.token
      [] f.setCookie = "clear" -> 0
      [] OTHER -> jar

Ok(f) == f.result = "ok"

\* refreshWho: whatever the answer, it replaces the CSRF token.
WithWho(page, f) == [page EXCEPT !.csrf = IF Ok(f) THEN f.token ELSE 0]

\* mintOnce: only a success is taken over.
WithMint(page, f) == [page EXCEPT !.csrf = IF Ok(f) THEN f.token ELSE @]

\* Mutant: a list is painted when it arrives, current or not.
WithAnyList(page, f) == [page EXCEPT !.painted = IF Ok(f) THEN f.view ELSE "blank"]

\* loadSessions, loadUsers, loadLeftover: an answer for a view that is no
\* longer current is dropped.
WithList(page, f) ==
    IF page.view # f.view THEN page
    ELSE [page EXCEPT !.painted = IF Ok(f) THEN f.view ELSE "blank"]

\* The callback of each call: the page afterwards.
AfterAnswer(page, f) ==
    CASE f.op \in {"who1", "who2", "who"} -> WithWho(page, f)
      [] f.op = "mintOnce" -> WithMint(page, f)
      [] f.op = "refreshMeta" -> [page EXCEPT !.phase = "ready"]
      [] f.op = "load" -> WithList(page, f)
      [] f.op = "logout" -> [page EXCEPT !.csrf = IF Ok(f) THEN 0 ELSE @]
      [] OTHER -> page

\* Mutant: a refused mint ends the start-up.
NextOpStrict(page, f) ==
    CASE f.op = "who1" -> IF page.csrf # 0 THEN "who2" ELSE "mintOnce"
      [] f.op = "mintOnce" -> IF Ok(f) THEN "who2" ELSE "none"
      [] f.op = "who2" -> "refreshMeta"
      [] f.op = "refreshMeta" -> "load"
      [] f.op = "write" -> IF Ok(f) THEN "load" ELSE "none"
      [] f.op = "logout" -> IF Ok(f) THEN "who" ELSE "none"
      [] OTHER -> "none"

\* The callback of each call: the one it sends next, if any.  mintOnce is
\* passed over if the page has a token (it is called once per page, so that
\* the flag mintedOnce decides nothing).
NextOp(page, f) ==
    CASE f.op = "who1" -> IF page.csrf # 0 THEN "who2" ELSE "mintOnce"
      [] f.op = "mintOnce" -> "who2"
      [] f.op = "who2" -> "refreshMeta"
      [] f.op = "refreshMeta" -> "load"
      [] f.op = "write" -> IF Ok(f) THEN "load" ELSE "none"
      [] f.op = "logout" -> IF Ok(f) THEN "who" ELSE "none"
      [] OTHER -> "none"

\* A write reloads its own list, the start-up the view of the fragment.
NextView(page, f) == IF f.op = "write" THEN f.view ELSE page.view

Answered(t, k) ==
    /\ call[k].pc = "answered" /\ call[k].page = tab[t].page
    /\ LET f == call[k]
           page == AfterAnswer(tab[t], f)
           op == NextOp(page, f)
       IN  /\ jar' = JarAfter(f)
           /\ Shows(t, page)
           /\ call' = [call EXCEPT ![k] =
                IF op = "none" THEN NoCall
                ELSE Api(page, jar', op, IF op = "load" THEN NextView(page, f) ELSE NoView)]
           /\ origin' = IF f.op = "mintOnce" /\ Ok(f)
                        THEN [origin EXCEPT ![f.token] = f.page] ELSE origin
    /\ UNCHANGED <<peer, opsess, lapsed, nextSid, loads, clicks>>

\* The answer to a page that was closed or reloaded.
Dropped(k) ==
    /\ call[k].pc = "answered"
    /\ \A t \in Tabs : tab[t].page # call[k].page
    /\ call' = [call EXCEPT ![k] = NoCall]
    /\ UNCHANGED <<peer, opsess, lapsed, nextSid, browserVars>>

\* A session's time is up, on the server and, if their clocks agree, for the
\* cookie in the browser.
Expire(sid) ==
    /\ Lapse(sid)
    /\ jar' \in {jar, IF jar = sid THEN 0 ELSE jar}
    /\ UNCHANGED <<tab, loads, clicks, origin>>

-----------------------------------------------------------------------------
\* A call is served, and its answer arrives.
Progress(k) ==
    \/ Server(k) /\ UNCHANGED browserVars
    \/ \E t \in Tabs : Answered(t, k)
    \/ Dropped(k)

Next ==
    \/ \E t \in Tabs, k \in Slots :
         \/ Open(t, k) \/ Write(t, k) \/ Logout(t, k)
         \/ \E v \in Views : Navigate(t, k, v)
    \/ \E k \in Slots : Progress(k)
    \/ \E sid \in opsess : Expire(sid)

Spec == Init /\ [][Next]_vars

-----------------------------------------------------------------------------
(* Properties.                                                             *)

\* The server refuses a console's own write for its CSRF token only if
\* another page load put its session in the shared cookie, or if the user
\* signed out while the page was starting.  However calls, expiry, reloads
\* and sign-outs of other tabs interleave, a page is never at odds with the
\* session it asked for itself.
CsrfRefusalExplained ==
    \A t \in Tabs, k \in Slots :
        /\ call[k].page = tab[t].page /\ call[k].result = "csrf"
        => tab[t].early \/ origin[call[k].cookie] # tab[t].page

\* Once the start-up is over and no list is on its way, the page shows the
\* view that its navigation marks, or an error, although the lists arrive in
\* any order and a write reloads the list it was made from.
ShowsCurrentView ==
    \A t \in Tabs :
        /\ tab[t].page # 0 /\ tab[t].phase = "ready"
        /\ \A k \in Slots : ~(call[k].page = tab[t].page /\ call[k].op \in {"load", "write"})
        => tab[t].painted \in {tab[t].view, "blank"}

\* The start-up never stalls: as long as a page is starting, one call of the
\* start-up chain is on its way, whose callback sends the next, whatever the
\* calls answer: refused, failed, or for a session that has ended meanwhile.
StartupNeverStalls ==
    \A t \in Tabs : tab[t].phase = "starting" =>
        \E k \in Slots : /\ call[k].pc # "idle" /\ call[k].page = tab[t].page
                         /\ call[k].op \in {"who1", "mintOnce", "who2", "refreshMeta"}
=============================================================================
