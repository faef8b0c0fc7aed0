----------------------------- MODULE DataPlane -----------------------------
(***************************************************************************)
(* LabSSO's data plane against its management plane.  Requests run         *)
(* concurrently; each captures the active snapshot once, when it arrives   *)
(* (snapshot.Capture), and then calls oidc.Runtime step by step: one       *)
(* action below is one critical section of Runtime.mu, together with the   *)
(* checks against the captured snapshot that follow it.  A configuration   *)
(* change (App.Apply, App.Reset) holds App.mu and revokes, cleans up and   *)
(* publishes in separate steps; the tunables and session expiry do not     *)
(* take App.mu and may interleave with everything.                         *)
(*                                                                         *)
(* A request refused before it touches Runtime (rate limit, malformed      *)
(* input, unknown client or realm, PKCE and response_type errors) leaves   *)
(* no trace and is the action Refuse.                                      *)
(***************************************************************************)
EXTENDS Runtime

CONSTANTS
    Requests,   \* concurrent request slots
    Docs,       \* configuration documents
    Boot,       \* the bootstrap document
    Handlers,   \* the endpoints that are exercised
    Knobs,      \* the operator operations that are exercised
    MaxGen,     \* bound on the snapshot generation
    MaxID       \* a request starts only while nextID <= MaxID

Modes == {"never", "always", "force-fail"}

\* A document: enabled users, client registrations, those with preConsent,
\* the MFA mode, the enabled protocols, the vendor profile with the users'
\* group memberships (all security-sensitive), and the rest (group names,
\* overage policy, UI), which is not.  The last two are opaque here.
Document == [users: SUBSET Users, clients: SUBSET Clients,
             preConsent: SUBSET Clients, mode: Modes,
             protocols: SUBSET Protocols, roster: Nat, aux: Nat]

Snapshot == [gen: Nat, doc: Document]

AllHandlers == {"authorize", "token", "login", "consent", "deny", "sso", "logout"}
AllKnobs == {"apply", "reset", "expireSession", "expireAll", "listSessions",
             "time", "pause", "forceFail", "forceConsent", "inject"}

ASSUME DocsAssumption == Docs \subseteq Document /\ Boot \in Docs
ASSUME RangeAssumption == Handlers \subseteq AllHandlers /\ Knobs \subseteq AllKnobs
ASSUME BoundAssumption == MaxGen \in Nat /\ MaxID \in Nat

VARIABLES
    active,     \* the published snapshot (snapshot.Store)
    req,        \* the frame of each request slot
    mgr,        \* the configuration change that holds App.mu
    issued,     \* history: what was delivered, and from which handle
    ended       \* history: sessions ended by logout or by the operator

vars == <<runtimeVars, active, req, mgr, issued, ended>>

-----------------------------------------------------------------------------
(* Frames.  pc names the next critical section; h is the handle being      *)
(* redeemed or completed; via is the grant type or the protocol; off is    *)
(* history: the tunables that were off at some moment since the arrival.   *)

Labels == {"idle",
    "az_inject", "az_forcefail", "az_session", "az_consent", "az_code", "az_pending",
    "tk_paused", "tk_inject", "tk_grant", "tk_forcefail", "tk_gen", "tk_burn", "tk_store",
    "lg_forcefail", "lg_pending", "lg_totp", "lg_session", "lg_client", "lg_consent",
    "cs_session", "dn_get", "dn_take", "finish",
    "co_forcefail", "co_gen", "co_get", "co_take", "co_code",
    "as_get", "as_forcefail", "as_gen", "as_take",
    "so_forcefail", "so_pending", "so_session", "so_consent",
    "lo_session", "lo_expire"}

Switches == {"paused", "forceFail", "forceConsent"}

Frame == [pc: Labels, snap: Snapshot, h: Nat, user: Users \cup {None},
          client: Clients \cup {None}, mfa: BOOLEAN, sid: Nat,
          via: Protocols \cup {"code", "refresh"}, off: SUBSET Switches]

BootSnapshot == [gen |-> 1, doc |-> Boot]

Idle == [pc |-> "idle", snap |-> BootSnapshot, h |-> 0, user |-> None,
         client |-> None, mfa |-> FALSE, sid |-> 0, via |-> "oidc", off |-> {}]

MgrLabels == {"idle", "invalidate", "sync", "swap", "r_invalidate", "r_reset", "r_swap"}

Issue == [from: Nat, to: Handle, user: Users \cup {None},
          client: Clients \cup {None}, mfa: BOOLEAN]

TypeOK ==
    /\ RuntimeTypeOK
    /\ active \in Snapshot
    /\ req \in [Requests -> Frame]
    /\ mgr \in [pc: MgrLabels, cand: Snapshot]
    /\ issued \subseteq Issue
    /\ ended \subseteq Nat

Init ==
    /\ NewRuntime
    /\ active = BootSnapshot
    /\ req = [p \in Requests |-> Idle]
    /\ mgr = [pc |-> "idle", cand |-> BootSnapshot]
    /\ issued = {}
    /\ ended = {}

At(p, label) == req[p].pc = label
Become(p, frame) == req' = [req EXCEPT ![p] = frame]
Goto(p, label) == Become(p, [req[p] EXCEPT !.pc = label])
Done(p) == Become(p, Idle)

\* Variables a request never touches, and those most of its steps leave alone.
control == <<minimumGeneration, expired, active, mgr>>
history == <<nextID, issued>>

\* A step that only reads Runtime.
Reads == UNCHANGED <<control, tables, tunables, history, ended>>
\* A step that changes the tables and delivers nothing.
Writes == UNCHANGED <<control, tunables, history, ended>>
\* A step that may insert a row under the next handle.
Inserts == UNCHANGED <<control, tunables, ended>>

NothingIssued == UNCHANGED history
Fresh == nextID' = nextID + 1
Deliver(from, f) ==
    issued' = issued \cup {[from |-> from, to |-> nextID, user |-> f.user,
                            client |-> f.client, mfa |-> f.mfa]}

SwitchedOff ==
    {k \in Switches : \/ k = "paused" /\ ~paused
                      \/ k = "forceFail" /\ ~forceFail
                      \/ k = "forceConsent" /\ ~forceConsent}
NoteSwitches ==
    req' = [p \in Requests |->
              IF At(p, "idle") THEN req[p]
              ELSE [req[p] EXCEPT !.off = @ \cup SwitchedOff']]

\* Checks against a captured snapshot.
UserUsable(snap, u) == u \in snap.doc.users
SessionUsable(snap, mfa) ==
    snap.doc.mode # "force-fail" /\ (snap.doc.mode = "always" => mfa)
PendingUsable(snap, row) ==
    row.client \in snap.doc.clients /\ row.protocol \in snap.doc.protocols
PreConsent(snap, c) == c \in snap.doc.preConsent /\ c \in snap.doc.clients

\* A request arrives: the snapshot is captured before its body is read.  The
\* cookie it carries names a session that exists by then (or none).
Arrive(p, handler, label, c, via) ==
    /\ At(p, "idle") /\ handler \in Handlers /\ nextID <= MaxID
    /\ \E sid \in IDs(sessions) \cup {0} :
         Become(p, [pc |-> label, snap |-> active, h |-> 0, user |-> None, client |-> c,
                    mfa |-> FALSE, sid |-> sid, via |-> via, off |-> SwitchedOff])
    /\ Reads

Refuse(p) == At(p, "idle") /\ UNCHANGED vars

-----------------------------------------------------------------------------
(* GET /authorize.                                                         *)

Authorize(p) ==
    /\ "oidc" \in active.doc.protocols
    /\ \E c \in active.doc.clients : Arrive(p, "authorize", "az_inject", c, "oidc")

AuthorizeInject(p) ==
    /\ At(p, "az_inject")
    /\ IF inject THEN Done(p) ELSE Goto(p, "az_forcefail")
    /\ inject' = FALSE
    /\ UNCHANGED <<control, tables, paused, forceFail, forceConsent, history, ended>>

AuthorizeForceFail(p) ==
    /\ At(p, "az_forcefail")
    /\ IF forceFail \/ req[p].snap.doc.mode = "force-fail"
       THEN Done(p) ELSE Goto(p, "az_session")
    /\ Reads

\* The live session the cookie names, if this snapshot lets it be used.
UsableSession(f) ==
    {s \in Unexpired(sessions) : /\ s.id = f.sid
                                 /\ SessionUsable(f.snap, s.mfa)
                                 /\ UserUsable(f.snap, s.user)}

\* Mutant: the session's user is not carried over.
WithAnonymousSession(f, s, label) ==
    [f EXCEPT !.pc = label, !.mfa = s.mfa]

WithSession(f, s, label) ==
    [f EXCEPT !.pc = label, !.user = s.user, !.mfa = s.mfa]

AuthorizeSession(p) ==
    /\ At(p, "az_session")
    /\ GetSession(req[p].sid)
    /\ \/ /\ UsableSession(req[p]) = {}
          /\ Become(p, [req[p] EXCEPT !.pc = "az_pending"])
       \/ \E s \in UsableSession(req[p]) :
            Become(p, WithSession(req[p], s,
                        IF PreConsent(req[p].snap, req[p].client)
                        THEN "az_consent" ELSE "az_pending"))
    /\ UNCHANGED <<pending, codes, refresh>> /\ Writes

AuthorizeConsent(p) ==
    /\ At(p, "az_consent")
    /\ Goto(p, IF forceConsent THEN "az_pending" ELSE "az_code")
    /\ Reads

CodeRow(f) == [id |-> nextID, gen |-> f.snap.gen, client |-> f.client,
               user |-> f.user, mfa |-> f.mfa, sid |-> f.sid]
PendingRow(f) == [id |-> nextID, gen |-> f.snap.gen, client |-> f.client,
                  protocol |-> f.via]

AuthorizeCode(p) ==
    /\ At(p, "az_code") /\ Done(p)
    /\ \/ PutCode(CodeRow(req[p])) /\ Fresh /\ Deliver(0, req[p])
       \/ PutRefused(req[p].snap.gen, codes) /\ NothingIssued
    /\ Inserts

AuthorizePending(p) ==
    /\ At(p, "az_pending") /\ Done(p)
    /\ \/ PutPending(PendingRow(req[p])) /\ Fresh /\ UNCHANGED issued
       \/ PendingRefused(req[p].snap.gen) /\ NothingIssued
    /\ Inserts

-----------------------------------------------------------------------------
(* POST /token.  The grant is in the body, so it may be newer than the     *)
(* captured snapshot.                                                      *)

Token(p) ==
    /\ "oidc" \in active.doc.protocols
    /\ Arrive(p, "token", "tk_paused", None, "code")

TokenPaused(p) ==
    /\ At(p, "tk_paused")
    /\ IF paused THEN Done(p) ELSE Goto(p, "tk_inject")
    /\ Reads

TokenInject(p) ==
    /\ At(p, "tk_inject")
    /\ IF inject THEN Done(p) ELSE Goto(p, "tk_grant")
    /\ inject' = FALSE
    /\ UNCHANGED <<control, tables, paused, forceFail, forceConsent, history, ended>>

WithGrant(f, row, via) ==
    [f EXCEPT !.pc = "tk_forcefail", !.h = row.id, !.user = row.user,
              !.client = row.client, !.mfa = row.mfa, !.sid = row.sid, !.via = via]

\* The code is taken before it is checked: a wrong client, redirect URI or
\* verifier burns it.
TokenCode(p) ==
    /\ At(p, "tk_grant")
    /\ \E row \in codes, c \in req[p].snap.doc.clients, proof \in BOOLEAN :
         /\ TakeCode(row.id)
         /\ IF row.id \notin expired /\ row.client = c /\ proof
            THEN Become(p, WithGrant(req[p], row, "code")) ELSE Done(p)
    /\ UNCHANGED <<pending, refresh, sessions>> /\ Writes

\* A wrong client or a widened scope leaves the grant alone.
TokenRefresh(p) ==
    /\ At(p, "tk_grant")
    /\ \E row \in refresh, c \in req[p].snap.doc.clients, scopeSubset \in BOOLEAN :
         IF row.id \notin expired /\ row.client = c /\ scopeSubset
         THEN Become(p, WithGrant(req[p], row, "refresh")) ELSE Done(p)
    /\ Reads

\* No such grant, no such client, or an unsupported grant type.
TokenRejected(p) == At(p, "tk_grant") /\ Done(p) /\ Reads

\* writeTokens: the checks before anything is issued.  A withdrawn scope is no
\* case of its own: it changes the client, so that no grant made before is left
\* for a request of an admissible generation.
Revoked(f) == f.client \notin f.snap.doc.clients \/ ~UserUsable(f.snap, f.user)

\* Mutant: writeTokens does not read the force-fail flag.
TokenForceFailIgnored(p) ==
    /\ At(p, "tk_forcefail")
    /\ LET f == req[p]
           denied == Revoked(f) \/ ~SessionUsable(f.snap, f.mfa)
       IN  IF ~denied THEN Goto(p, "tk_gen")
           ELSE IF Revoked(f) /\ f.via = "refresh" THEN Goto(p, "tk_burn")
           ELSE Done(p)
    /\ Reads

TokenForceFail(p) ==
    /\ At(p, "tk_forcefail")
    /\ LET f == req[p]
           denied == forceFail \/ Revoked(f) \/ ~SessionUsable(f.snap, f.mfa)
       IN  IF ~denied THEN Goto(p, "tk_gen")
           ELSE IF Revoked(f) /\ f.via = "refresh" THEN Goto(p, "tk_burn")
           ELSE Done(p)
    /\ Reads

TokenGeneration(p) ==
    /\ At(p, "tk_gen")
    /\ IF GenerationUsable(req[p].snap.gen) THEN Goto(p, "tk_store") ELSE Done(p)
    /\ Reads

\* Mutant: any request that finds its grant revoked takes it.
TokenBurnStale(p) ==
    /\ At(p, "tk_burn") /\ Done(p)
    /\ TakeRefresh(req[p].h)
    /\ UNCHANGED <<pending, codes, sessions>> /\ Writes

\* A revoked user or client loses the refresh grant, but not to a request
\* whose snapshot is stale.  (The code tests the generation and takes the
\* grant in two critical sections; a purge between them leaves nothing to
\* take, as handles are not reused.)
TokenBurn(p) ==
    /\ At(p, "tk_burn") /\ Done(p)
    /\ IF GenerationUsable(req[p].snap.gen)
       THEN TakeRefresh(req[p].h) ELSE UNCHANGED refresh
    /\ UNCHANGED <<pending, codes, sessions>> /\ Writes

\* A group-overage failure or a signing error: nothing is stored.
TokenIssueFails(p) == At(p, "tk_store") /\ Done(p) /\ Reads

TokenStoreCode(p) ==
    /\ At(p, "tk_store") /\ req[p].via = "code" /\ Done(p)
    /\ \/ PutRefresh(CodeRow(req[p])) /\ Fresh /\ Deliver(req[p].h, req[p])
       \/ PutRefused(req[p].snap.gen, refresh) /\ NothingIssued
    /\ Inserts

TokenStoreRefresh(p) ==
    /\ At(p, "tk_store") /\ req[p].via = "refresh" /\ Done(p)
    /\ \/ RotateRefresh(req[p].h, CodeRow(req[p])) /\ Fresh /\ Deliver(req[p].h, req[p])
       \/ ~CanRotate(req[p].h, req[p].snap.gen) /\ UNCHANGED tables /\ NothingIssued
    /\ Inserts

-----------------------------------------------------------------------------
(* POST /login.  The password check and the TOTP code are a choice of the  *)
(* environment; the replay ledger is in module Totp.                       *)

Login(p) == Arrive(p, "login", "lg_forcefail", None, "oidc")

LoginForceFail(p) ==
    /\ At(p, "lg_forcefail")
    /\ IF forceFail THEN Done(p) ELSE Goto(p, "lg_pending")
    /\ Reads

\* The flow must exist and be admissible; then credentials and MFA mode.
LoginPending(p) ==
    /\ At(p, "lg_pending")
    /\ \E row \in pending :
         /\ GetPending(row.id)
         /\ LET f == req[p]
                valid == row.id \notin expired /\ PendingUsable(f.snap, row)
            IN  \/ /\ valid /\ f.snap.doc.mode # "force-fail"
                   /\ \E u \in f.snap.doc.users :
                        Become(p, [f EXCEPT !.h = row.id, !.user = u, !.sid = 0,
                                     !.pc = IF f.snap.doc.mode = "always"
                                            THEN "lg_totp" ELSE "lg_session"])
                \/ Done(p)
    /\ UNCHANGED <<codes, refresh, sessions>> /\ Writes

\* No such pending request.
LoginRejected(p) == At(p, "lg_pending") /\ Done(p) /\ Reads

LoginTOTP(p) ==
    /\ At(p, "lg_totp")
    /\ \/ /\ GenerationUsable(req[p].snap.gen)
          /\ Become(p, [req[p] EXCEPT !.pc = "lg_session", !.mfa = TRUE])
       \/ Done(p)
    /\ Reads

SessionRow(f) == [id |-> nextID, gen |-> f.snap.gen, user |-> f.user, mfa |-> f.mfa]

LoginSessionPut(p) ==
    /\ At(p, "lg_session")
    /\ \/ /\ PutSession(SessionRow(req[p])) /\ Fresh /\ UNCHANGED issued
          /\ Become(p, [req[p] EXCEPT !.pc = "lg_client", !.sid = nextID])
       \/ PutRefused(req[p].snap.gen, sessions) /\ NothingIssued /\ Done(p)
    /\ Inserts

\* pendingClient reads the flow again to learn its client.
LoginClient(p) ==
    /\ At(p, "lg_client")
    /\ GetPending(req[p].h)
    /\ IF \E row \in Unexpired(pending) :
              row.id = req[p].h /\ PreConsent(req[p].snap, row.client)
       THEN Goto(p, "lg_consent") ELSE Done(p)
    /\ UNCHANGED <<codes, refresh, sessions>> /\ Writes

LoginConsent(p) ==
    /\ At(p, "lg_consent")
    /\ IF forceConsent THEN Done(p) ELSE Goto(p, "finish")
    /\ Reads

-----------------------------------------------------------------------------
(* POST /consent: approve or deny the pending request named in the body.   *)

Consent(p) == Arrive(p, "consent", "cs_session", None, "oidc")

ConsentSession(p) ==
    /\ At(p, "cs_session")
    /\ GetSession(req[p].sid)
    /\ \/ \E s \in UsableSession(req[p]), h \in IDs(pending) :
            Become(p, [WithSession(req[p], s, "finish") EXCEPT !.h = h])
       \/ Done(p)
    /\ UNCHANGED <<pending, codes, refresh>> /\ Writes

Deny(p) == Arrive(p, "deny", "dn_get", None, "oidc")

\* Of the lookups by deny, one for each protocol, and by the provider's denial
\* this is the last; an earlier one that misses only refuses (DenyRejected).
DenyGet(p) ==
    /\ At(p, "dn_get")
    /\ \E row \in pending :
         /\ GetPending(row.id)
         /\ IF row.id \notin expired /\ PendingUsable(req[p].snap, row)
            THEN Become(p, [req[p] EXCEPT !.pc = "dn_take", !.h = row.id, !.sid = 0])
            ELSE Done(p)
    /\ UNCHANGED <<codes, refresh, sessions>> /\ Writes

DenyRejected(p) == At(p, "dn_get") /\ Done(p) /\ Reads

\* Mutant: the answer is delivered whether or not the row was taken.
TakesPendingBlind(p, f) ==
    /\ TakePending(f.h)
    /\ Fresh /\ Deliver(f.h, f)
    /\ UNCHANGED <<codes, refresh, sessions>>

\* TakePending succeeds for a live row only; the answer is delivered with it.
TakesPending(p, f) ==
    /\ TakePending(f.h)
    /\ IF f.h \in IDs(Unexpired(pending))
       THEN Fresh /\ Deliver(f.h, f) ELSE NothingIssued
    /\ UNCHANGED <<codes, refresh, sessions>>

DenyTake(p) == At(p, "dn_take") /\ TakesPending(p, req[p]) /\ Done(p) /\ Inserts

\* finish: choose the protocol of the pending request.  A request that has
\* vanished goes the OIDC way and fails there.  (The code looks the request up
\* once for each protocol in turn; a protocol never changes, so that only the
\* lookup for the request's own decides, and this is that one.)
Finish(p) ==
    /\ At(p, "finish")
    /\ GetPending(req[p].h)
    /\ Goto(p, IF \E row \in Unexpired(pending) : row.id = req[p].h /\ row.protocol # "oidc"
               THEN "as_get" ELSE "co_forcefail")
    /\ UNCHANGED <<codes, refresh, sessions>> /\ Writes

-----------------------------------------------------------------------------
(* CompleteLoginSnapshot: an OIDC flow ends in an authorization code.      *)

CompleteForceFail(p) ==
    /\ At(p, "co_forcefail")
    /\ LET f == req[p]
       IN  IF forceFail \/ ~UserUsable(f.snap, f.user) \/ ~SessionUsable(f.snap, f.mfa)
           THEN Done(p) ELSE Goto(p, "co_gen")
    /\ Reads

CompleteGeneration(p) ==
    /\ At(p, "co_gen")
    /\ IF GenerationUsable(req[p].snap.gen) THEN Goto(p, "co_get") ELSE Done(p)
    /\ Reads

\* The rows a completion may proceed with.
Completable(f, protocols) ==
    {row \in Unexpired(pending) : /\ row.id = f.h
                                  /\ PendingUsable(f.snap, row)
                                  /\ row.protocol \in protocols}

CompleteGet(p) ==
    /\ At(p, "co_get")
    /\ GetPending(req[p].h)
    /\ \/ Completable(req[p], {"oidc"}) = {} /\ Done(p)
       \/ \E row \in Completable(req[p], {"oidc"}) :
            Become(p, [req[p] EXCEPT !.pc = "co_take", !.client = row.client])
    /\ UNCHANGED <<codes, refresh, sessions>> /\ Writes

CompleteTake(p) ==
    /\ At(p, "co_take")
    /\ TakePending(req[p].h)
    /\ IF req[p].h \in IDs(Unexpired(pending)) THEN Goto(p, "co_code") ELSE Done(p)
    /\ UNCHANGED <<codes, refresh, sessions>> /\ Writes

CompleteCode(p) ==
    /\ At(p, "co_code") /\ Done(p)
    /\ \/ PutCode(CodeRow(req[p])) /\ Fresh /\ Deliver(req[p].h, req[p])
       \/ PutRefused(req[p].snap.gen, codes) /\ NothingIssued
    /\ Inserts

-----------------------------------------------------------------------------
(* SAML and WS-Federation: an assertion is built first and delivered only  *)
(* if the pending request can still be taken.                              *)

AssertGet(p) ==
    /\ At(p, "as_get")
    /\ GetPending(req[p].h)
    /\ \/ Completable(req[p], {"saml", "wsfed"}) = {} /\ Done(p)
       \/ \E row \in Completable(req[p], {"saml", "wsfed"}) :
            IF UserUsable(req[p].snap, req[p].user) /\ SessionUsable(req[p].snap, req[p].mfa)
            THEN Become(p, [req[p] EXCEPT !.pc = "as_forcefail", !.client = row.client])
            ELSE Done(p)
    /\ UNCHANGED <<codes, refresh, sessions>> /\ Writes

AssertForceFail(p) ==
    /\ At(p, "as_forcefail")
    /\ IF forceFail THEN Done(p) ELSE Goto(p, "as_gen")
    /\ Reads

\* After it the response is signed, which may fail.
AssertGeneration(p) ==
    /\ At(p, "as_gen")
    /\ \/ GenerationUsable(req[p].snap.gen) /\ Goto(p, "as_take")
       \/ Done(p)
    /\ Reads

AssertTake(p) == At(p, "as_take") /\ TakesPending(p, req[p]) /\ Done(p) /\ Inserts

\* GET/POST of the SSO endpoint: the pending request is stored before the
\* session is looked up.
Sso(p) ==
    \E via \in {"saml", "wsfed"} \cap active.doc.protocols, c \in active.doc.clients :
        Arrive(p, "sso", "so_forcefail", c, via)

SsoForceFail(p) ==
    /\ At(p, "so_forcefail")
    /\ IF forceFail \/ req[p].snap.doc.mode = "force-fail"
       THEN Done(p) ELSE Goto(p, "so_pending")
    /\ Reads

SsoPending(p) ==
    /\ At(p, "so_pending")
    /\ \/ /\ PutPending(PendingRow(req[p])) /\ Fresh /\ UNCHANGED issued
          /\ Become(p, [req[p] EXCEPT !.pc = "so_session", !.h = nextID])
       \/ PendingRefused(req[p].snap.gen) /\ NothingIssued /\ Done(p)
    /\ Inserts

SsoSession(p) ==
    /\ At(p, "so_session")
    /\ GetSession(req[p].sid)
    /\ \/ UsableSession(req[p]) = {} /\ Done(p)
       \/ \E s \in UsableSession(req[p]) :
            IF PreConsent(req[p].snap, req[p].client)
            THEN Become(p, WithSession(req[p], s, "so_consent")) ELSE Done(p)
    /\ UNCHANGED <<pending, codes, refresh>> /\ Writes

SsoConsent(p) ==
    /\ At(p, "so_consent")
    /\ IF forceConsent THEN Done(p) ELSE Goto(p, "as_get")
    /\ Reads

-----------------------------------------------------------------------------
(* Logout: a hinted GET or a confirmed POST ends the session.              *)

Logout(p) ==
    /\ "oidc" \in active.doc.protocols
    /\ Arrive(p, "logout", "lo_session", None, "oidc")

LogoutSession(p) ==
    /\ At(p, "lo_session")
    /\ GetSession(req[p].sid)
    /\ \/ req[p].sid \in IDs(Unexpired(sessions)) /\ Goto(p, "lo_expire")
       \/ Done(p)
    /\ UNCHANGED <<pending, codes, refresh>> /\ Writes

LogoutExpire(p) ==
    /\ At(p, "lo_expire") /\ Done(p)
    /\ ExpireSession(req[p].sid)
    /\ ended' = ended \cup ({req[p].sid} \cap IDs(sessions))
    /\ UNCHANGED <<control, tunables, history>>

-----------------------------------------------------------------------------
(* Configuration changes, under App.mu.  The candidate is compiled from    *)
(* the active snapshot, which no one else can replace meanwhile.           *)

\* Mutant: a user disabled or an MFA mode raised is taken for cosmetic.
SecurityChangedShallow(a, b) ==
    a.clients # b.clients \/ a.preConsent # b.preConsent \/ a.protocols # b.protocols

\* Mutant: the memberships of a user are taken for cosmetic.
SecurityChangedRoster(a, b) ==
    \/ a.users # b.users \/ a.clients # b.clients \/ a.preConsent # b.preConsent
    \/ a.mode # b.mode \/ a.protocols # b.protocols

SecurityChanged(a, b) ==
    \/ a.users # b.users \/ a.clients # b.clients \/ a.preConsent # b.preConsent
    \/ a.mode # b.mode \/ a.protocols # b.protocols
    \/ a.roster # b.roster

\* What a configuration step leaves alone.
untouched == <<expired, nextID, issued, ended>>

Candidate(d) == [gen |-> active.gen + 1, doc |-> d]

Apply(d) ==
    /\ "apply" \in Knobs /\ mgr.pc = "idle" /\ active.gen < MaxGen
    /\ mgr' = [cand |-> Candidate(d),
               pc |-> IF SecurityChanged(active.doc, d) THEN "invalidate" ELSE "sync"]
    /\ UNCHANGED <<minimumGeneration, tables, tunables, req, untouched, active>>

ApplyInvalidate ==
    /\ mgr.pc = "invalidate"
    /\ InvalidateBefore(mgr.cand.gen)
    /\ mgr' = [mgr EXCEPT !.pc = "sync"]
    /\ UNCHANGED <<tunables, req, untouched, active>>

\* syncTOTPOverlay; the overlays it drops are in module Totp.
ApplySync ==
    /\ mgr.pc = "sync"
    /\ IF mgr.cand.doc.mode = "always" /\ active.doc.mode # "always"
       THEN ExpireIncompleteMFA ELSE UNCHANGED tables
    /\ mgr' = [mgr EXCEPT !.pc = "swap"]
    /\ UNCHANGED <<minimumGeneration, tunables, req, untouched, active>>

ApplySwap ==
    /\ mgr.pc = "swap"
    /\ active' = mgr.cand
    /\ mgr' = [mgr EXCEPT !.pc = "idle"]
    /\ UNCHANGED <<minimumGeneration, tables, tunables, req, untouched>>

\* Reset reloads the bootstrap file, which may have been edited.
ResetState(d) ==
    /\ "reset" \in Knobs /\ mgr.pc = "idle" /\ active.gen < MaxGen
    /\ mgr' = [cand |-> Candidate(d), pc |-> "r_invalidate"]
    /\ UNCHANGED <<minimumGeneration, tables, tunables, req, untouched, active>>

\* Mutant: the bound is one past the candidate's generation.
ResetInvalidateBeyond ==
    /\ mgr.pc = "r_invalidate"
    /\ InvalidateBefore(mgr.cand.gen + 1)
    /\ mgr' = [mgr EXCEPT !.pc = "r_reset"]
    /\ UNCHANGED <<tunables, req, untouched, active>>

ResetInvalidate ==
    /\ mgr.pc = "r_invalidate"
    /\ InvalidateBefore(mgr.cand.gen)
    /\ mgr' = [mgr EXCEPT !.pc = "r_reset"]
    /\ UNCHANGED <<tunables, req, untouched, active>>

ResetRuntime ==
    /\ mgr.pc = "r_reset"
    /\ Reset /\ NoteSwitches
    /\ mgr' = [mgr EXCEPT !.pc = "r_swap"]
    /\ UNCHANGED <<minimumGeneration, untouched, active>>

ResetSwap ==
    /\ mgr.pc = "r_swap"
    /\ active' = mgr.cand
    /\ mgr' = [mgr EXCEPT !.pc = "idle"]
    /\ UNCHANGED <<minimumGeneration, tables, tunables, req, untouched>>

Configuration ==
    \/ \E d \in Docs : Apply(d) \/ ResetState(d)
    \/ ApplyInvalidate \/ ApplySync \/ ApplySwap
    \/ ResetInvalidate \/ ResetRuntime \/ ResetSwap

-----------------------------------------------------------------------------
(* Operator operations outside App.mu, and the passage of time.            *)

elsewhere == <<minimumGeneration, nextID, active, mgr, issued>>

OperatorExpireSession(h) ==
    /\ "expireSession" \in Knobs
    /\ h \in IDs(sessions)
    /\ ExpireSession(h)
    /\ ended' = ended \cup {h}
    /\ UNCHANGED <<elsewhere, req, expired, tunables>>

ExpireAllSessions ==
    /\ "expireAll" \in Knobs
    /\ ExpireAll
    /\ ended' = ended \cup IDs(sessions)
    /\ UNCHANGED <<elsewhere, req, expired, tunables>>

OperatorListSessions ==
    /\ "listSessions" \in Knobs
    /\ ListSessions
    /\ UNCHANGED <<elsewhere, req, expired, tunables, ended>>

SetTunables ==
    /\ \/ "pause" \in Knobs /\ paused' = ~paused
          /\ UNCHANGED <<forceFail, forceConsent, inject>>
       \/ "forceFail" \in Knobs /\ forceFail' = ~forceFail
          /\ UNCHANGED <<paused, forceConsent, inject>>
       \/ "forceConsent" \in Knobs /\ forceConsent' = ~forceConsent
          /\ UNCHANGED <<paused, forceFail, inject>>
       \/ "inject" \in Knobs /\ inject' = TRUE
          /\ UNCHANGED <<paused, forceFail, forceConsent>>
    /\ NoteSwitches
    /\ UNCHANGED <<elsewhere, tables, expired, ended>>

\* The lifetime of a stored row runs out.
Lapse(h) ==
    /\ "time" \in Knobs
    /\ expired' = expired \cup {h}
    /\ UNCHANGED <<elsewhere, req, tables, tunables, ended>>

Stored == IDs(pending) \cup IDs(codes) \cup IDs(refresh) \cup IDs(sessions)

Operator ==
    \/ \E h \in IDs(sessions) : OperatorExpireSession(h)
    \/ ExpireAllSessions \/ OperatorListSessions \/ SetTunables
    \/ \E h \in Stored : Lapse(h)

-----------------------------------------------------------------------------
Serve(p) ==
    \/ Refuse(p)
    \/ Authorize(p) \/ AuthorizeInject(p) \/ AuthorizeForceFail(p)
    \/ AuthorizeSession(p) \/ AuthorizeConsent(p)
    \/ AuthorizeCode(p) \/ AuthorizePending(p)
    \/ Token(p) \/ TokenPaused(p) \/ TokenInject(p)
    \/ TokenCode(p) \/ TokenRefresh(p) \/ TokenRejected(p)
    \/ TokenForceFail(p) \/ TokenGeneration(p) \/ TokenBurn(p)
    \/ TokenIssueFails(p) \/ TokenStoreCode(p) \/ TokenStoreRefresh(p)
    \/ Login(p) \/ LoginForceFail(p) \/ LoginPending(p) \/ LoginRejected(p)
    \/ LoginTOTP(p) \/ LoginSessionPut(p) \/ LoginClient(p) \/ LoginConsent(p)
    \/ Consent(p) \/ ConsentSession(p)
    \/ Deny(p) \/ DenyGet(p) \/ DenyRejected(p) \/ DenyTake(p)
    \/ Finish(p)
    \/ CompleteForceFail(p) \/ CompleteGeneration(p) \/ CompleteGet(p)
    \/ CompleteTake(p) \/ CompleteCode(p)
    \/ AssertGet(p) \/ AssertForceFail(p) \/ AssertGeneration(p) \/ AssertTake(p)
    \/ Sso(p) \/ SsoForceFail(p) \/ SsoPending(p) \/ SsoSession(p) \/ SsoConsent(p)
    \/ Logout(p) \/ LogoutSession(p) \/ LogoutExpire(p)

Next == (\E p \in Requests : Serve(p)) \/ Configuration \/ Operator

Spec == Init /\ [][Next]_vars

-----------------------------------------------------------------------------
(* The abstract view: which rows are live tickets, and which a request has *)
(* taken without having answered.                                          *)

TicketOf(row, protocol) ==
    [id |-> row.id, user |-> row.user, client |-> row.client, mfa |-> row.mfa,
     protocol |-> protocol]

LiveTickets ==
    {TicketOf([id |-> row.id, user |-> None, client |-> row.client, mfa |-> FALSE],
              row.protocol) : row \in Unexpired(pending)}
    \cup {TicketOf(row, None) : row \in Unexpired(codes \cup refresh)}
    \cup {TicketOf([id |-> row.id, user |-> row.user, client |-> None, mfa |-> row.mfa],
                   None) : row \in Unexpired(sessions)}

Taken(f) ==
    \/ f.pc = "co_code"
    \/ f.pc \in {"tk_forcefail", "tk_gen", "tk_store"} /\ f.via = "code"

ClaimedTickets == {req[p].h : p \in {q \in Requests : Taken(req[q])}}

Promise == INSTANCE Issuance WITH
    policy <- active.doc, live <- LiveTickets, claimed <- ClaimedTickets,
    delivered <- issued, next <- nextID

-----------------------------------------------------------------------------
(* Properties.                                                             *)

\* The data plane keeps the promise of module Issuance: through every
\* interleaving of handlers, revocation and publication it behaves like one
\* policy that is changed at once and tickets that are spent when answered.
ImplementsIssuance == Promise!Spec

Grants == codes \cup refresh
Rows == pending \cup Grants \cup sessions

\* What the active configuration must still say about a stored row: its
\* generation is admissible, its user enabled, its client and protocol
\* registered, its MFA state sufficient.  A configuration change that revokes
\* any of this leaves no such row behind, and no request that was under way
\* with the old snapshot puts one back.
RowsCurrent ==
    /\ \A row \in Rows : minimumGeneration <= row.gen /\ row.gen <= active.gen
    /\ \A row \in pending : PendingUsable(active, row)
    /\ \A row \in Grants \cup sessions :
         UserUsable(active, row.user) /\ SessionUsable(active, row.mfa)
    /\ \A row \in Grants : row.client \in active.doc.clients

\* A pending request, an authorization code and a refresh grant are each
\* answered at most once, however the requests that present it interleave.
SingleUse ==
    \A a, b \in issued : a.from = b.from /\ a.from # 0 => a = b

\* Between configuration changes the active snapshot is admissible, so a
\* request that arrives can be served.
NoLockout ==
    mgr.pc = "idle" => GenerationUsable(active.gen)

\* The configuration that is active when a code, a token set or an assertion
\* is delivered admits its user, client and MFA state, although every check
\* was made earlier and against the snapshot the request captured.
IssuedUnderPolicy ==
    [][\A e \in issued' \ issued :
          e.user # None =>
            /\ UserUsable(active, e.user) /\ SessionUsable(active, e.mfa)
            /\ e.client \in active.doc.clients]_vars

\* A request whose snapshot was revoked can still deny, consume or look up,
\* but it stores no row and delivers nothing in a user's name.
StaleInert ==
    [][\A p \in Requests :
          /\ req[p].pc # "idle" /\ ~GenerationUsable(req[p].snap.gen)
          /\ req'[p] # req[p]
          => /\ pending' \subseteq pending /\ codes' \subseteq codes
             /\ refresh' \subseteq refresh /\ sessions' \subseteq sessions
             /\ \A e \in issued' \ issued : e.user = None]_vars

\* A token request that fails does not cost the client its refresh grant: a
\* live grant the active configuration still honours leaves the table in a
\* token request only together with its replacement.
TokenLabels == {"tk_grant", "tk_forcefail", "tk_gen", "tk_burn", "tk_store"}
RefreshKept ==
    [][\A p \in Requests : \A row \in refresh \ refresh' :
          /\ req[p].pc \in TokenLabels /\ req'[p] # req[p]
          /\ row.id \notin expired /\ UserUsable(active, row.user)
          => \E e \in issued' \ issued : e.from = row.id]_vars

\* A tunable that is on from the arrival of a request to its end is obeyed:
\* under force-fail nothing is delivered in a user's name and no session is
\* created, a paused token endpoint delivers no tokens, and force-consent
\* blocks the authorize shortcut.  Each flag is read once, in a critical
\* section of its own, long before the result is stored.
TunablesObeyed ==
    [][\A p \in Requests : req'[p].pc # req[p].pc =>
          /\ \A e \in issued' \ issued : e.user # None => "forceFail" \in req[p].off
          /\ ~(sessions' \subseteq sessions) => "forceFail" \in req[p].off
          /\ ~(refresh' \subseteq refresh) => "paused" \in req[p].off
          /\ req[p].pc = "az_code" /\ issued' # issued
               => "forceConsent" \in req[p].off]_vars

\* The tables stay within their bound, although insertions test it only after
\* sweeping expired rows and rotation does not test it at all.
TablesBounded ==
    \A table \in {pending, codes, refresh, sessions} : Cardinality(table) <= Cap

\* Expiring a session ends what was obtained through it: no code or refresh
\* grant of a session that was ended by logout or by the operator is stored.
EndedSessionsStayEnded ==
    \A row \in Grants : row.sid \notin ended

=============================================================================
