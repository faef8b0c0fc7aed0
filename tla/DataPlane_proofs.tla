-------------------------- MODULE DataPlane_proofs --------------------------
(***************************************************************************)
(* What holds of DataPlane for every set of users, clients, requests and   *)
(* documents, and for every table bound.                                   *)
(*                                                                         *)
(* RowsCurrent speaks of tables and the active snapshot, but a row is      *)
(* checked against the snapshot its request captured, possibly long ago.   *)
(* The inductive invariant therefore adds what ties the two together: how  *)
(* far a configuration change has come (MgrOK), that a captured snapshot   *)
(* whose generation is still admissible has the security content of the    *)
(* active one (SnapOK), and what each request has established against its  *)
(* own snapshot by the time it reaches a label (FrameOK).                  *)
(*                                                                         *)
(* The second part, from HInv on, is about handles, and shows that the     *)
(* requests keep the promise of module Issuance.                           *)
(***************************************************************************)
EXTENDS DataPlane, FiniteSetTheorems, TLAPS

\* The labels at which a request has checked its client, its user with the
\* MFA state, or the protocol, against its own snapshot.
ClientLabels == {"az_inject", "az_forcefail", "az_session", "az_consent", "az_code",
    "az_pending", "so_forcefail", "so_pending", "so_session", "so_consent",
    "tk_gen", "tk_store", "co_take", "co_code", "as_forcefail", "as_gen", "as_take"}
UserLabels == {"az_consent", "az_code", "tk_gen", "tk_store", "lg_session",
    "lg_client", "lg_consent", "finish", "co_forcefail", "co_gen", "co_get",
    "co_take", "co_code", "as_get", "as_forcefail", "as_gen", "as_take", "so_consent"}
ProtocolLabels == {"az_inject", "az_forcefail", "az_session", "az_consent", "az_code",
    "az_pending", "so_forcefail", "so_pending"}

FrameOK(f) ==
    /\ f.pc \in ClientLabels => f.client \in f.snap.doc.clients
    /\ f.pc \in UserLabels =>
         UserUsable(f.snap, f.user) /\ SessionUsable(f.snap, f.mfa)
    /\ f.pc \in ProtocolLabels =>
         f.via \in Protocols /\ f.via \in f.snap.doc.protocols
    /\ f.pc = "lg_totp" =>
         UserUsable(f.snap, f.user) /\ f.snap.doc.mode = "always"

\* A captured snapshot is no newer than the active one, and as long as its
\* generation is admissible the two agree on everything that matters.  Both
\* hold a document that was compiled, as does a candidate.
SnapOK(f) ==
    /\ f.snap.doc \in Docs
    /\ f.pc # "idle" =>
         /\ 0 < f.snap.gen /\ f.snap.gen <= active.gen
         /\ minimumGeneration <= f.snap.gen =>
              ~SecurityChanged(f.snap.doc, active.doc)

MgrOK ==
    /\ active.doc \in Docs /\ mgr.cand.doc \in Docs
    /\ 0 < active.gen
    /\ mgr.pc # "idle" => mgr.cand.gen = active.gen + 1
    /\ mgr.pc \in {"idle", "invalidate", "r_invalidate"} => minimumGeneration <= active.gen
    /\ mgr.pc \in {"sync", "swap"} =>
         \/ minimumGeneration = mgr.cand.gen
         \/ minimumGeneration <= active.gen /\ ~SecurityChanged(active.doc, mgr.cand.doc)
    /\ mgr.pc \in {"r_reset", "r_swap"} => minimumGeneration = mgr.cand.gen

FramesOK == \A p \in Requests : FrameOK(req[p])
SnapsOK == \A p \in Requests : SnapOK(req[p])

IInv == TypeOK /\ MgrOK /\ SnapsOK /\ FramesOK /\ RowsCurrent

-----------------------------------------------------------------------------
(* What the active configuration says of a row, one row at a time.         *)

Current(row) == minimumGeneration <= row.gen /\ row.gen <= active.gen
PendingOK(row) == row \in Pending /\ Current(row) /\ PendingUsable(active, row)
HolderOK(row) == UserUsable(active, row.user) /\ SessionUsable(active, row.mfa)
GrantOK(row) ==
    row \in AuthCode /\ Current(row) /\ HolderOK(row) /\ row.client \in active.doc.clients
SessionOK(row) == row \in LoginSession /\ Current(row) /\ HolderOK(row)

\* Every step of a request has this shape: it moves one frame, keeps the
\* control state, and adds only rows the active configuration admits.
RowsKept ==
    /\ \A row \in pending' : row \in pending \/ PendingOK(row)
    /\ \A row \in codes' : row \in codes \/ GrantOK(row)
    /\ \A row \in refresh' : row \in refresh \/ GrantOK(row)
    /\ \A row \in sessions' : row \in sessions \/ SessionOK(row)

RestTyped ==
    /\ nextID' \in Handle /\ issued' \subseteq Issue /\ ended' \subseteq Nat
    /\ paused' \in BOOLEAN /\ forceFail' \in BOOLEAN
    /\ forceConsent' \in BOOLEAN /\ inject' \in BOOLEAN

Moves(p, f) == Become(p, f) /\ f \in Frame /\ FrameOK(f) /\ SnapOK(f)

RequestStep(p) ==
    /\ UNCHANGED control
    /\ RowsKept /\ RestTyped
    /\ \E f : Moves(p, f)

\* RowsCurrent and the types of the tables, row by row.
LEMMA RowByRow ==
    ASSUME IInv
    PROVE  /\ \A row \in pending : PendingOK(row)
           /\ \A row \in codes : GrantOK(row)
           /\ \A row \in refresh : GrantOK(row)
           /\ \A row \in sessions : SessionOK(row)
BY DEF IInv, TypeOK, RuntimeTypeOK, RowsCurrent, Rows, Grants, Current, PendingOK,
       GrantOK, SessionOK, HolderOK, Refresh

\* A step of that shape preserves the inductive invariant.
LEMMA RequestStepPreserves ==
    ASSUME IInv, NEW p \in Requests, RequestStep(p)
    PROVE  IInv'
<1>1. /\ minimumGeneration' = minimumGeneration /\ active' = active
      /\ mgr' = mgr /\ expired' = expired
  BY DEF RequestStep, control
<1>2. PICK f : Moves(p, f)
  BY DEF RequestStep
<1>3. \A q \in Requests : req'[q] = IF q = p THEN f ELSE req[q]
  BY <1>2 DEF Moves, Become, IInv, TypeOK
<1>4. /\ \A row \in pending' : PendingOK(row)
      /\ \A row \in codes' : GrantOK(row)
      /\ \A row \in refresh' : GrantOK(row)
      /\ \A row \in sessions' : SessionOK(row)
  BY RowByRow DEF RequestStep, RowsKept
<1>5. req' \in [Requests -> Frame]
  BY <1>2 DEF Moves, Become, IInv, TypeOK
<1>6. TypeOK'
  BY <1>1, <1>4, <1>5 DEF IInv, TypeOK, RuntimeTypeOK, RequestStep, RestTyped,
     PendingOK, GrantOK, SessionOK, Refresh
<1>7. MgrOK'
  BY <1>1 DEF IInv, MgrOK
<1>8. SnapsOK'
  BY <1>1, <1>2, <1>3 DEF IInv, SnapsOK, SnapOK, Moves
<1>9. FramesOK'
  BY <1>2, <1>3 DEF IInv, FramesOK, FrameOK, Moves
<1>10. RowsCurrent'
  BY <1>1, <1>4 DEF RowsCurrent, Rows, Grants, PendingOK, GrantOK, SessionOK,
     Current, HolderOK, PendingUsable
<1> QED BY <1>6, <1>7, <1>8, <1>9, <1>10 DEF IInv

-----------------------------------------------------------------------------
(* Shapes of request steps.                                                *)

\* A frame that leaves the scope of all checks.
LEMMA IdleOK == Idle \in Frame /\ FrameOK(Idle) /\ SnapOK(Idle)
BY DocsAssumption DEF Idle, Frame, FrameOK, SnapOK, BootSnapshot, Snapshot, Labels,
   Protocols, ClientLabels, UserLabels, ProtocolLabels

\* A request keeps the snapshot it captured.
LEMMA SameSnapshot ==
    ASSUME IInv, NEW p \in Requests, ~At(p, "idle"),
           NEW f, f.snap = req[p].snap
    PROVE  SnapOK(f)
BY DEF IInv, SnapsOK, SnapOK, At

\* A step that adds no row.
LEMMA Shrinking ==
    ASSUME IInv, NEW p \in Requests,
           UNCHANGED control,
           pending' \subseteq pending, codes' \subseteq codes,
           refresh' \subseteq refresh, sessions' \subseteq sessions,
           RestTyped,
           NEW f, Moves(p, f)
    PROVE  RequestStep(p)
BY DEF RequestStep, RowsKept

\* A step that only reads.
LEMMA Reading ==
    ASSUME IInv, NEW p \in Requests, Reads, NEW f, Moves(p, f)
    PROVE  RequestStep(p)
<1>1. RestTyped
  BY DEF RestTyped, Reads, tunables, history, IInv, TypeOK, RuntimeTypeOK
<1> QED BY <1>1, Shrinking DEF Reads, tables

\* A step that removes rows and issues nothing.
LEMMA Removing ==
    ASSUME IInv, NEW p \in Requests, Writes,
           pending' \subseteq pending, codes' \subseteq codes,
           refresh' \subseteq refresh, sessions' \subseteq sessions,
           NEW f, Moves(p, f)
    PROVE  RequestStep(p)
<1>1. RestTyped
  BY DEF RestTyped, Writes, tunables, history, IInv, TypeOK, RuntimeTypeOK
<1> QED BY <1>1, Shrinking DEF Writes

\* The operations of Runtime that only remove rows.
LEMMA RuntimeRemoves ==
    ASSUME NEW h
    PROVE  /\ GetPending(h) => pending' \subseteq pending
           /\ GetSession(h) => sessions' \subseteq sessions
           /\ TakePending(h) => pending' \subseteq pending
           /\ TakeCode(h) => codes' \subseteq codes
           /\ TakeRefresh(h) => refresh' \subseteq refresh
BY DEF GetPending, GetSession, TakePending, TakeCode, TakeRefresh, Without

\* An insertion that is refused removes at most expired rows.
LEMMA RefusedRemoves ==
    ASSUME NEW g, NEW table, PutRefused(g, table) \/ PendingRefused(g)
    PROVE  /\ pending' \subseteq pending /\ codes' \subseteq codes
           /\ refresh' \subseteq refresh /\ sessions' \subseteq sessions
BY DEF PutRefused, PendingRefused, cleanupLocked, Unexpired, tables

\* The heart of the matter: a request whose generation is still admissible
\* when it inserts has a snapshot that agrees with the active one.
LEMMA AdmissibleIsCurrent ==
    ASSUME IInv, NEW p \in Requests, ~At(p, "idle"),
           GenerationUsable(req[p].snap.gen)
    PROVE  /\ minimumGeneration <= req[p].snap.gen /\ req[p].snap.gen <= active.gen
           /\ ~SecurityChanged(req[p].snap.doc, active.doc)
BY DEF IInv, TypeOK, RuntimeTypeOK, SnapsOK, SnapOK, At, GenerationUsable, Frame, Snapshot

\* The code or refresh grant that such a request stores is one the active
\* configuration admits.
LEMMA CodeRowOK ==
    ASSUME IInv, NEW p \in Requests, req[p].pc \in ClientLabels \cap UserLabels,
           GenerationUsable(CodeRow(req[p]).gen)
    PROVE  GrantOK(CodeRow(req[p]))
<1> DEFINE f == req[p]
<1>1. f \in Frame /\ FrameOK(f) /\ ~At(p, "idle")
  BY DEF IInv, TypeOK, FramesOK, ClientLabels, At
<1>2. GenerationUsable(f.snap.gen)
  BY DEF CodeRow
<1>3. /\ minimumGeneration <= f.snap.gen /\ f.snap.gen <= active.gen
      /\ ~SecurityChanged(f.snap.doc, active.doc)
  BY <1>1, <1>2, AdmissibleIsCurrent
<1>4. /\ f.client \in f.snap.doc.clients
      /\ UserUsable(f.snap, f.user) /\ SessionUsable(f.snap, f.mfa)
  BY <1>1 DEF FrameOK
<1>5. CodeRow(f) \in AuthCode
  BY <1>1, <1>4 DEF CodeRow, AuthCode, Frame, Snapshot, Document, UserUsable, IInv,
     TypeOK, RuntimeTypeOK
<1> QED
  BY <1>3, <1>4, <1>5 DEF GrantOK, Current, HolderOK, CodeRow, SecurityChanged,
     UserUsable, SessionUsable

\* So is the pending request of an authorize or SSO request.
LEMMA PendingRowOK ==
    ASSUME IInv, NEW p \in Requests, req[p].pc \in ClientLabels \cap ProtocolLabels,
           GenerationUsable(PendingRow(req[p]).gen)
    PROVE  PendingOK(PendingRow(req[p]))
<1> DEFINE f == req[p]
<1>1. f \in Frame /\ FrameOK(f) /\ ~At(p, "idle")
  BY DEF IInv, TypeOK, FramesOK, ClientLabels, At
<1>2. GenerationUsable(f.snap.gen)
  BY DEF PendingRow
<1>3. /\ minimumGeneration <= f.snap.gen /\ f.snap.gen <= active.gen
      /\ ~SecurityChanged(f.snap.doc, active.doc)
  BY <1>1, <1>2, AdmissibleIsCurrent
<1>4. /\ f.client \in f.snap.doc.clients
      /\ f.via \in Protocols /\ f.via \in f.snap.doc.protocols
  BY <1>1 DEF FrameOK
<1>5. PendingRow(f) \in Pending
  BY <1>1, <1>4 DEF PendingRow, Pending, Frame, Snapshot, Document, IInv,
     TypeOK, RuntimeTypeOK
<1> QED
  BY <1>3, <1>4, <1>5 DEF PendingOK, Current, PendingRow, SecurityChanged, PendingUsable

\* So is the session of a login.
LEMMA SessionRowOK ==
    ASSUME IInv, NEW p \in Requests, req[p].pc \in UserLabels,
           GenerationUsable(SessionRow(req[p]).gen)
    PROVE  SessionOK(SessionRow(req[p]))
<1> DEFINE f == req[p]
<1>1. f \in Frame /\ FrameOK(f) /\ ~At(p, "idle")
  BY DEF IInv, TypeOK, FramesOK, UserLabels, At
<1>2. GenerationUsable(f.snap.gen)
  BY DEF SessionRow
<1>3. /\ minimumGeneration <= f.snap.gen /\ f.snap.gen <= active.gen
      /\ ~SecurityChanged(f.snap.doc, active.doc)
  BY <1>1, <1>2, AdmissibleIsCurrent
<1>4. UserUsable(f.snap, f.user) /\ SessionUsable(f.snap, f.mfa)
  BY <1>1 DEF FrameOK
<1>5. SessionRow(f) \in LoginSession
  BY <1>1, <1>4 DEF SessionRow, LoginSession, Frame, Snapshot, Document, UserUsable,
     IInv, TypeOK, RuntimeTypeOK
<1> QED
  BY <1>3, <1>4, <1>5 DEF SessionOK, Current, HolderOK, SessionRow, SecurityChanged,
     UserUsable, SessionUsable

\* The next handle is a handle.
LEMMA FreshTyped ==
    ASSUME IInv, Fresh
    PROVE  nextID' \in Handle
BY DEF Fresh, Handle, IInv, TypeOK, RuntimeTypeOK

\* What a delivery adds to the history is well typed.
LEMMA DeliverTyped ==
    ASSUME IInv, NEW p \in Requests, NEW from \in Nat, Deliver(from, req[p])
    PROVE  issued' \subseteq Issue
BY DEF Deliver, Issue, Frame, IInv, TypeOK, RuntimeTypeOK

\* An insertion leaves the rest of the state well typed.
LEMMA InsertsTyped ==
    ASSUME IInv, Inserts, nextID' \in Handle, issued' \subseteq Issue
    PROVE  RestTyped
BY DEF Inserts, RestTyped, tunables, IInv, TypeOK, RuntimeTypeOK

\* The authorization code that a completed flow stores.
LEMMA CodeInserted ==
    ASSUME IInv, NEW p \in Requests, req[p].pc \in ClientLabels \cap UserLabels,
           PutCode(CodeRow(req[p])), Fresh, NEW from \in Nat, Deliver(from, req[p]),
           Inserts, NEW f, Moves(p, f)
    PROVE  RequestStep(p)
<1>1. GrantOK(CodeRow(req[p]))
  BY CodeRowOK DEF PutCode
<1>2. RowsKept
  BY <1>1 DEF RowsKept, PutCode, Unexpired
<1> QED BY <1>2, FreshTyped, DeliverTyped, InsertsTyped DEF RequestStep, Inserts

\* The refresh grant that redeeming a code stores.
LEMMA RefreshInserted ==
    ASSUME IInv, NEW p \in Requests, req[p].pc \in ClientLabels \cap UserLabels,
           PutRefresh(CodeRow(req[p])), Fresh, NEW from \in Nat, Deliver(from, req[p]),
           Inserts, NEW f, Moves(p, f)
    PROVE  RequestStep(p)
<1>1. GrantOK(CodeRow(req[p]))
  BY CodeRowOK DEF PutRefresh
<1>2. RowsKept
  BY <1>1 DEF RowsKept, PutRefresh, Unexpired
<1> QED BY <1>2, FreshTyped, DeliverTyped, InsertsTyped DEF RequestStep, Inserts

\* The refresh grant that replaces the one redeemed.
LEMMA RefreshRotated ==
    ASSUME IInv, NEW p \in Requests, req[p].pc \in ClientLabels \cap UserLabels,
           NEW old \in Nat, RotateRefresh(old, CodeRow(req[p])), Fresh,
           Deliver(old, req[p]), Inserts, NEW f, Moves(p, f)
    PROVE  RequestStep(p)
<1>1. GrantOK(CodeRow(req[p]))
  BY CodeRowOK DEF RotateRefresh, CanRotate
<1>2. RowsKept
  BY <1>1 DEF RowsKept, RotateRefresh, Without
<1> QED BY <1>2, FreshTyped, DeliverTyped, InsertsTyped DEF RequestStep, Inserts

\* The pending request of an authorize or SSO request.
LEMMA PendingInserted ==
    ASSUME IInv, NEW p \in Requests, req[p].pc \in ClientLabels \cap ProtocolLabels,
           PutPending(PendingRow(req[p])), Fresh, UNCHANGED issued,
           Inserts, NEW f, Moves(p, f)
    PROVE  RequestStep(p)
<1>1. PendingOK(PendingRow(req[p]))
  BY PendingRowOK DEF PutPending
<1>2. RowsKept
  BY <1>1 DEF RowsKept, PutPending, Unexpired
<1>3. issued' \subseteq Issue
  BY DEF IInv, TypeOK
<1> QED BY <1>2, <1>3, FreshTyped, InsertsTyped DEF RequestStep, Inserts

\* The session of a login.
LEMMA SessionInserted ==
    ASSUME IInv, NEW p \in Requests, req[p].pc \in UserLabels,
           PutSession(SessionRow(req[p])), Fresh, UNCHANGED issued,
           Inserts, NEW f, Moves(p, f)
    PROVE  RequestStep(p)
<1>1. SessionOK(SessionRow(req[p]))
  BY SessionRowOK DEF PutSession
<1>2. RowsKept
  BY <1>1 DEF RowsKept, PutSession, Unexpired
<1>3. issued' \subseteq Issue
  BY DEF IInv, TypeOK
<1> QED BY <1>2, <1>3, FreshTyped, InsertsTyped DEF RequestStep, Inserts

\* An insertion of a stale request, of one that is too long, or into a full
\* table.
LEMMA InsertRefused ==
    ASSUME IInv, NEW p \in Requests, NEW g, NEW table,
           PutRefused(g, table) \/ PendingRefused(g), NothingIssued, Inserts, NEW f, Moves(p, f)
    PROVE  RequestStep(p)
BY RefusedRemoves, Removing DEF NothingIssued, Inserts, Writes

\* A request that is answered leaves its slot idle.
LEMMA DoneMoves ==
    ASSUME NEW p \in Requests, Done(p)
    PROVE  Moves(p, Idle)
BY IdleOK DEF Done, Moves

\* A request moves on with a frame that keeps its captured snapshot.
LEMMA BecomeMoves ==
    ASSUME IInv, NEW p \in Requests, ~At(p, "idle"),
           NEW f \in Frame, f.snap = req[p].snap, FrameOK(f), Become(p, f)
    PROVE  Moves(p, f)
BY SameSnapshot DEF Moves

\* A request moves on to another label with its frame unchanged.
LEMMA GotoMoves ==
    ASSUME IInv, NEW p \in Requests, ~At(p, "idle"),
           NEW label \in Labels, Goto(p, label),
           FrameOK([req[p] EXCEPT !.pc = label])
    PROVE  Moves(p, [req[p] EXCEPT !.pc = label])
<1>1. req[p] \in Frame
  BY DEF IInv, TypeOK
<1>2. /\ [req[p] EXCEPT !.pc = label] \in Frame
      /\ [req[p] EXCEPT !.pc = label].snap = req[p].snap
  BY <1>1 DEF Frame
<1> QED BY <1>2, BecomeMoves DEF Goto

\* A request that arrives captures the active snapshot.
LEMMA ArriveStep ==
    ASSUME IInv, NEW p \in Requests,
           NEW handler, NEW label \in Labels, NEW c \in Clients \cup {None},
           NEW via \in Protocols \cup {"code", "refresh"},
           label \in ClientLabels => c \in active.doc.clients,
           label \in ProtocolLabels => via \in Protocols /\ via \in active.doc.protocols,
           label \notin UserLabels, label # "lg_totp",
           Arrive(p, handler, label, c, via)
    PROVE  RequestStep(p)
<1>1. PICK sid \in IDs(sessions) \cup {0} :
        Become(p, [pc |-> label, snap |-> active, h |-> 0, user |-> None, client |-> c,
                   mfa |-> FALSE, sid |-> sid, via |-> via, off |-> SwitchedOff])
  BY DEF Arrive
<1> DEFINE f == [pc |-> label, snap |-> active, h |-> 0, user |-> None, client |-> c,
                 mfa |-> FALSE, sid |-> sid, via |-> via, off |-> SwitchedOff]
<1>2. sid \in Nat
  BY DEF IDs, IInv, TypeOK, RuntimeTypeOK, LoginSession, Handle
<1>3. SwitchedOff \in SUBSET Switches /\ active \in Snapshot
  BY DEF SwitchedOff, IInv, TypeOK
<1>5. f \in Frame
  BY <1>2, <1>3 DEF Frame
<1>6. FrameOK(f)
  BY DEF FrameOK
<1>7. active.gen <= active.gen /\ ~SecurityChanged(active.doc, active.doc)
  BY <1>3 DEF SecurityChanged, Snapshot
<1>8. SnapOK(f)
  BY <1>7 DEF SnapOK, IInv, MgrOK
<1> QED BY <1>1, <1>5, <1>6, <1>8, Reading DEF Moves, Arrive

-----------------------------------------------------------------------------
(* One lemma per endpoint: each of its steps is a request step.            *)

\* GET /authorize: the code of the shortcut and the pending request are the
\* only rows it stores.
LEMMA AuthorizeSteps ==
    ASSUME IInv, NEW p \in Requests,
           \/ Authorize(p) \/ AuthorizeInject(p) \/ AuthorizeForceFail(p)
           \/ AuthorizeSession(p) \/ AuthorizeConsent(p)
           \/ AuthorizeCode(p) \/ AuthorizePending(p)
    PROVE  RequestStep(p)
<1> DEFINE f == req[p]
<1>0. f \in Frame /\ FrameOK(f)
  BY DEF IInv, TypeOK, FramesOK
<1>1. CASE Authorize(p)
  <2>1. PICK c \in active.doc.clients : Arrive(p, "authorize", "az_inject", c, "oidc")
    BY <1>1 DEF Authorize
  <2>2. c \in Clients
    BY DEF IInv, TypeOK, Snapshot, Document
  <2> QED BY <1>1, <2>1, <2>2, ArriveStep
          DEF Authorize, Labels, Protocols, UserLabels
<1>2. CASE AuthorizeInject(p)
  <2>1. \E g : Moves(p, g)
    <3>1. CASE inject
      BY <1>2, <3>1, DoneMoves DEF AuthorizeInject
    <3>2. CASE ~inject
      <4>1. FrameOK([f EXCEPT !.pc = "az_forcefail"])
        BY <1>0, <1>2 DEF AuthorizeInject, At, FrameOK, Frame, ClientLabels,
           UserLabels, ProtocolLabels
      <4> QED BY <1>2, <3>2, <4>1, GotoMoves DEF AuthorizeInject, At, Labels
    <3> QED BY <3>1, <3>2
  <2>2. RestTyped
    BY <1>2 DEF AuthorizeInject, RestTyped, history, IInv, TypeOK, RuntimeTypeOK
  <2> QED BY <1>2, <2>1, <2>2, Shrinking DEF AuthorizeInject, tables
<1>3. CASE AuthorizeForceFail(p)
  <2>1. FrameOK([f EXCEPT !.pc = "az_session"])
    BY <1>0, <1>3 DEF AuthorizeForceFail, At, FrameOK, Frame, ClientLabels,
       UserLabels, ProtocolLabels
  <2>2. \E g : Moves(p, g)
    BY <1>3, <2>1, DoneMoves, GotoMoves DEF AuthorizeForceFail, At, Labels
  <2> QED BY <1>3, <2>2, Reading DEF AuthorizeForceFail
<1>4. CASE AuthorizeSession(p)
  <2>1. \E g : Moves(p, g)
    <3>1. CASE Become(p, [f EXCEPT !.pc = "az_pending"])
      <4>1. FrameOK([f EXCEPT !.pc = "az_pending"])
        BY <1>0, <1>4 DEF AuthorizeSession, At, FrameOK, Frame, ClientLabels,
           UserLabels, ProtocolLabels
      <4> QED BY <1>4, <3>1, <4>1, GotoMoves DEF AuthorizeSession, At, Labels, Goto
    <3>2. ASSUME NEW s \in UsableSession(f),
                 NEW label \in {"az_consent", "az_pending"},
                 Become(p, WithSession(f, s, label))
          PROVE  \E g : Moves(p, g)
      <4>1. /\ s \in LoginSession
            /\ UserUsable(f.snap, s.user) /\ SessionUsable(f.snap, s.mfa)
        BY DEF UsableSession, Unexpired, IInv, TypeOK, RuntimeTypeOK
      <4>2. WithSession(f, s, label) \in Frame /\ WithSession(f, s, label).snap = f.snap
        BY <1>0, <4>1 DEF WithSession, Frame, LoginSession, Labels
      <4>3. FrameOK(WithSession(f, s, label))
        BY <1>0, <1>4, <4>1 DEF AuthorizeSession, At, FrameOK, Frame, WithSession,
           ClientLabels, UserLabels, ProtocolLabels
      <4> QED BY <1>4, <3>2, <4>2, <4>3, BecomeMoves DEF AuthorizeSession, At
    <3> QED BY <1>4, <3>1, <3>2 DEF AuthorizeSession
  <2> QED BY <1>4, <2>1, Removing, RuntimeRemoves DEF AuthorizeSession
<1>5. CASE AuthorizeConsent(p)
  <2>1. /\ FrameOK([f EXCEPT !.pc = "az_pending"])
        /\ FrameOK([f EXCEPT !.pc = "az_code"])
    BY <1>0, <1>5 DEF AuthorizeConsent, At, FrameOK, Frame, ClientLabels,
       UserLabels, ProtocolLabels
  <2>2. \E g : Moves(p, g)
    BY <1>5, <2>1, GotoMoves DEF AuthorizeConsent, At, Labels
  <2> QED BY <1>5, <2>2, Reading DEF AuthorizeConsent
<1>6. CASE AuthorizeCode(p)
  <2>1. Moves(p, Idle)
    BY <1>6, DoneMoves DEF AuthorizeCode
  <2>2. f.pc \in ClientLabels \cap UserLabels
    BY <1>6 DEF AuthorizeCode, At, ClientLabels, UserLabels
  <2>3. CASE PutCode(CodeRow(f)) /\ Fresh /\ Deliver(0, f)
    BY <1>6, <2>1, <2>2, <2>3, CodeInserted DEF AuthorizeCode
  <2>4. CASE PutRefused(f.snap.gen, codes) /\ NothingIssued
    BY <1>6, <2>1, <2>4, InsertRefused DEF AuthorizeCode
  <2> QED BY <1>6, <2>3, <2>4 DEF AuthorizeCode
<1>7. CASE AuthorizePending(p)
  <2>1. Moves(p, Idle)
    BY <1>7, DoneMoves DEF AuthorizePending
  <2>2. f.pc \in ClientLabels \cap ProtocolLabels
    BY <1>7 DEF AuthorizePending, At, ClientLabels, ProtocolLabels
  <2>3. CASE PutPending(PendingRow(f)) /\ Fresh /\ UNCHANGED issued
    BY <1>7, <2>1, <2>2, <2>3, PendingInserted DEF AuthorizePending
  <2>4. CASE PendingRefused(f.snap.gen) /\ NothingIssued
    BY <1>7, <2>1, <2>4, InsertRefused DEF AuthorizePending
  <2> QED BY <1>7, <2>3, <2>4 DEF AuthorizePending
<1> QED BY <1>1, <1>2, <1>3, <1>4, <1>5, <1>6, <1>7

\* POST /token: redeeming, rotating, burning and refusing a grant.
LEMMA TokenSteps ==
    ASSUME IInv, NEW p \in Requests,
           \/ Token(p) \/ TokenPaused(p) \/ TokenInject(p)
           \/ TokenCode(p) \/ TokenRefresh(p) \/ TokenRejected(p)
           \/ TokenForceFail(p) \/ TokenGeneration(p) \/ TokenBurn(p)
           \/ TokenIssueFails(p) \/ TokenStoreCode(p) \/ TokenStoreRefresh(p)
    PROVE  RequestStep(p)
<1> DEFINE f == req[p]
<1>0. f \in Frame /\ FrameOK(f)
  BY DEF IInv, TypeOK, FramesOK
<1>1. CASE Token(p)
  BY <1>1, ArriveStep DEF Token, Labels, Protocols, ClientLabels, UserLabels, ProtocolLabels
<1>2. CASE TokenPaused(p)
  <2>1. FrameOK([f EXCEPT !.pc = "tk_inject"])
    BY <1>0, <1>2 DEF TokenPaused, At, FrameOK, Frame, ClientLabels, UserLabels, ProtocolLabels
  <2>2. \E g : Moves(p, g)
    BY <1>2, <2>1, DoneMoves, GotoMoves DEF TokenPaused, At, Labels
  <2> QED BY <1>2, <2>2, Reading DEF TokenPaused
<1>3. CASE TokenInject(p)
  <2>1. FrameOK([f EXCEPT !.pc = "tk_grant"])
    BY <1>0, <1>3 DEF TokenInject, At, FrameOK, Frame, ClientLabels, UserLabels,
       ProtocolLabels
  <2>2. \E g : Moves(p, g)
    BY <1>3, <2>1, DoneMoves, GotoMoves DEF TokenInject, At, Labels
  <2>3. RestTyped
    BY <1>3 DEF TokenInject, RestTyped, history, IInv, TypeOK, RuntimeTypeOK
  <2> QED BY <1>3, <2>2, <2>3, Shrinking DEF TokenInject, tables
<1>4. ASSUME NEW row \in AuthCode, NEW via \in {"code", "refresh"},
             At(p, "tk_grant"), Become(p, WithGrant(f, row, via))
      PROVE  \E g : Moves(p, g)
  <2>1. /\ WithGrant(f, row, via) \in Frame
        /\ WithGrant(f, row, via).snap = f.snap
        /\ WithGrant(f, row, via).pc = "tk_forcefail"
    BY <1>0 DEF WithGrant, Frame, AuthCode, Handle, Labels
  <2>2. FrameOK(WithGrant(f, row, via))
    BY <2>1 DEF FrameOK, ClientLabels, UserLabels, ProtocolLabels
  <2> QED BY <1>4, <2>1, <2>2, BecomeMoves DEF At
<1>5. CASE TokenCode(p)
  <2>1. PICK row \in codes, c \in f.snap.doc.clients, proof \in BOOLEAN :
          /\ TakeCode(row.id)
          /\ IF row.id \notin expired /\ row.client = c /\ proof
             THEN Become(p, WithGrant(f, row, "code")) ELSE Done(p)
    BY <1>5 DEF TokenCode
  <2>2. row \in AuthCode
    BY DEF IInv, TypeOK, RuntimeTypeOK
  <2>3. \E g : Moves(p, g)
    BY <1>4, <1>5, <2>1, <2>2, DoneMoves DEF TokenCode
  <2> QED BY <1>5, <2>1, <2>3, RuntimeRemoves, Removing DEF TokenCode
<1>6. CASE TokenRefresh(p)
  <2>1. PICK row \in refresh, c \in f.snap.doc.clients, scopeSubset \in BOOLEAN :
          IF row.id \notin expired /\ row.client = c /\ scopeSubset
          THEN Become(p, WithGrant(f, row, "refresh")) ELSE Done(p)
    BY <1>6 DEF TokenRefresh
  <2>2. row \in AuthCode
    BY DEF IInv, TypeOK, RuntimeTypeOK, Refresh
  <2>3. \E g : Moves(p, g)
    BY <1>4, <1>6, <2>1, <2>2, DoneMoves DEF TokenRefresh
  <2> QED BY <1>6, <2>3, Reading DEF TokenRefresh
<1>7. CASE TokenRejected(p)
  BY <1>7, DoneMoves, Reading DEF TokenRejected
<1>8. CASE TokenForceFail(p)
  <2>1. FrameOK([f EXCEPT !.pc = "tk_burn"])
    BY <1>0, <1>8 DEF TokenForceFail, At, FrameOK, Frame, ClientLabels, UserLabels,
       ProtocolLabels
  <2>2. ~Revoked(f) /\ SessionUsable(f.snap, f.mfa) =>
          FrameOK([f EXCEPT !.pc = "tk_gen"])
    BY <1>0 DEF Revoked, FrameOK, Frame, ClientLabels, UserLabels, ProtocolLabels
  <2>3. \E g : Moves(p, g)
    BY <1>8, <2>1, <2>2, DoneMoves, GotoMoves DEF TokenForceFail, At, Labels
  <2> QED BY <1>8, <2>3, Reading DEF TokenForceFail
<1>9. CASE TokenGeneration(p)
  <2>1. FrameOK([f EXCEPT !.pc = "tk_store"])
    BY <1>0, <1>9 DEF TokenGeneration, At, FrameOK, Frame, ClientLabels, UserLabels, ProtocolLabels
  <2>2. \E g : Moves(p, g)
    BY <1>9, <2>1, DoneMoves, GotoMoves DEF TokenGeneration, At, Labels
  <2> QED BY <1>9, <2>2, Reading DEF TokenGeneration
<1>10. CASE TokenBurn(p)
  BY <1>10, DoneMoves, RuntimeRemoves, Removing DEF TokenBurn
<1>11. CASE TokenIssueFails(p)
  BY <1>11, DoneMoves, Reading DEF TokenIssueFails
<1>12. ASSUME At(p, "tk_store")
       PROVE  f.pc \in ClientLabels \cap UserLabels /\ f.h \in Nat
  BY <1>0, <1>12 DEF At, ClientLabels, UserLabels, Frame
<1>13. CASE TokenStoreCode(p)
  <2>1. Moves(p, Idle)
    BY <1>13, DoneMoves DEF TokenStoreCode
  <2>2. CASE PutRefresh(CodeRow(f)) /\ Fresh /\ Deliver(f.h, f)
    BY <1>12, <1>13, <2>1, <2>2, RefreshInserted DEF TokenStoreCode
  <2>3. CASE PutRefused(f.snap.gen, refresh) /\ NothingIssued
    BY <1>13, <2>1, <2>3, InsertRefused DEF TokenStoreCode
  <2> QED BY <1>13, <2>2, <2>3 DEF TokenStoreCode
<1>14. CASE TokenStoreRefresh(p)
  <2>1. Moves(p, Idle)
    BY <1>14, DoneMoves DEF TokenStoreRefresh
  <2>2. CASE RotateRefresh(f.h, CodeRow(f)) /\ Fresh /\ Deliver(f.h, f)
    BY <1>12, <1>14, <2>1, <2>2, RefreshRotated DEF TokenStoreRefresh
  <2>3. CASE UNCHANGED tables /\ NothingIssued
    BY <1>14, <2>1, <2>3, Removing DEF TokenStoreRefresh, NothingIssued, Inserts, Writes, tables
  <2> QED BY <1>14, <2>2, <2>3 DEF TokenStoreRefresh
<1> QED BY <1>1, <1>2, <1>3, <1>5, <1>6, <1>7, <1>8, <1>9, <1>10, <1>11, <1>13, <1>14

\* POST /login: up to the session and the consent decision.
LEMMA LoginSteps ==
    ASSUME IInv, NEW p \in Requests,
           \/ Login(p) \/ LoginForceFail(p) \/ LoginPending(p) \/ LoginRejected(p)
           \/ LoginTOTP(p) \/ LoginSessionPut(p) \/ LoginClient(p) \/ LoginConsent(p)
    PROVE  RequestStep(p)
<1> DEFINE f == req[p]
<1>0. f \in Frame /\ FrameOK(f)
  BY DEF IInv, TypeOK, FramesOK
<1>1. CASE Login(p)
  <2>1. Arrive(p, "login", "lg_forcefail", None, "oidc")
    BY <1>1 DEF Login
  <2>2. /\ "lg_forcefail" \in Labels /\ "oidc" \in Protocols
        /\ "lg_forcefail" \notin ClientLabels \cup UserLabels \cup ProtocolLabels
    BY DEF Labels, Protocols, ClientLabels, UserLabels, ProtocolLabels
  <2> QED BY <2>1, <2>2, ArriveStep
<1>2. CASE LoginForceFail(p)
  <2>1. FrameOK([f EXCEPT !.pc = "lg_pending"])
    BY <1>0, <1>2 DEF LoginForceFail, At, FrameOK, Frame, ClientLabels, UserLabels, ProtocolLabels
  <2>2. \E g : Moves(p, g)
    BY <1>2, <2>1, DoneMoves, GotoMoves DEF LoginForceFail, At, Labels
  <2> QED BY <1>2, <2>2, Reading DEF LoginForceFail
<1>3. CASE LoginPending(p)
  <2>1. PICK row \in pending :
          /\ GetPending(row.id)
          /\ \/ /\ f.snap.doc.mode # "force-fail"
                /\ \E u \in f.snap.doc.users :
                     Become(p, [f EXCEPT !.h = row.id, !.user = u, !.sid = 0,
                                  !.pc = IF f.snap.doc.mode = "always"
                                         THEN "lg_totp" ELSE "lg_session"])
             \/ Done(p)
    BY <1>3 DEF LoginPending
  <2>2. ASSUME f.snap.doc.mode # "force-fail", NEW u \in f.snap.doc.users,
               NEW label,
               label = IF f.snap.doc.mode = "always" THEN "lg_totp" ELSE "lg_session",
               Become(p, [f EXCEPT !.h = row.id, !.user = u, !.sid = 0, !.pc = label])
        PROVE  \E g : Moves(p, g)
    <3> DEFINE g == [f EXCEPT !.h = row.id, !.user = u, !.sid = 0, !.pc = label]
    <3>1. row.id \in Nat /\ u \in Users /\ label \in Labels
      BY <1>0, <2>2 DEF IInv, TypeOK, RuntimeTypeOK, Pending, Handle, Frame, Snapshot,
         Document, Labels
    <3>2. g \in Frame /\ g.snap = f.snap /\ g.user = u /\ g.pc = label
      BY <1>0, <3>1 DEF Frame
    <3>3. FrameOK(g)
      BY <2>2, <3>2 DEF FrameOK, UserUsable, SessionUsable, ClientLabels, UserLabels,
         ProtocolLabels
    <3> QED BY <1>3, <2>2, <3>2, <3>3, BecomeMoves DEF LoginPending, At
  <2>3. \E g : Moves(p, g)
    BY <2>1, <2>2, DoneMoves
  <2> QED BY <1>3, <2>1, <2>3, RuntimeRemoves, Removing DEF LoginPending
<1>4. CASE LoginRejected(p)
  BY <1>4, DoneMoves, Reading DEF LoginRejected
<1>5. CASE LoginTOTP(p)
  <2> DEFINE g == [f EXCEPT !.pc = "lg_session", !.mfa = TRUE]
  <2>1. /\ g \in Frame /\ g.snap = f.snap /\ g.user = f.user
        /\ g.pc = "lg_session" /\ g.mfa = TRUE
    BY <1>0 DEF Frame, Labels
  <2>2. UserUsable(f.snap, f.user) /\ f.snap.doc.mode = "always"
    BY <1>0, <1>5 DEF LoginTOTP, At, FrameOK
  <2>3. FrameOK(g)
    BY <2>1, <2>2 DEF FrameOK, UserUsable, SessionUsable, ClientLabels, UserLabels,
       ProtocolLabels
  <2>4. \E x : Moves(p, x)
    BY <1>5, <2>1, <2>3, DoneMoves, BecomeMoves DEF LoginTOTP, At
  <2> QED BY <1>5, <2>4, Reading DEF LoginTOTP
<1>6. CASE LoginSessionPut(p)
  <2>1. f.pc = "lg_session" /\ f.pc \in UserLabels
    BY <1>6 DEF LoginSessionPut, At, UserLabels
  <2>2. CASE /\ PutSession(SessionRow(f)) /\ Fresh /\ UNCHANGED issued
             /\ Become(p, [f EXCEPT !.pc = "lg_client", !.sid = nextID])
    <3> DEFINE g == [f EXCEPT !.pc = "lg_client", !.sid = nextID]
    <3>1. /\ g \in Frame /\ g.snap = f.snap /\ g.user = f.user
          /\ g.pc = "lg_client" /\ g.mfa = f.mfa
      BY <1>0 DEF Frame, Labels, IInv, TypeOK, RuntimeTypeOK, Handle
    <3>2. FrameOK(g)
      BY <1>0, <2>1, <3>1 DEF FrameOK, ClientLabels, UserLabels, ProtocolLabels
    <3>3. Moves(p, g)
      BY <2>1, <2>2, <3>1, <3>2, BecomeMoves DEF At
    <3> QED BY <1>6, <2>1, <2>2, <3>3, SessionInserted DEF LoginSessionPut
  <2>3. CASE PutRefused(f.snap.gen, sessions) /\ NothingIssued /\ Done(p)
    BY <1>6, <2>3, DoneMoves, InsertRefused DEF LoginSessionPut
  <2> QED BY <1>6, <2>2, <2>3 DEF LoginSessionPut
<1>7. CASE LoginClient(p)
  <2>1. FrameOK([f EXCEPT !.pc = "lg_consent"])
    BY <1>0, <1>7 DEF LoginClient, At, FrameOK, Frame, ClientLabels, UserLabels, ProtocolLabels
  <2>2. \E g : Moves(p, g)
    BY <1>7, <2>1, DoneMoves, GotoMoves DEF LoginClient, At, Labels
  <2> QED BY <1>7, <2>2, RuntimeRemoves, Removing DEF LoginClient
<1>8. CASE LoginConsent(p)
  <2>1. FrameOK([f EXCEPT !.pc = "finish"])
    BY <1>0, <1>8 DEF LoginConsent, At, FrameOK, Frame, ClientLabels, UserLabels, ProtocolLabels
  <2>2. \E g : Moves(p, g)
    BY <1>8, <2>1, DoneMoves, GotoMoves DEF LoginConsent, At, Labels
  <2> QED BY <1>8, <2>2, Reading DEF LoginConsent
<1> QED BY <1>1, <1>2, <1>3, <1>4, <1>5, <1>6, <1>7, <1>8

\* The session a request picks up is one its own snapshot admits.
LEMMA SessionPicked ==
    ASSUME IInv, NEW p \in Requests, NEW s \in UsableSession(req[p]),
           NEW label \in Labels, NEW f, f = WithSession(req[p], s, label)
    PROVE  /\ f \in Frame /\ f.snap = req[p].snap /\ f.pc = label
           /\ f.client = req[p].client /\ f.via = req[p].via
           /\ UserUsable(f.snap, f.user) /\ SessionUsable(f.snap, f.mfa)
<1>1. /\ req[p] \in Frame /\ s \in LoginSession
      /\ UserUsable(req[p].snap, s.user) /\ SessionUsable(req[p].snap, s.mfa)
  BY DEF UsableSession, Unexpired, IInv, TypeOK, RuntimeTypeOK
<1>2. /\ f \in Frame /\ f.snap = req[p].snap /\ f.pc = label /\ f.user = s.user
      /\ f.mfa = s.mfa /\ f.client = req[p].client /\ f.via = req[p].via
  BY <1>1 DEF WithSession, Frame, LoginSession
<1> QED BY <1>1, <1>2

\* An answer that consumes a pending request.
LEMMA TakesPendingStep ==
    ASSUME IInv, NEW p \in Requests, TakesPending(p, req[p]), Inserts,
           NEW f, Moves(p, f)
    PROVE  RequestStep(p)
<1>1. req[p] \in Frame /\ req[p].h \in Nat
  BY DEF IInv, TypeOK, Frame
<1>2. nextID' \in Handle /\ issued' \subseteq Issue
  <2>1. CASE Fresh /\ Deliver(req[p].h, req[p])
    BY <1>1, <2>1, FreshTyped, DeliverTyped
  <2>2. CASE NothingIssued
    BY <2>2 DEF NothingIssued, history, IInv, TypeOK, RuntimeTypeOK
  <2> QED BY <2>1, <2>2 DEF TakesPending
<1>3. RestTyped
  BY <1>2, InsertsTyped
<1> QED BY <1>3, Shrinking, RuntimeRemoves DEF TakesPending, Inserts

\* POST /consent: approving and denying.
LEMMA ConsentSteps ==
    ASSUME IInv, NEW p \in Requests,
           \/ Consent(p) \/ ConsentSession(p)
           \/ Deny(p) \/ DenyGet(p) \/ DenyRejected(p) \/ DenyTake(p)
           \/ Finish(p)
    PROVE  RequestStep(p)
<1> DEFINE f == req[p]
<1>0. f \in Frame /\ FrameOK(f)
  BY DEF IInv, TypeOK, FramesOK
<1>1. CASE Consent(p)
  BY <1>1, ArriveStep DEF Consent, Labels, Protocols, ClientLabels, UserLabels, ProtocolLabels
<1>2. CASE ConsentSession(p)
  <2>1. ASSUME NEW s \in UsableSession(f), NEW h \in IDs(pending),
               Become(p, [WithSession(f, s, "finish") EXCEPT !.h = h])
        PROVE  \E g : Moves(p, g)
    <3> DEFINE w == WithSession(f, s, "finish")
               g == [w EXCEPT !.h = h]
    <3>1. /\ w \in Frame /\ w.snap = f.snap /\ w.pc = "finish"
          /\ UserUsable(w.snap, w.user) /\ SessionUsable(w.snap, w.mfa)
      BY SessionPicked DEF Labels
    <3>2. h \in Nat
      BY DEF IDs, IInv, TypeOK, RuntimeTypeOK, Pending, Handle
    <3> HIDE DEF w
    <3>3. /\ g \in Frame /\ g.snap = w.snap /\ g.pc = w.pc /\ g.user = w.user
          /\ g.mfa = w.mfa
      BY <3>1, <3>2 DEF Frame
    <3>4. FrameOK(g)
      BY <3>1, <3>3 DEF FrameOK, ClientLabels, UserLabels, ProtocolLabels
    <3>5. Become(p, g)
      BY <2>1 DEF w
    <3> QED BY <1>2, <3>1, <3>3, <3>4, <3>5, BecomeMoves DEF ConsentSession, At
  <2>2. \E g : Moves(p, g)
    BY <1>2, <2>1, DoneMoves DEF ConsentSession
  <2> QED BY <1>2, <2>2, RuntimeRemoves, Removing DEF ConsentSession
<1>3. CASE Deny(p)
  BY <1>3, ArriveStep DEF Deny, Labels, Protocols, ClientLabels, UserLabels, ProtocolLabels
<1>4. CASE DenyGet(p)
  <2>1. PICK row \in pending :
          /\ GetPending(row.id)
          /\ \/ Become(p, [f EXCEPT !.pc = "dn_take", !.h = row.id, !.sid = 0])
             \/ Done(p)
    BY <1>4 DEF DenyGet
  <2> DEFINE g == [f EXCEPT !.pc = "dn_take", !.h = row.id, !.sid = 0]
  <2>2. row.id \in Nat
    BY DEF IInv, TypeOK, RuntimeTypeOK, Pending, Handle
  <2>3. g \in Frame /\ g.snap = f.snap /\ g.pc = "dn_take"
    BY <1>0, <2>2 DEF Frame, Labels
  <2>4. FrameOK(g)
    BY <2>3 DEF FrameOK, ClientLabels, UserLabels, ProtocolLabels
  <2>5. \E x : Moves(p, x)
    BY <1>4, <2>1, <2>3, <2>4, DoneMoves, BecomeMoves DEF DenyGet, At
  <2> QED BY <1>4, <2>1, <2>5, RuntimeRemoves, Removing DEF DenyGet
<1>5. CASE DenyRejected(p)
  BY <1>5, DoneMoves, Reading DEF DenyRejected
<1>6. CASE DenyTake(p)
  BY <1>6, DoneMoves, TakesPendingStep DEF DenyTake
<1>7. CASE Finish(p)
  <2>1. /\ FrameOK([f EXCEPT !.pc = "as_get"])
        /\ FrameOK([f EXCEPT !.pc = "co_forcefail"])
    BY <1>0, <1>7 DEF Finish, At, FrameOK, Frame, ClientLabels, UserLabels, ProtocolLabels
  <2>2. \E g : Moves(p, g)
    BY <1>7, <2>1, DoneMoves, GotoMoves DEF Finish, At, Labels
  <2> QED BY <1>7, <2>2, RuntimeRemoves, Removing DEF Finish
<1> QED BY <1>1, <1>2, <1>3, <1>4, <1>5, <1>6, <1>7

\* CompleteLoginSnapshot: an OIDC flow ends in a code.
LEMMA CompleteSteps ==
    ASSUME IInv, NEW p \in Requests,
           \/ CompleteForceFail(p) \/ CompleteGeneration(p) \/ CompleteGet(p)
           \/ CompleteTake(p) \/ CompleteCode(p)
    PROVE  RequestStep(p)
<1> DEFINE f == req[p]
<1>0. f \in Frame /\ FrameOK(f)
  BY DEF IInv, TypeOK, FramesOK
<1>1. CASE CompleteForceFail(p)
  <2>1. FrameOK([f EXCEPT !.pc = "co_gen"])
    BY <1>0, <1>1 DEF CompleteForceFail, At, FrameOK, Frame, ClientLabels, UserLabels, ProtocolLabels
  <2>2. \E g : Moves(p, g)
    BY <1>1, <2>1, DoneMoves, GotoMoves DEF CompleteForceFail, At, Labels
  <2> QED BY <1>1, <2>2, Reading DEF CompleteForceFail
<1>2. CASE CompleteGeneration(p)
  <2>1. FrameOK([f EXCEPT !.pc = "co_get"])
    BY <1>0, <1>2 DEF CompleteGeneration, At, FrameOK, Frame, ClientLabels, UserLabels, ProtocolLabels
  <2>2. \E g : Moves(p, g)
    BY <1>2, <2>1, DoneMoves, GotoMoves DEF CompleteGeneration, At, Labels
  <2> QED BY <1>2, <2>2, Reading DEF CompleteGeneration
<1>3. CASE CompleteGet(p)
  <2>1. ASSUME NEW row \in Completable(f, {"oidc"}),
               Become(p, [f EXCEPT !.pc = "co_take", !.client = row.client])
        PROVE  \E g : Moves(p, g)
    <3> DEFINE g == [f EXCEPT !.pc = "co_take", !.client = row.client]
    <3>1. row.client \in Clients /\ row.client \in f.snap.doc.clients
      BY DEF Completable, Unexpired, PendingUsable, IInv, TypeOK, RuntimeTypeOK, Pending
    <3>2. /\ g \in Frame /\ g.snap = f.snap /\ g.pc = "co_take" /\ g.user = f.user
          /\ g.mfa = f.mfa /\ g.client = row.client
      BY <1>0, <3>1 DEF Frame, Labels
    <3>3. FrameOK(g)
      BY <1>0, <1>3, <3>1, <3>2 DEF CompleteGet, At, FrameOK, ClientLabels, UserLabels,
         ProtocolLabels
    <3> QED BY <1>3, <2>1, <3>2, <3>3, BecomeMoves DEF CompleteGet, At
  <2>2. \E g : Moves(p, g)
    BY <1>3, <2>1, DoneMoves DEF CompleteGet
  <2> QED BY <1>3, <2>2, RuntimeRemoves, Removing DEF CompleteGet
<1>4. CASE CompleteTake(p)
  <2>1. FrameOK([f EXCEPT !.pc = "co_code"])
    BY <1>0, <1>4 DEF CompleteTake, At, FrameOK, Frame, ClientLabels, UserLabels, ProtocolLabels
  <2>2. \E g : Moves(p, g)
    BY <1>4, <2>1, DoneMoves, GotoMoves DEF CompleteTake, At, Labels
  <2> QED BY <1>4, <2>2, RuntimeRemoves, Removing DEF CompleteTake
<1>5. CASE CompleteCode(p)
  <2>1. Moves(p, Idle)
    BY <1>5, DoneMoves DEF CompleteCode
  <2>2. f.pc \in ClientLabels \cap UserLabels /\ f.h \in Nat
    BY <1>0, <1>5 DEF CompleteCode, At, ClientLabels, UserLabels, Frame
  <2>3. CASE PutCode(CodeRow(f)) /\ Fresh /\ Deliver(f.h, f)
    BY <1>5, <2>1, <2>2, <2>3, CodeInserted DEF CompleteCode
  <2>4. CASE PutRefused(f.snap.gen, codes) /\ NothingIssued
    BY <1>5, <2>1, <2>4, InsertRefused DEF CompleteCode
  <2> QED BY <1>5, <2>3, <2>4 DEF CompleteCode
<1> QED BY <1>1, <1>2, <1>3, <1>4, <1>5

\* finishPending and finish: a SAML or WS-Federation flow ends in an assertion.
LEMMA AssertSteps ==
    ASSUME IInv, NEW p \in Requests,
           \/ AssertGet(p) \/ AssertForceFail(p) \/ AssertGeneration(p) \/ AssertTake(p)
    PROVE  RequestStep(p)
<1> DEFINE f == req[p]
<1>0. f \in Frame /\ FrameOK(f)
  BY DEF IInv, TypeOK, FramesOK
<1>1. CASE AssertGet(p)
  <2>1. ASSUME NEW row \in Completable(f, {"saml", "wsfed"}),
               Become(p, [f EXCEPT !.pc = "as_forcefail", !.client = row.client])
        PROVE  \E g : Moves(p, g)
    <3> DEFINE g == [f EXCEPT !.pc = "as_forcefail", !.client = row.client]
    <3>1. row.client \in Clients /\ row.client \in f.snap.doc.clients
      BY DEF Completable, Unexpired, PendingUsable, IInv, TypeOK, RuntimeTypeOK, Pending
    <3>2. /\ g \in Frame /\ g.snap = f.snap /\ g.pc = "as_forcefail" /\ g.user = f.user
          /\ g.mfa = f.mfa /\ g.client = row.client
      BY <1>0, <3>1 DEF Frame, Labels
    <3>3. FrameOK(g)
      BY <1>0, <1>1, <3>1, <3>2 DEF AssertGet, At, FrameOK, ClientLabels, UserLabels,
         ProtocolLabels
    <3> QED BY <1>1, <2>1, <3>2, <3>3, BecomeMoves DEF AssertGet, At
  <2>2. \E g : Moves(p, g)
    BY <1>1, <2>1, DoneMoves DEF AssertGet
  <2> QED BY <1>1, <2>2, RuntimeRemoves, Removing DEF AssertGet
<1>2. CASE AssertForceFail(p)
  <2>1. FrameOK([f EXCEPT !.pc = "as_gen"])
    BY <1>0, <1>2 DEF AssertForceFail, At, FrameOK, Frame, ClientLabels, UserLabels, ProtocolLabels
  <2>2. \E g : Moves(p, g)
    BY <1>2, <2>1, DoneMoves, GotoMoves DEF AssertForceFail, At, Labels
  <2> QED BY <1>2, <2>2, Reading DEF AssertForceFail
<1>3. CASE AssertGeneration(p)
  <2>1. FrameOK([f EXCEPT !.pc = "as_take"])
    BY <1>0, <1>3 DEF AssertGeneration, At, FrameOK, Frame, ClientLabels, UserLabels, ProtocolLabels
  <2>2. \E g : Moves(p, g)
    BY <1>3, <2>1, DoneMoves, GotoMoves DEF AssertGeneration, At, Labels
  <2> QED BY <1>3, <2>2, Reading DEF AssertGeneration
<1>4. CASE AssertTake(p)
  BY <1>4, DoneMoves, TakesPendingStep DEF AssertTake
<1> QED BY <1>1, <1>2, <1>3, <1>4

\* The SSO endpoints: the pending request is stored before the session is read.
LEMMA SsoSteps ==
    ASSUME IInv, NEW p \in Requests,
           Sso(p) \/ SsoForceFail(p) \/ SsoPending(p) \/ SsoSession(p) \/ SsoConsent(p)
    PROVE  RequestStep(p)
<1> DEFINE f == req[p]
<1>0. f \in Frame /\ FrameOK(f)
  BY DEF IInv, TypeOK, FramesOK
<1>1. CASE Sso(p)
  <2>1. PICK via \in {"saml", "wsfed"} \cap active.doc.protocols, c \in active.doc.clients :
          Arrive(p, "sso", "so_forcefail", c, via)
    BY <1>1 DEF Sso
  <2>2. c \in Clients
    BY DEF IInv, TypeOK, Snapshot, Document
  <2>3. /\ via \in Protocols /\ via \in active.doc.protocols /\ "so_forcefail" \in Labels
        /\ "so_forcefail" \notin UserLabels
    BY <2>1 DEF Labels, Protocols, UserLabels
  <2> QED BY <2>1, <2>2, <2>3, ArriveStep
<1>2. CASE SsoForceFail(p)
  <2>1. FrameOK([f EXCEPT !.pc = "so_pending"])
    BY <1>0, <1>2 DEF SsoForceFail, At, FrameOK, Frame, ClientLabels, UserLabels, ProtocolLabels
  <2>2. \E g : Moves(p, g)
    BY <1>2, <2>1, DoneMoves, GotoMoves DEF SsoForceFail, At, Labels
  <2> QED BY <1>2, <2>2, Reading DEF SsoForceFail
<1>3. CASE SsoPending(p)
  <2>1. f.pc = "so_pending" /\ f.pc \in ClientLabels \cap ProtocolLabels
    BY <1>3 DEF SsoPending, At, ClientLabels, ProtocolLabels
  <2>2. CASE /\ PutPending(PendingRow(f)) /\ Fresh /\ UNCHANGED issued
             /\ Become(p, [f EXCEPT !.pc = "so_session", !.h = nextID])
    <3> DEFINE g == [f EXCEPT !.pc = "so_session", !.h = nextID]
    <3>1. /\ g \in Frame /\ g.snap = f.snap /\ g.pc = "so_session"
          /\ g.client = f.client
      BY <1>0 DEF Frame, Labels, IInv, TypeOK, RuntimeTypeOK, Handle
    <3>2. FrameOK(g)
      BY <1>0, <2>1, <3>1 DEF FrameOK, ClientLabels, UserLabels, ProtocolLabels
    <3>3. Moves(p, g)
      BY <2>1, <2>2, <3>1, <3>2, BecomeMoves DEF At
    <3> QED BY <1>3, <2>1, <2>2, <3>3, PendingInserted DEF SsoPending
  <2>3. CASE PendingRefused(f.snap.gen) /\ NothingIssued /\ Done(p)
    BY <1>3, <2>3, DoneMoves, InsertRefused DEF SsoPending
  <2> QED BY <1>3, <2>2, <2>3 DEF SsoPending
<1>4. CASE SsoSession(p)
  <2>1. ASSUME NEW s \in UsableSession(f), Become(p, WithSession(f, s, "so_consent"))
        PROVE  \E g : Moves(p, g)
    <3> DEFINE g == WithSession(f, s, "so_consent")
    <3>1. /\ g \in Frame /\ g.snap = f.snap /\ g.pc = "so_consent" /\ g.client = f.client
          /\ UserUsable(g.snap, g.user) /\ SessionUsable(g.snap, g.mfa)
      BY SessionPicked DEF Labels
    <3> HIDE DEF g
    <3>2. FrameOK(g)
      BY <1>0, <1>4, <3>1 DEF SsoSession, At, FrameOK, ClientLabels, UserLabels,
         ProtocolLabels
    <3>3. Become(p, g)
      BY <2>1 DEF g
    <3> QED BY <1>4, <3>1, <3>2, <3>3, BecomeMoves DEF SsoSession, At
  <2>2. \E g : Moves(p, g)
    BY <1>4, <2>1, DoneMoves DEF SsoSession
  <2> QED BY <1>4, <2>2, RuntimeRemoves, Removing DEF SsoSession
<1>5. CASE SsoConsent(p)
  <2>1. FrameOK([f EXCEPT !.pc = "as_get"])
    BY <1>0, <1>5 DEF SsoConsent, At, FrameOK, Frame, ClientLabels, UserLabels, ProtocolLabels
  <2>2. \E g : Moves(p, g)
    BY <1>5, <2>1, DoneMoves, GotoMoves DEF SsoConsent, At, Labels
  <2> QED BY <1>5, <2>2, Reading DEF SsoConsent
<1> QED BY <1>1, <1>2, <1>3, <1>4, <1>5

\* Logout ends the session the cookie names.
LEMMA LogoutSteps ==
    ASSUME IInv, NEW p \in Requests,
           Logout(p) \/ LogoutSession(p) \/ LogoutExpire(p)
    PROVE  RequestStep(p)
<1> DEFINE f == req[p]
<1>0. f \in Frame /\ FrameOK(f)
  BY DEF IInv, TypeOK, FramesOK
<1>1. CASE Logout(p)
  BY <1>1, ArriveStep DEF Logout, Labels, Protocols, ClientLabels, UserLabels, ProtocolLabels
<1>2. CASE LogoutSession(p)
  <2>1. FrameOK([f EXCEPT !.pc = "lo_expire"])
    BY <1>0, <1>2 DEF LogoutSession, At, FrameOK, Frame, ClientLabels, UserLabels, ProtocolLabels
  <2>2. \E g : Moves(p, g)
    BY <1>2, <2>1, DoneMoves, GotoMoves DEF LogoutSession, At, Labels
  <2> QED BY <1>2, <2>2, RuntimeRemoves, Removing DEF LogoutSession
<1>3. CASE LogoutExpire(p)
  <2>1. RestTyped
    BY <1>0, <1>3 DEF LogoutExpire, RestTyped, tunables, history, Frame, IInv, TypeOK,
       RuntimeTypeOK
  <2> QED BY <1>3, <2>1, DoneMoves, Shrinking DEF LogoutExpire, ExpireSession, Without
<1> QED BY <1>1, <1>2, <1>3

\* No step of a request breaks the invariant.
LEMMA ServePreserves ==
    ASSUME IInv, NEW p \in Requests, Serve(p)
    PROVE  IInv'
<1>1. CASE Refuse(p)
  BY <1>1 DEF Refuse, vars, runtimeVars, tables, tunables, IInv, TypeOK, RuntimeTypeOK,
     MgrOK, SnapsOK, SnapOK, FramesOK, RowsCurrent, Rows, Grants, PendingUsable
<1>2. CASE RequestStep(p)
  BY <1>2, RequestStepPreserves
<1> QED
  BY <1>1, <1>2, AuthorizeSteps, TokenSteps, LoginSteps, ConsentSteps, CompleteSteps,
     AssertSteps, SsoSteps, LogoutSteps DEF Serve

-----------------------------------------------------------------------------
(* Configuration changes and the operator.                                 *)

\* Noting a tunable that is off changes nothing the invariant speaks of.
LEMMA NoteSwitchesKeeps ==
    ASSUME IInv, NoteSwitches, minimumGeneration' = minimumGeneration, active' = active
    PROVE  req' \in [Requests -> Frame] /\ SnapsOK' /\ FramesOK'
<1>1. \A p \in Requests : req[p] \in Frame
  BY DEF IInv, TypeOK
<1>2. SwitchedOff' \in SUBSET Switches
  BY DEF SwitchedOff
<1>3. ASSUME NEW p \in Requests
      PROVE  /\ req'[p] \in Frame
             /\ req'[p].pc = req[p].pc /\ req'[p].snap = req[p].snap
             /\ req'[p].client = req[p].client /\ req'[p].user = req[p].user
             /\ req'[p].mfa = req[p].mfa /\ req'[p].via = req[p].via
  <2>1. CASE At(p, "idle")
    BY <1>1, <2>1 DEF NoteSwitches
  <2>2. CASE ~At(p, "idle")
    <3> DEFINE off == req[p].off \cup SwitchedOff'
    <3>1. req'[p] = [req[p] EXCEPT !.off = off]
      BY <2>2 DEF NoteSwitches
    <3>2. off \in SUBSET Switches
      BY <1>1, <1>2 DEF Frame
    <3> HIDE DEF off
    <3> QED BY <1>1, <3>1, <3>2 DEF Frame
  <2> QED BY <2>1, <2>2
<1>4. req' \in [Requests -> Frame]
  BY <1>3 DEF NoteSwitches
<1>5. SnapsOK'
  BY <1>3 DEF SnapsOK, SnapOK, IInv
<1>6. FramesOK'
  BY <1>3 DEF FramesOK, FrameOK, IInv
<1> QED BY <1>4, <1>5, <1>6

\* A step outside the requests that keeps the generations, the snapshot and
\* the change under way, and only removes rows.
LEMMA QuietStep ==
    ASSUME IInv, UNCHANGED <<minimumGeneration, active>>,
           mgr' \in [pc: MgrLabels, cand: Snapshot], MgrOK',
           pending' \subseteq pending, codes' \subseteq codes,
           refresh' \subseteq refresh, sessions' \subseteq sessions,
           expired' \subseteq Handle, RestTyped,
           req' = req \/ NoteSwitches
    PROVE  IInv'
<1>1. req' \in [Requests -> Frame] /\ SnapsOK' /\ FramesOK'
  <2>1. CASE req' = req
    BY <2>1 DEF IInv, TypeOK, SnapsOK, SnapOK, FramesOK
  <2>2. CASE NoteSwitches
    BY <2>2, NoteSwitchesKeeps
  <2> QED BY <2>1, <2>2
<1>2. TypeOK'
  BY <1>1 DEF IInv, TypeOK, RuntimeTypeOK, RestTyped
<1>3. RowsCurrent'
  BY DEF IInv, RowsCurrent, Rows, Grants, PendingUsable
<1> QED BY <1>1, <1>2, <1>3 DEF IInv

\* The step that revokes: the bound passes the active generation, so every
\* captured snapshot is inadmissible from here on and every table is empty.
LEMMA InvalidateStep ==
    ASSUME IInv, InvalidateBefore(mgr.cand.gen), mgr.pc # "idle",
           NEW label, label \in {"sync", "r_reset"},
           mgr' = [mgr EXCEPT !.pc = label],
           UNCHANGED <<tunables, req, untouched, active>>
    PROVE  IInv'
<1>1. /\ mgr \in [pc: MgrLabels, cand: Snapshot] /\ mgr.cand.gen = active.gen + 1
      /\ active.gen \in Nat
  BY DEF IInv, TypeOK, MgrOK, Snapshot
<1>2. /\ mgr' \in [pc: MgrLabels, cand: Snapshot]
      /\ mgr'.pc = label /\ mgr'.cand = mgr.cand
  BY <1>1 DEF MgrLabels
<1>3. /\ minimumGeneration' = active.gen + 1
      /\ pending' = {} /\ codes' = {} /\ refresh' = {} /\ sessions' = {}
  BY <1>1 DEF InvalidateBefore, purgeProtocolLocked
<1>4. TypeOK'
  BY <1>1, <1>2, <1>3 DEF IInv, TypeOK, RuntimeTypeOK, tunables, untouched
<1>5. MgrOK'
  BY <1>1, <1>2, <1>3 DEF IInv, MgrOK
<1>6. SnapsOK'
  <2>1. ASSUME NEW p \in Requests
        PROVE  SnapOK(req[p])'
    <3>1. req[p].snap.gen \in Nat /\ req' = req /\ active' = active
      BY DEF IInv, TypeOK, Frame, Snapshot
    <3> QED BY <1>1, <1>3, <3>1 DEF IInv, SnapsOK, SnapOK
  <2> QED BY <2>1 DEF SnapsOK
<1>7. FramesOK'
  BY DEF IInv, FramesOK
<1>8. RowsCurrent'
  BY <1>3 DEF RowsCurrent, Rows, Grants
<1> QED BY <1>4, <1>5, <1>6, <1>7, <1>8 DEF IInv

\* The step that publishes: either nothing of the old configuration is left,
\* or the two configurations agree on everything a row depends on.
LEMMA SwapStep ==
    ASSUME IInv, mgr.pc \in {"swap", "r_swap"},
           active' = mgr.cand, mgr' = [mgr EXCEPT !.pc = "idle"],
           UNCHANGED <<minimumGeneration, tables, tunables, req, untouched>>
    PROVE  IInv'
<1>1. /\ mgr \in [pc: MgrLabels, cand: Snapshot] /\ mgr.cand.gen = active.gen + 1
      /\ active.gen \in Nat /\ minimumGeneration \in Nat /\ active \in Snapshot
  BY DEF IInv, TypeOK, RuntimeTypeOK, MgrOK, Snapshot
<1>2. /\ mgr' \in [pc: MgrLabels, cand: Snapshot] /\ mgr'.pc = "idle"
      /\ active' \in Snapshot /\ active'.gen = active.gen + 1 /\ active'.doc = mgr.cand.doc
      /\ mgr'.cand = mgr.cand /\ mgr.cand.doc \in Docs
  BY <1>1 DEF MgrLabels, IInv, MgrOK
<1>3. \/ minimumGeneration = active.gen + 1
      \/ minimumGeneration <= active.gen /\ ~SecurityChanged(active.doc, active'.doc)
  BY <1>1, <1>2 DEF IInv, MgrOK
<1>4. TypeOK'
  BY <1>2 DEF IInv, TypeOK, RuntimeTypeOK, tables, tunables, untouched
<1>5. MgrOK'
  BY <1>1, <1>2, <1>3 DEF MgrOK
<1>6. SnapsOK'
  <2>1. ASSUME NEW p \in Requests
        PROVE  SnapOK(req[p])'
    <3>1. req[p].snap.gen \in Nat /\ req' = req /\ minimumGeneration' = minimumGeneration
      BY DEF IInv, TypeOK, Frame, Snapshot
    <3>2. SnapOK(req[p])
      BY DEF IInv, SnapsOK
    <3> QED BY <1>1, <1>2, <1>3, <3>1, <3>2 DEF SnapOK, SecurityChanged
  <2> QED BY <2>1 DEF SnapsOK
<1>7. FramesOK'
  BY DEF IInv, FramesOK
<1>8. RowsCurrent'
  <2>1. /\ pending' = pending /\ codes' = codes /\ refresh' = refresh
        /\ sessions' = sessions /\ minimumGeneration' = minimumGeneration
    BY DEF tables
  <2>2. CASE minimumGeneration = active.gen + 1
    <3>1. \A row \in Rows : row.gen \in Nat /\ minimumGeneration <= row.gen
                            /\ row.gen <= active.gen
      BY DEF IInv, TypeOK, RuntimeTypeOK, RowsCurrent, Rows, Grants, Pending, AuthCode,
         LoginSession, Refresh
    <3>2. Rows = {}
      BY <1>1, <2>2, <3>1
    <3> QED BY <2>1, <3>2 DEF RowsCurrent, Rows, Grants
  <2>3. CASE ~SecurityChanged(active.doc, active'.doc)
    <3>1. \A row \in Rows : row.gen \in Nat /\ row.gen <= active'.gen
      BY <1>1, <1>2 DEF IInv, TypeOK, RuntimeTypeOK, RowsCurrent, Rows, Grants, Pending,
         AuthCode, LoginSession, Refresh
    <3> QED BY <2>1, <2>3, <3>1 DEF IInv, RowsCurrent, Rows, Grants, PendingUsable,
            UserUsable, SessionUsable, SecurityChanged
  <2> QED BY <1>3, <2>2, <2>3
<1> QED BY <1>4, <1>5, <1>6, <1>7, <1>8 DEF IInv

\* No step of Apply or Reset breaks the invariant, in any order with the
\* requests under way.
LEMMA ConfigurationPreserves ==
    ASSUME IInv, Configuration
    PROVE  IInv'
<1>0. /\ mgr \in [pc: MgrLabels, cand: Snapshot] /\ active \in Snapshot
      /\ active.gen \in Nat
  BY DEF IInv, TypeOK, Snapshot
<1>1. ASSUME NEW d \in Docs,
             mgr' = [cand |-> Candidate(d),
                     pc |-> IF SecurityChanged(active.doc, d) THEN "invalidate" ELSE "sync"]
             \/ mgr' = [cand |-> Candidate(d), pc |-> "r_invalidate"],
             mgr.pc = "idle",
             UNCHANGED <<minimumGeneration, tables, tunables, req, untouched, active>>
      PROVE  IInv'
  <2>1. Candidate(d) \in Snapshot
    BY <1>0, DocsAssumption DEF Candidate, Snapshot
  <2>2. mgr' \in [pc: MgrLabels, cand: Snapshot]
    BY <1>1, <2>1 DEF MgrLabels
  <2>3. MgrOK'
    BY <1>0, <1>1 DEF IInv, MgrOK, Candidate
  <2>4. RestTyped
    BY <1>1 DEF RestTyped, tunables, untouched, IInv, TypeOK, RuntimeTypeOK
  <2>5. expired' \subseteq Handle
    BY <1>1 DEF untouched, IInv, TypeOK, RuntimeTypeOK
  <2> QED BY <1>1, <2>2, <2>3, <2>4, <2>5, QuietStep DEF tables
<1>2. ASSUME NEW d \in Docs, Apply(d) PROVE IInv'
  BY <1>1, <1>2 DEF Apply
<1>3. ASSUME NEW d \in Docs, ResetState(d) PROVE IInv'
  BY <1>1, <1>3 DEF ResetState
<1>4. CASE ApplyInvalidate
  BY <1>4, InvalidateStep DEF ApplyInvalidate
<1>5. CASE ResetInvalidate
  BY <1>5, InvalidateStep DEF ResetInvalidate
<1>6. CASE ApplySync
  <2>1. /\ mgr' \in [pc: MgrLabels, cand: Snapshot]
        /\ mgr'.pc = "swap" /\ mgr'.cand = mgr.cand
    BY <1>0, <1>6 DEF ApplySync, MgrLabels
  <2>2. MgrOK'
    BY <1>6, <2>1 DEF ApplySync, IInv, MgrOK
  <2>3. RestTyped /\ expired' \subseteq Handle
    BY <1>6 DEF ApplySync, RestTyped, tunables, untouched, IInv, TypeOK, RuntimeTypeOK
  <2>4. /\ pending' \subseteq pending /\ codes' \subseteq codes
        /\ refresh' \subseteq refresh /\ sessions' \subseteq sessions
    BY <1>6 DEF ApplySync, ExpireIncompleteMFA, tables
  <2> QED BY <1>6, <2>1, <2>2, <2>3, <2>4, QuietStep DEF ApplySync
<1>7. CASE ResetRuntime
  <2>1. /\ mgr' \in [pc: MgrLabels, cand: Snapshot]
        /\ mgr'.pc = "r_swap" /\ mgr'.cand = mgr.cand
    BY <1>0, <1>7 DEF ResetRuntime, MgrLabels
  <2>2. MgrOK'
    BY <1>7, <2>1 DEF ResetRuntime, IInv, MgrOK
  <2>3. RestTyped /\ expired' \subseteq Handle
    BY <1>7 DEF ResetRuntime, Reset, RestTyped, untouched, IInv, TypeOK, RuntimeTypeOK
  <2>4. /\ pending' \subseteq pending /\ codes' \subseteq codes
        /\ refresh' \subseteq refresh /\ sessions' \subseteq sessions
    BY <1>7 DEF ResetRuntime, Reset, purgeProtocolLocked
  <2> QED BY <1>7, <2>1, <2>2, <2>3, <2>4, QuietStep DEF ResetRuntime
<1>8. CASE ApplySwap
  BY <1>8, SwapStep DEF ApplySwap
<1>9. CASE ResetSwap
  BY <1>9, SwapStep DEF ResetSwap
<1> QED
  BY <1>2, <1>3, <1>4, <1>5, <1>6, <1>7, <1>8, <1>9 DEF Configuration

\* Neither do session expiry, the tunables and the passage of time.
LEMMA OperatorPreserves ==
    ASSUME IInv, Operator
    PROVE  IInv'
<1>1. ASSUME UNCHANGED elsewhere,
             pending' \subseteq pending, codes' \subseteq codes,
             refresh' \subseteq refresh, sessions' \subseteq sessions,
             expired' \subseteq Handle, ended' \subseteq Nat,
             paused' \in BOOLEAN, forceFail' \in BOOLEAN,
             forceConsent' \in BOOLEAN, inject' \in BOOLEAN,
             req' = req \/ NoteSwitches
      PROVE  IInv'
  <2>1. RestTyped
    BY <1>1 DEF RestTyped, elsewhere, IInv, TypeOK, RuntimeTypeOK
  <2>2. mgr' \in [pc: MgrLabels, cand: Snapshot] /\ MgrOK'
    BY <1>1 DEF elsewhere, IInv, TypeOK, MgrOK
  <2> QED BY <1>1, <2>1, <2>2, QuietStep DEF elsewhere
<1>2. /\ expired \subseteq Handle /\ ended \subseteq Nat
      /\ paused \in BOOLEAN /\ forceFail \in BOOLEAN
      /\ forceConsent \in BOOLEAN /\ inject \in BOOLEAN
  BY DEF IInv, TypeOK, RuntimeTypeOK
<1>3. IDs(sessions) \subseteq Nat /\ Stored \subseteq Handle
  BY DEF IDs, Stored, IInv, TypeOK, RuntimeTypeOK, Pending, AuthCode, LoginSession,
     Refresh, Handle
<1>4. ASSUME NEW h \in IDs(sessions), OperatorExpireSession(h) PROVE IInv'
  BY <1>1, <1>2, <1>3, <1>4 DEF OperatorExpireSession, ExpireSession, Without, tunables
<1>5. CASE ExpireAllSessions
  BY <1>1, <1>2, <1>3, <1>5 DEF ExpireAllSessions, ExpireAll, tunables
<1>6. CASE OperatorListSessions
  BY <1>1, <1>2, <1>6 DEF OperatorListSessions, ListSessions, Unexpired, tunables
<1>7. CASE SetTunables
  BY <1>1, <1>2, <1>7 DEF SetTunables, tables
<1>8. ASSUME NEW h \in Stored, Lapse(h) PROVE IInv'
  BY <1>1, <1>2, <1>3, <1>8 DEF Lapse, tables, tunables
<1> QED BY <1>4, <1>5, <1>6, <1>7, <1>8 DEF Operator

-----------------------------------------------------------------------------
(* The theorems.                                                           *)

\* The invariant holds after bootstrap.
LEMMA InitEstablishes == Init => IInv
<1> SUFFICES ASSUME Init PROVE IInv
  OBVIOUS
<1>1. BootSnapshot \in Snapshot /\ BootSnapshot.gen = 1 /\ BootSnapshot.doc \in Docs
  BY DocsAssumption DEF BootSnapshot, Snapshot
<1>2. TypeOK
  <2>1. RuntimeTypeOK
    <3>1. nextID \in Handle /\ minimumGeneration \in Nat
      BY DEF Init, NewRuntime, Handle
    <3>2. /\ paused \in BOOLEAN /\ forceFail \in BOOLEAN
          /\ forceConsent \in BOOLEAN /\ inject \in BOOLEAN
      BY Zenon DEF Init, NewRuntime
    <3> QED BY <3>1, <3>2 DEF Init, NewRuntime, RuntimeTypeOK
  <2>2. req \in [Requests -> Frame]
    BY IdleOK DEF Init
  <2>3. mgr \in [pc: MgrLabels, cand: Snapshot]
    BY <1>1 DEF Init, MgrLabels
  <2> QED BY <1>1, <2>1, <2>2, <2>3 DEF Init, TypeOK
<1>3. MgrOK
  BY <1>1 DEF Init, NewRuntime, MgrOK
<1>4. SnapsOK /\ FramesOK
  BY IdleOK DEF Init, SnapsOK, FramesOK
<1>5. RowsCurrent
  BY DEF Init, NewRuntime, RowsCurrent, Rows, Grants
<1> QED BY <1>2, <1>3, <1>4, <1>5 DEF IInv

\* The invariant is inductive.
LEMMA NextPreserves == IInv /\ [Next]_vars => IInv'
<1> SUFFICES ASSUME IInv, [Next]_vars PROVE IInv'
  OBVIOUS
<1>1. ASSUME NEW p \in Requests, Serve(p) PROVE IInv'
  BY <1>1, ServePreserves
<1>2. CASE Configuration
  BY <1>2, ConfigurationPreserves
<1>3. CASE Operator
  BY <1>3, OperatorPreserves
<1>4. CASE UNCHANGED vars
  BY <1>4 DEF vars, runtimeVars, tables, tunables, IInv, TypeOK, RuntimeTypeOK,
     MgrOK, SnapsOK, SnapOK, FramesOK, RowsCurrent, Rows, Grants, PendingUsable
<1> QED BY <1>1, <1>2, <1>3, <1>4 DEF Next

\* The invariant holds in every behaviour.
THEOREM Invariance == Spec => []IInv
BY InitEstablishes, NextPreserves, PTL DEF Spec

\* Every table, frame and snapshot keeps its type, whatever the handlers, the
\* operator and the configuration changes do: no row is ever stored with a
\* missing user, client or protocol.
THEOREM TypeCorrect == Spec => []TypeOK
<1>1. IInv => TypeOK
  BY DEF IInv
<1> QED BY <1>1, Invariance, PTL

\* No stored row contradicts the active configuration: Apply and Reset revoke
\* before they publish, and Runtime refuses the insertions of requests that
\* captured an older, different snapshot.
THEOREM RowsAlwaysCurrent == Spec => []RowsCurrent
<1>1. IInv => RowsCurrent
  BY DEF IInv
<1> QED BY <1>1, Invariance, PTL

\* Between configuration changes the active generation is admissible, so
\* revocation never locks out the requests that arrive after it.
THEOREM NeverLockedOut == Spec => []NoLockout
<1>1. IInv => NoLockout
  BY DEF IInv, MgrOK, NoLockout, GenerationUsable
<1> QED BY <1>1, Invariance, PTL

-----------------------------------------------------------------------------
(***************************************************************************)
(* Part two.  That DataPlane keeps the promise of module Issuance, and     *)
(* what its requests may never do.                                         *)
(*                                                                         *)
(* The invariant above says which rows may be stored.  What is added here  *)
(* is about handles: each names at most one row in at most one table, a    *)
(* request that has taken a row is the only one that holds its handle, and *)
(* a handle something was issued for is gone for good (Below, Apart,       *)
(* Spent); and about what a request remembers: the tunables it has met     *)
(* switched off (NoteOK) and how the grant in its frame relates to the row *)
(* it was read from (HoldOK).                                              *)
(***************************************************************************)

\* The labels behind the force-fail test of each handler, and behind the
\* pause test of the token endpoint.
PastForceFail == {"az_session", "az_consent", "az_code", "tk_gen", "tk_store",
    "lg_pending", "lg_totp", "lg_session", "co_gen", "co_get", "co_take", "co_code",
    "as_gen", "as_take"}
PastPause == {"tk_inject", "tk_grant", "tk_forcefail", "tk_gen", "tk_store"}
GrantLabels == {"tk_forcefail", "tk_gen", "tk_burn", "tk_store"}

\* A request has noted every tunable that was off at some moment since it
\* arrived, in particular those that let it pass.
NoteOK(f) ==
    f.pc # "idle" =>
        /\ SwitchedOff \subseteq f.off
        /\ f.pc \in PastForceFail => "forceFail" \in f.off
        /\ f.pc \in PastPause => "paused" \in f.off
        /\ f.pc = "az_code" => "forceConsent" \in f.off

\* What a frame says of the row it names, against the tables pend and ref.
HoldOK(f, pend, ref) ==
    /\ f.pc \in {"dn_get", "dn_take"} => f.user = None
    /\ f.pc = "tk_burn" => f.via = "refresh" /\ Revoked(f)
    /\ f.pc = "as_take" /\ f.h \in IDs(pend) => minimumGeneration <= f.snap.gen
    /\ f.pc \in GrantLabels /\ f.via = "refresh" =>
         \A row \in ref : row.id = f.h => row.user = f.user /\ row.client = f.client

NotesOK == \A p \in Requests : NoteOK(req[p])
HoldsOK == \A p \in Requests : HoldOK(req[p], pending, refresh)

\* Every handle in use was handed out before.
Below ==
    /\ \A h \in Stored \cup expired : h < nextID
    /\ \A p \in Requests : req[p].h < nextID
    /\ \A e \in issued : e.from < nextID /\ e.to < nextID

Distinct(table) == \A a, b \in table : a.id = b.id => a = b
Disjoint(s, t) == \A a \in s, b \in t : a.id # b.id

\* A handle names one row.
Apart ==
    /\ Distinct(pending) /\ Distinct(codes) /\ Distinct(refresh) /\ Distinct(sessions)
    /\ Disjoint(pending, codes) /\ Disjoint(pending, refresh) /\ Disjoint(pending, sessions)
    /\ Disjoint(codes, refresh) /\ Disjoint(codes, sessions) /\ Disjoint(refresh, sessions)

\* A handle that was taken or answered cannot be presented again.
Spent ==
    /\ SingleUse
    /\ \A e \in issued : e.from \notin Stored
    /\ \A p \in Requests : Taken(req[p]) =>
         /\ req[p].h # 0 /\ req[p].h \notin Stored
         /\ \A e \in issued : e.from # req[p].h
    /\ \A p, q \in Requests :
         Taken(req[p]) /\ Taken(req[q]) /\ req[p].h = req[q].h => p = q

HInv == NotesOK /\ HoldsOK /\ Below /\ Apart /\ Spent

-----------------------------------------------------------------------------
(* The kinds of step a request takes.  Everything below is proved from     *)
(* these four shapes; the lemmas per endpoint show that there is no other. *)

switches == <<paused, forceFail, forceConsent>>

Shrinks ==
    /\ pending' \subseteq pending /\ codes' \subseteq codes
    /\ refresh' \subseteq refresh /\ sessions' \subseteq sessions

\* Only rows that have run out are gone.
Settled ==
    /\ Unexpired(pending)' = Unexpired(pending) /\ Unexpired(codes)' = Unexpired(codes)
    /\ Unexpired(refresh)' = Unexpired(refresh) /\ Unexpired(sessions)' = Unexpired(sessions)

\* The frame of request p becomes g.
Advance(p, g) ==
    /\ Become(p, g) /\ UNCHANGED <<control, switches>>
    /\ g.h \in Nat /\ g.h < nextID' /\ NoteOK(g) /\ HoldOK(g, pending', refresh')

\* Nothing is stored and nothing issued.  A claim may be given up, and then
\* no live row is lost; a token request drops no grant that is still good.
Quiet(p, g) ==
    /\ Advance(p, g) /\ UNCHANGED history /\ Shrinks
    /\ Taken(g) => Taken(req[p]) /\ g.h = req[p].h
    /\ Taken(req[p]) /\ ~Taken(g) => Settled
    /\ req[p].pc \in TokenLabels =>
         \A row \in refresh \ refresh' :
            row.id \in expired \/ ~UserUsable(active, row.user)

\* A pending request or a code is taken.
Claims(p, g) ==
    /\ Advance(p, g) /\ UNCHANGED history
    /\ ~Taken(req[p]) /\ Taken(g)
    /\ \/ /\ TakePending(g.h) /\ g.h \in IDs(Unexpired(pending))
          /\ UNCHANGED <<codes, refresh, sessions>>
       \/ /\ TakeCode(g.h) /\ g.h \in IDs(Unexpired(codes))
          /\ UNCHANGED <<pending, refresh, sessions>>

\* A pending request or a session is stored.
Admits(p, g) ==
    /\ Advance(p, g) /\ Fresh /\ UNCHANGED issued
    /\ ~Taken(req[p]) /\ ~Taken(g)
    /\ req[p].pc \notin TokenLabels
    /\ \/ PutPending(PendingRow(req[p])) /\ PendingOK(PendingRow(req[p]))
       \/ /\ PutSession(SessionRow(req[p])) /\ SessionOK(SessionRow(req[p]))
          /\ "forceFail" \in req[p].off

\* An answer in a user's name, under the policy in force.
Rightly(f) ==
    /\ GenerationUsable(f.snap.gen)
    /\ HolderOK(f) /\ f.client \in active.doc.clients
    /\ "forceFail" \in f.off

\* The ways to answer: a code or tokens stored for a session or for what was
\* taken before, a refresh grant replaced, a pending request consumed.
AnswersAtOnce(p) ==
    /\ ~Taken(req[p]) /\ Rightly(req[p]) /\ "forceConsent" \in req[p].off
    /\ Deliver(0, req[p])
    /\ PutCode(CodeRow(req[p])) /\ req[p].pc \notin TokenLabels
AnswersClaim(p) ==
    /\ Taken(req[p]) /\ Rightly(req[p])
    /\ Deliver(req[p].h, req[p])
    /\ \/ PutCode(CodeRow(req[p])) /\ req[p].pc = "co_code"
       \/ PutRefresh(CodeRow(req[p])) /\ "paused" \in req[p].off
AnswersRotating(p) ==
    /\ ~Taken(req[p]) /\ Rightly(req[p]) /\ "paused" \in req[p].off
    /\ Deliver(req[p].h, req[p])
    /\ RotateRefresh(req[p].h, CodeRow(req[p])) /\ req[p].pc # "az_code"
AnswersPending(p) ==
    /\ ~Taken(req[p])
    /\ req[p].user # None => Rightly(req[p])
    /\ Deliver(req[p].h, req[p])
    /\ TakePending(req[p].h) /\ req[p].h \in IDs(Unexpired(pending))
    /\ UNCHANGED <<codes, refresh, sessions>>
    /\ req[p].pc \notin TokenLabels \cup {"az_code"}

Answers(p) ==
    /\ Advance(p, Idle) /\ Fresh
    /\ AnswersAtOnce(p) \/ AnswersClaim(p) \/ AnswersRotating(p) \/ AnswersPending(p)

Kind(p) ==
    \/ \E g : Quiet(p, g) \/ Claims(p, g) \/ Admits(p, g)
    \/ Answers(p)

-----------------------------------------------------------------------------
(* How the steps of a handler fall into these shapes.                      *)

\* What a frame says of its row stays true when rows are removed.
LEMMA HoldShrinks ==
    ASSUME NEW f, Shrinks, HoldOK(f, pending, refresh)
    PROVE  HoldOK(f, pending', refresh')
BY DEF Shrinks, HoldOK, IDs

\* An idle slot holds nothing.
LEMMA IdleAdvances ==
    ASSUME IInv, NEW p \in Requests, Done(p), UNCHANGED <<control, switches>>,
           nextID' = nextID \/ Fresh
    PROVE  Advance(p, Idle) /\ ~Taken(Idle)
<1>1. Idle.pc = "idle" /\ Idle.h = 0
  BY DEF Idle
<1>2. nextID' \in Nat /\ 0 < nextID'
  BY DEF IInv, TypeOK, RuntimeTypeOK, Handle, Fresh
<1>3. NoteOK(Idle) /\ HoldOK(Idle, pending', refresh') /\ ~Taken(Idle)
  BY <1>1 DEF NoteOK, HoldOK, Taken, GrantLabels
<1> QED BY <1>1, <1>2, <1>3 DEF Advance, Done

\* A request gives up, or is refused: no more than expired rows are lost with
\* its claim.
LEMMA DoneQuiet ==
    ASSUME IInv, NEW p \in Requests, Done(p), UNCHANGED <<control, switches, history>>,
           Shrinks, Taken(req[p]) => Settled,
           req[p].pc \in TokenLabels =>
             \A row \in refresh \ refresh' :
                row.id \in expired \/ ~UserUsable(active, row.user)
    PROVE  Quiet(p, Idle)
<1>1. nextID' = nextID
  BY DEF history
<1> QED BY <1>1, IdleAdvances DEF Quiet

\* A request is done after a step that only reads.
LEMMA DoneReading ==
    ASSUME IInv, NEW p \in Requests, Done(p), Reads
    PROVE  Quiet(p, Idle)
<1>1. UNCHANGED <<control, switches, history>> /\ UNCHANGED tables
  BY DEF Reads, switches, tunables
<1>2. Shrinks /\ Settled /\ refresh' = refresh
  BY <1>1 DEF Shrinks, Settled, tables, Unexpired, control
<1> QED BY <1>1, <1>2, DoneQuiet

\* What must hold for a request to move on to a label.
Reaches(f, label) ==
    /\ f.pc # "idle" /\ label # "idle"
    /\ label \in PastForceFail => f.pc \in PastForceFail \/ ~forceFail
    /\ label \in PastPause => f.pc \in PastPause \/ ~paused
    /\ label = "az_code" => ~forceConsent
    /\ label \notin {"dn_get", "dn_take"}
    /\ label = "tk_burn" => f.via = "refresh" /\ Revoked(f)
    /\ label = "as_take" => minimumGeneration <= f.snap.gen
    /\ label \in GrantLabels => f.pc \in GrantLabels

\* ... and for it to keep what it has taken, and take nothing, on the way.
Passes(f, label) ==
    /\ Reaches(f, label)
    /\ Taken(f) <=> \/ label = "co_code"
                    \/ label \in {"tk_forcefail", "tk_gen", "tk_store"} /\ f.via = "code"

\* Notes and holdings of a request that moves on to another label.
LEMMA GotoFrame ==
    ASSUME IInv, HInv, NEW p \in Requests, NEW label, Reaches(req[p], label),
           NEW g, g = [req[p] EXCEPT !.pc = label]
    PROVE  /\ g.pc = label /\ g.h = req[p].h /\ g.via = req[p].via
           /\ g.h \in Nat /\ g.h < nextID
           /\ NoteOK(g) /\ HoldOK(g, pending, refresh)
<1>1. req[p] \in Frame
  BY DEF IInv, TypeOK
<1>2. /\ g.pc = label /\ g.h = req[p].h /\ g.via = req[p].via /\ g.user = req[p].user
      /\ g.client = req[p].client /\ g.snap = req[p].snap /\ g.off = req[p].off
  BY <1>1 DEF Frame
<1>3. g.h \in Nat /\ g.h < nextID
  BY <1>1, <1>2 DEF HInv, Below, Frame
<1>4. NoteOK(g)
  <2>1. NoteOK(req[p])
    BY DEF HInv, NotesOK
  <2>2. /\ ~forceFail => "forceFail" \in SwitchedOff
        /\ ~paused => "paused" \in SwitchedOff
        /\ ~forceConsent => "forceConsent" \in SwitchedOff
    BY DEF SwitchedOff, Switches
  <2> QED BY <1>2, <2>1, <2>2 DEF NoteOK, Reaches
<1>5. HoldOK(g, pending, refresh)
  <2>1. HoldOK(req[p], pending, refresh)
    BY DEF HInv, HoldsOK
  <2> QED BY <1>2, <2>1 DEF HoldOK, Reaches, Revoked
<1> QED BY <1>2, <1>3, <1>4, <1>5

\* A step that moves on, claims nothing and loses no claim.
LEMMA GotoQuiet ==
    ASSUME IInv, HInv, NEW p \in Requests, NEW label, Goto(p, label),
           Passes(req[p], label),
           UNCHANGED <<control, switches, history>>, Shrinks,
           req[p].pc \in TokenLabels => refresh' = refresh
    PROVE  Quiet(p, [req[p] EXCEPT !.pc = label])
<1> DEFINE g == [req[p] EXCEPT !.pc = label]
<1>1. /\ g.pc = label /\ g.h = req[p].h /\ g.via = req[p].via
      /\ g.h \in Nat /\ g.h < nextID
      /\ NoteOK(g) /\ HoldOK(g, pending, refresh)
  BY GotoFrame DEF Passes
<1>2. Become(p, g)
  BY DEF Goto
<1> HIDE DEF g
<1>3. HoldOK(g, pending', refresh')
  BY <1>1, HoldShrinks
<1>4. Advance(p, g)
  BY <1>1, <1>2, <1>3 DEF Advance, history
<1>5. Taken(g) <=> Taken(req[p])
  BY <1>1 DEF Taken, Passes
<1>6. Quiet(p, g)
  BY <1>1, <1>4, <1>5 DEF Quiet
<1> QED BY <1>6 DEF g


\* A request arrives with nothing in its hands.
LEMMA ArriveQuiet ==
    ASSUME IInv, HInv, NEW p \in Requests, NEW handler, NEW label, NEW c, NEW via,
           label \notin PastForceFail \cup PastPause \cup GrantLabels
                          \cup {"az_code", "tk_burn", "as_take", "co_code"},
           Arrive(p, handler, label, c, via)
    PROVE  Kind(p)
<1>1. PICK sid \in IDs(sessions) \cup {0} :
        Become(p, [pc |-> label, snap |-> active, h |-> 0, user |-> None, client |-> c,
                   mfa |-> FALSE, sid |-> sid, via |-> via, off |-> SwitchedOff])
  BY DEF Arrive
<1> DEFINE g == [pc |-> label, snap |-> active, h |-> 0, user |-> None, client |-> c,
                 mfa |-> FALSE, sid |-> sid, via |-> via, off |-> SwitchedOff]
<1>2. UNCHANGED <<control, switches, history>> /\ UNCHANGED tables
  BY DEF Arrive, Reads, switches, tunables
<1>3. NoteOK(g) /\ HoldOK(g, pending, refresh) /\ g.h = 0
  BY DEF NoteOK, HoldOK
<1>4. ~Taken(g) /\ ~Taken(req[p])
  BY DEF Taken, Arrive, At, GrantLabels
<1>5. 0 < nextID
  BY DEF IInv, TypeOK, RuntimeTypeOK, Handle
<1> HIDE DEF g
<1>6. Shrinks /\ refresh' = refresh
  BY <1>2 DEF Shrinks, tables
<1>7. Become(p, g)
  BY <1>1 DEF g
<1>8. Advance(p, g)
  BY <1>2, <1>3, <1>5, <1>6, <1>7, HoldShrinks DEF Advance, history
<1> QED BY <1>2, <1>4, <1>6, <1>8 DEF Kind, Quiet

\* A step that puts a session into the frame.
LEMMA SessionFrame ==
    ASSUME IInv, HInv, NEW p \in Requests, NEW s \in UsableSession(req[p]),
           NEW label, Reaches(req[p], label), label \notin GrantLabels,
           NEW g, g = WithSession(req[p], s, label)
    PROVE  /\ g.pc = label /\ g.h = req[p].h /\ g.h \in Nat /\ g.h < nextID
           /\ NoteOK(g) /\ HoldOK(g, pending, refresh)
<1>1. req[p] \in Frame
  BY DEF IInv, TypeOK
<1> DEFINE k == [req[p] EXCEPT !.pc = label]
<1>2. /\ k.pc = label /\ k.h = req[p].h /\ k.h \in Nat /\ k.h < nextID
      /\ NoteOK(k) /\ HoldOK(k, pending, refresh)
  BY GotoFrame
<1>3. /\ g.pc = k.pc /\ g.h = k.h /\ g.off = k.off /\ g.snap = k.snap
  BY <1>1 DEF WithSession, Frame
<1> HIDE DEF k
<1> QED BY <1>2, <1>3 DEF NoteOK, HoldOK, Reaches, GrantLabels

\* Moving on to a frame other than through Goto, outside the token endpoint.
LEMMA BecomeQuiet ==
    ASSUME IInv, NEW p \in Requests, NEW g, Become(p, g),
           UNCHANGED <<control, switches, history>>, Shrinks,
           g.h \in Nat, g.h < nextID, NoteOK(g), HoldOK(g, pending, refresh),
           ~Taken(g), ~Taken(req[p]), req[p].pc \notin TokenLabels
    PROVE  Kind(p)
<1>1. Advance(p, g)
  BY HoldShrinks DEF Advance, history
<1> QED BY <1>1 DEF Kind, Quiet

\* The steps of Runtime that remove rows, as a request sees them.
LEMMA WritesShrink ==
    ASSUME Writes \/ Reads
    PROVE  UNCHANGED <<control, switches, history>>
BY DEF Writes, Reads, switches, tunables

-----------------------------------------------------------------------------
(* One lemma per endpoint.                                                 *)

\* GET /authorize.
LEMMA AuthorizeKinds ==
    ASSUME IInv, HInv, NEW p \in Requests,
           \/ Authorize(p) \/ AuthorizeInject(p) \/ AuthorizeForceFail(p)
           \/ AuthorizeSession(p) \/ AuthorizeConsent(p)
           \/ AuthorizeCode(p) \/ AuthorizePending(p)
    PROVE  Kind(p)
<1> DEFINE f == req[p]
<1>0. NoteOK(f) /\ f \in Frame
  BY DEF HInv, NotesOK, IInv, TypeOK
<1>1. CASE Authorize(p)
  BY <1>1, ArriveQuiet DEF Authorize, PastForceFail, PastPause, GrantLabels
<1>2. CASE AuthorizeInject(p)
  <2>1. /\ UNCHANGED <<control, switches, history>> /\ Shrinks /\ ~Taken(f)
        /\ f.pc = "az_inject" /\ f.pc \notin TokenLabels
    BY <1>2 DEF AuthorizeInject, switches, Shrinks, tables, Taken, At, TokenLabels
  <2>2. Passes(f, "az_forcefail")
    BY <2>1 DEF Passes, Reaches, Taken, PastForceFail, PastPause, GrantLabels
  <2> QED BY <1>2, <2>1, <2>2, DoneQuiet, GotoQuiet DEF AuthorizeInject, Kind
<1>3. CASE AuthorizeForceFail(p)
  <2>1. /\ UNCHANGED <<control, switches, history>> /\ Shrinks /\ ~Taken(f)
        /\ f.pc = "az_forcefail" /\ f.pc \notin TokenLabels
    BY <1>3, WritesShrink DEF AuthorizeForceFail, Reads, Shrinks, tables, Taken, At,
       TokenLabels
  <2>2. ~forceFail => Passes(f, "az_session")
    BY <2>1 DEF Passes, Reaches, Taken, PastForceFail, PastPause, GrantLabels
  <2> QED BY <1>3, <2>1, <2>2, DoneQuiet, GotoQuiet DEF AuthorizeForceFail, Kind
<1>4. CASE AuthorizeSession(p)
  <2>1. /\ UNCHANGED <<control, switches, history>> /\ Shrinks /\ ~Taken(f)
        /\ f.pc = "az_session" /\ f.pc \notin TokenLabels
    BY <1>4, WritesShrink, RuntimeRemoves DEF AuthorizeSession, Shrinks, Taken, At,
       TokenLabels
  <2>2. \A label \in {"az_consent", "az_pending"} : Passes(f, label)
    BY <2>1 DEF Passes, Reaches, Taken, PastForceFail, PastPause, GrantLabels
  <2>3. CASE Become(p, [f EXCEPT !.pc = "az_pending"])
    BY <2>1, <2>2, <2>3, GotoQuiet DEF Goto, Kind
  <2>4. ASSUME NEW s \in UsableSession(f), NEW label \in {"az_consent", "az_pending"},
               Become(p, WithSession(f, s, label))
        PROVE  Kind(p)
    <3> DEFINE g == WithSession(f, s, label)
    <3>1. /\ g.pc = label /\ g.h = f.h /\ g.h \in Nat /\ g.h < nextID
          /\ NoteOK(g) /\ HoldOK(g, pending, refresh)
      BY <2>2, SessionFrame DEF Passes, GrantLabels
    <3> HIDE DEF g
    <3>2. ~Taken(g)
      BY <3>1 DEF Taken
    <3> QED BY <2>1, <2>4, <3>1, <3>2, BecomeQuiet DEF g
  <2> QED BY <1>4, <2>3, <2>4 DEF AuthorizeSession
<1>5. CASE AuthorizeConsent(p)
  <2>1. /\ UNCHANGED <<control, switches, history>> /\ Shrinks /\ ~Taken(f)
        /\ f.pc = "az_consent" /\ f.pc \notin TokenLabels
    BY <1>5, WritesShrink DEF AuthorizeConsent, Reads, Shrinks, tables, Taken, At,
       TokenLabels
  <2>2. Passes(f, "az_pending") /\ (~forceConsent => Passes(f, "az_code"))
    BY <2>1 DEF Passes, Reaches, Taken, PastForceFail, PastPause, GrantLabels
  <2> QED BY <1>5, <2>1, <2>2, GotoQuiet DEF AuthorizeConsent, Kind
<1>6. CASE AuthorizeCode(p)
  <2>1. UNCHANGED <<control, switches>> /\ f.pc = "az_code" /\ ~Taken(f) /\ Done(p)
    BY <1>6 DEF AuthorizeCode, Inserts, switches, tunables, At, Taken
  <2>2. CASE PutCode(CodeRow(f)) /\ Fresh /\ Deliver(0, f)
    <3>1. GrantOK(CodeRow(f)) /\ GenerationUsable(CodeRow(f).gen)
      BY <2>1, <2>2, CodeRowOK DEF PutCode, ClientLabels, UserLabels
    <3>2. Rightly(f) /\ "forceConsent" \in f.off
      BY <1>0, <2>1, <3>1 DEF Rightly, NoteOK, PastForceFail, GrantOK, CodeRow, HolderOK
    <3> QED BY <2>1, <2>2, <3>2, IdleAdvances DEF Kind, Answers, AnswersAtOnce,
            TokenLabels
  <2>3. CASE PutRefused(f.snap.gen, codes) /\ NothingIssued
    BY <2>1, <2>3, RefusedRemoves, DoneQuiet DEF NothingIssued, Shrinks, Kind, TokenLabels
  <2> QED BY <1>6, <2>2, <2>3 DEF AuthorizeCode
<1>7. CASE AuthorizePending(p)
  <2>1. /\ UNCHANGED <<control, switches>> /\ f.pc = "az_pending" /\ ~Taken(f)
        /\ Done(p) /\ f.pc \notin TokenLabels
    BY <1>7 DEF AuthorizePending, Inserts, switches, tunables, At, Taken, TokenLabels
  <2>2. CASE PutPending(PendingRow(f)) /\ Fresh /\ UNCHANGED issued
    <3>1. PendingOK(PendingRow(f))
      BY <2>1, <2>2, PendingRowOK DEF PutPending, ClientLabels, ProtocolLabels
    <3> QED BY <2>1, <2>2, <3>1, IdleAdvances DEF Kind, Admits
  <2>3. CASE PendingRefused(f.snap.gen) /\ NothingIssued
    BY <2>1, <2>3, RefusedRemoves, DoneQuiet DEF NothingIssued, Shrinks, Kind
  <2> QED BY <1>7, <2>2, <2>3 DEF AuthorizePending
<1> QED BY <1>1, <1>2, <1>3, <1>4, <1>5, <1>6, <1>7

\* POST /token: a code is claimed, checked and answered or given up; a refresh
\* grant is looked at and only replaced with the answer.
LEMMA TokenKinds ==
    ASSUME IInv, HInv, NEW p \in Requests,
           \/ Token(p) \/ TokenPaused(p) \/ TokenInject(p)
           \/ TokenCode(p) \/ TokenRefresh(p) \/ TokenRejected(p)
           \/ TokenForceFail(p) \/ TokenGeneration(p) \/ TokenBurn(p)
           \/ TokenIssueFails(p) \/ TokenStoreCode(p) \/ TokenStoreRefresh(p)
    PROVE  Kind(p)
<1> DEFINE f == req[p]
<1>0. NoteOK(f) /\ HoldOK(f, pending, refresh) /\ f \in Frame
  BY DEF HInv, NotesOK, HoldsOK, IInv, TypeOK
<1>1. CASE Token(p)
  BY <1>1, ArriveQuiet DEF Token, PastForceFail, PastPause, GrantLabels
<1>2. CASE TokenPaused(p)
  <2>1. /\ UNCHANGED <<control, switches, history>> /\ Shrinks /\ ~Taken(f)
        /\ f.pc = "tk_paused" /\ f.pc \notin TokenLabels
    BY <1>2, WritesShrink DEF TokenPaused, Reads, Shrinks, tables, Taken, At, TokenLabels
  <2>2. ~paused => Passes(f, "tk_inject")
    BY <2>1 DEF Passes, Reaches, Taken, PastForceFail, PastPause, GrantLabels
  <2> QED BY <1>2, <2>1, <2>2, DoneQuiet, GotoQuiet DEF TokenPaused, Kind
<1>3. CASE TokenInject(p)
  <2>1. /\ UNCHANGED <<control, switches, history>> /\ Shrinks /\ ~Taken(f)
        /\ f.pc = "tk_inject" /\ f.pc \notin TokenLabels
    BY <1>3 DEF TokenInject, switches, Shrinks, tables, Taken, At, TokenLabels
  <2>2. Passes(f, "tk_grant")
    BY <2>1 DEF Passes, Reaches, Taken, PastForceFail, PastPause, GrantLabels
  <2> QED BY <1>3, <2>1, <2>2, DoneQuiet, GotoQuiet DEF TokenInject, Kind
<1>4. ASSUME NEW row \in AuthCode, row.id < nextID, NEW via \in {"code", "refresh"},
             NEW g, g = WithGrant(f, row, via), At(p, "tk_grant"),
             NEW ref, via = "refresh" => row \in ref /\ Distinct(ref), NEW pend
      PROVE  /\ g.pc = "tk_forcefail" /\ g.h = row.id /\ g.via = via
             /\ g.h \in Nat /\ g.h < nextID /\ NoteOK(g) /\ HoldOK(g, pend, ref)
  <2>1. /\ g.pc = "tk_forcefail" /\ g.h = row.id /\ g.via = via /\ g.off = f.off
        /\ g.user = row.user /\ g.client = row.client
    BY <1>0, <1>4 DEF WithGrant, Frame
  <2>2. NoteOK(g)
    BY <1>0, <1>4, <2>1 DEF NoteOK, At, PastForceFail, PastPause
  <2>3. HoldOK(g, pend, ref)
    BY <1>4, <2>1 DEF HoldOK, Distinct
  <2> QED BY <1>4, <2>1, <2>2, <2>3 DEF AuthCode, Handle
<1>5. CASE TokenCode(p)
  <2>1. PICK row \in codes, c \in f.snap.doc.clients, proof \in BOOLEAN :
          /\ TakeCode(row.id)
          /\ IF row.id \notin expired /\ row.client = c /\ proof
             THEN Become(p, WithGrant(f, row, "code")) ELSE Done(p)
    BY <1>5 DEF TokenCode
  <2>2. row \in AuthCode /\ row.id \in IDs(codes) /\ row.id < nextID
    BY DEF IInv, TypeOK, RuntimeTypeOK, IDs, HInv, Below, Stored
  <2>3. /\ UNCHANGED <<control, switches, history>> /\ Shrinks /\ ~Taken(f)
        /\ f.pc = "tk_grant" /\ UNCHANGED <<pending, refresh, sessions>>
    BY <1>5, <2>1, WritesShrink, RuntimeRemoves DEF TokenCode, Shrinks, Taken, At
  <2>4. CASE Done(p)
    BY <2>3, <2>4, DoneQuiet DEF Kind
  <2>5. CASE row.id \notin expired /\ Become(p, WithGrant(f, row, "code"))
    <3> DEFINE g == WithGrant(f, row, "code")
    <3>1. /\ g.pc = "tk_forcefail" /\ g.h = row.id /\ g.via = "code" /\ g.h \in Nat
          /\ g.h < nextID /\ NoteOK(g) /\ HoldOK(g, pending', refresh')
      BY <1>4, <1>5, <2>2 DEF TokenCode
    <3> HIDE DEF g
    <3>2. Advance(p, g) /\ Taken(g)
      BY <2>3, <2>5, <3>1 DEF Advance, Taken, history, g
    <3>3. g.h \in IDs(Unexpired(codes)) /\ TakeCode(g.h)
      BY <2>1, <2>5, <3>1 DEF IDs, Unexpired
    <3> QED BY <2>3, <3>2, <3>3 DEF Kind, Claims
  <2> QED BY <2>1, <2>4, <2>5
<1>6. CASE TokenRefresh(p)
  <2>1. PICK row \in refresh, c \in f.snap.doc.clients, scopeSubset \in BOOLEAN :
          IF row.id \notin expired /\ row.client = c /\ scopeSubset
          THEN Become(p, WithGrant(f, row, "refresh")) ELSE Done(p)
    BY <1>6 DEF TokenRefresh
  <2>2. row \in AuthCode /\ row.id \in IDs(refresh) /\ row.id < nextID /\ Distinct(refresh)
    BY DEF IInv, TypeOK, RuntimeTypeOK, IDs, HInv, Below, Stored, Refresh, Apart
  <2>3. /\ UNCHANGED <<control, switches, history>> /\ Shrinks /\ ~Taken(f)
        /\ f.pc = "tk_grant" /\ refresh' = refresh
    BY <1>6, WritesShrink DEF TokenRefresh, Reads, Shrinks, tables, Taken, At
  <2>4. CASE Done(p)
    BY <2>3, <2>4, DoneQuiet DEF Kind
  <2>5. CASE Become(p, WithGrant(f, row, "refresh"))
    <3> DEFINE g == WithGrant(f, row, "refresh")
    <3>1. /\ g.pc = "tk_forcefail" /\ g.h = row.id /\ g.via = "refresh" /\ g.h \in Nat
          /\ g.h < nextID /\ NoteOK(g) /\ HoldOK(g, pending, refresh)
      BY <1>4, <1>6, <2>2 DEF TokenRefresh
    <3> HIDE DEF g
    <3>2. Advance(p, g) /\ ~Taken(g)
      BY <2>3, <2>5, <3>1, HoldShrinks DEF Advance, Taken, history, g
    <3> QED BY <2>3, <3>2 DEF Kind, Quiet
  <2> QED BY <2>1, <2>4, <2>5
<1>7. CASE TokenRejected(p)
  BY <1>7, DoneReading DEF TokenRejected, Kind
<1>8. CASE TokenForceFail(p)
  <2>1. /\ UNCHANGED <<control, switches, history>> /\ Shrinks
        /\ f.pc = "tk_forcefail" /\ refresh' = refresh
    BY <1>8, WritesShrink DEF TokenForceFail, Reads, Shrinks, tables, At
  <2>2. CASE Done(p)
    BY <1>8, <2>2, DoneReading DEF TokenForceFail, Kind
  <2>3. CASE ~forceFail /\ Goto(p, "tk_gen")
    <3>1. Passes(f, "tk_gen")
      BY <2>1, <2>3 DEF Passes, Reaches, Taken, PastForceFail, PastPause, GrantLabels
    <3> QED BY <2>1, <2>3, <3>1, GotoQuiet DEF Kind
  <2>4. CASE Revoked(f) /\ f.via = "refresh" /\ Goto(p, "tk_burn")
    <3>1. Passes(f, "tk_burn")
      BY <2>1, <2>4 DEF Passes, Reaches, Taken, PastForceFail, PastPause, GrantLabels
    <3> QED BY <2>1, <2>4, <3>1, GotoQuiet DEF Kind
  <2> QED BY <1>8, <2>2, <2>3, <2>4 DEF TokenForceFail
<1>9. CASE TokenGeneration(p)
  <2>1. /\ UNCHANGED <<control, switches, history>> /\ Shrinks
        /\ f.pc = "tk_gen" /\ refresh' = refresh
    BY <1>9, WritesShrink DEF TokenGeneration, Reads, Shrinks, tables, At
  <2>2. Passes(f, "tk_store")
    BY <2>1 DEF Passes, Reaches, Taken, PastForceFail, PastPause, GrantLabels
  <2>3. CASE Done(p)
    BY <1>9, <2>3, DoneReading DEF TokenGeneration, Kind
  <2>4. CASE Goto(p, "tk_store")
    BY <2>1, <2>2, <2>4, GotoQuiet DEF Kind
  <2> QED BY <1>9, <2>3, <2>4 DEF TokenGeneration
<1>10. CASE TokenBurn(p)
  <2>1. /\ UNCHANGED <<control, switches, history>> /\ Shrinks
        /\ f.pc = "tk_burn" /\ ~Taken(f) /\ Done(p)
    BY <1>10, WritesShrink, RuntimeRemoves DEF TokenBurn, Shrinks, At, Taken
  <2>2. ASSUME NEW row \in refresh, row \notin refresh'
        PROVE  ~UserUsable(active, row.user)
    <3>1. row.id = f.h /\ GenerationUsable(f.snap.gen)
      BY <1>10, <2>2 DEF TokenBurn, TakeRefresh, Without
    <3>2. row.user = f.user /\ row.client = f.client /\ Revoked(f)
      BY <1>0, <2>1, <3>1 DEF HoldOK, GrantLabels
    <3>3. ~SecurityChanged(f.snap.doc, active.doc)
      BY <2>1, <3>1, AdmissibleIsCurrent DEF At
    <3>4. row.client \in active.doc.clients
      BY RowByRow DEF GrantOK
    <3> QED BY <3>2, <3>3, <3>4 DEF Revoked, SecurityChanged, UserUsable
  <2> QED BY <2>1, <2>2, DoneQuiet DEF Kind
<1>11. CASE TokenIssueFails(p)
  BY <1>11, DoneReading DEF TokenIssueFails, Kind
<1>12. ASSUME At(p, "tk_store"), GenerationUsable(CodeRow(f).gen)
       PROVE  Rightly(f) /\ "paused" \in f.off
  <2>1. GrantOK(CodeRow(f))
    BY <1>12, CodeRowOK DEF At, ClientLabels, UserLabels
  <2> QED BY <1>0, <1>12, <2>1 DEF At, Rightly, NoteOK, PastForceFail, PastPause,
          GrantOK, CodeRow, HolderOK
<1>13. CASE TokenStoreCode(p)
  <2>1. UNCHANGED <<control, switches>> /\ f.pc = "tk_store" /\ Taken(f) /\ Done(p)
    BY <1>13 DEF TokenStoreCode, Inserts, switches, tunables, At, Taken
  <2>2. CASE PutRefresh(CodeRow(f)) /\ Fresh /\ Deliver(f.h, f)
    <3>1. Rightly(f) /\ "paused" \in f.off
      BY <1>12, <2>1, <2>2 DEF At, PutRefresh
    <3> QED BY <2>1, <2>2, <3>1, IdleAdvances DEF Kind, Answers, AnswersClaim
  <2>3. CASE PutRefused(f.snap.gen, refresh) /\ NothingIssued
    <3>1. Settled /\ \A row \in refresh \ refresh' : row.id \in expired
      BY <2>1, <2>3 DEF PutRefused, Settled, cleanupLocked, Unexpired, tables, control
    <3> QED BY <2>1, <2>3, <3>1, RefusedRemoves, DoneQuiet DEF NothingIssued, Shrinks, Kind
  <2> QED BY <1>13, <2>2, <2>3 DEF TokenStoreCode
<1>14. CASE TokenStoreRefresh(p)
  <2>1. UNCHANGED <<control, switches>> /\ f.pc = "tk_store" /\ ~Taken(f) /\ Done(p)
    BY <1>14 DEF TokenStoreRefresh, Inserts, switches, tunables, At, Taken
  <2>2. CASE RotateRefresh(f.h, CodeRow(f)) /\ Fresh /\ Deliver(f.h, f)
    <3>1. Rightly(f) /\ "paused" \in f.off
      BY <1>12, <2>1, <2>2 DEF At, RotateRefresh, CanRotate
    <3> QED BY <2>1, <2>2, <3>1, IdleAdvances DEF Kind, Answers, AnswersRotating
  <2>3. CASE UNCHANGED tables /\ NothingIssued
    <3>1. Settled /\ Shrinks /\ refresh' = refresh
      BY <2>1, <2>3 DEF Settled, Shrinks, Unexpired, tables, control
    <3> QED BY <2>1, <2>3, <3>1, DoneQuiet DEF NothingIssued, Kind
  <2> QED BY <1>14, <2>2, <2>3 DEF TokenStoreRefresh
<1> QED BY <1>1, <1>2, <1>3, <1>5, <1>6, <1>7, <1>8, <1>9, <1>10, <1>11, <1>13, <1>14

\* POST /login: what it stores is a session.
LEMMA LoginKinds ==
    ASSUME IInv, HInv, NEW p \in Requests,
           \/ Login(p) \/ LoginForceFail(p) \/ LoginPending(p) \/ LoginRejected(p)
           \/ LoginTOTP(p) \/ LoginSessionPut(p) \/ LoginClient(p) \/ LoginConsent(p)
    PROVE  Kind(p)
<1> DEFINE f == req[p]
<1>0. NoteOK(f) /\ f \in Frame /\ f.h \in Nat /\ f.h < nextID
  BY DEF HInv, NotesOK, Below, IInv, TypeOK, Frame
<1>1. CASE Login(p)
  BY <1>1, ArriveQuiet DEF Login, PastForceFail, PastPause, GrantLabels
<1>2. CASE LoginForceFail(p)
  <2>1. /\ UNCHANGED <<control, switches, history>> /\ Shrinks /\ ~Taken(f)
        /\ f.pc = "lg_forcefail" /\ f.pc \notin TokenLabels
    BY <1>2, WritesShrink DEF LoginForceFail, Reads, Shrinks, tables, Taken, At, TokenLabels
  <2>2. ~forceFail => Passes(f, "lg_pending")
    BY <2>1 DEF Passes, Reaches, Taken, PastForceFail, PastPause, GrantLabels
  <2> QED BY <1>2, <2>1, <2>2, DoneQuiet, GotoQuiet DEF LoginForceFail, Kind
<1>3. CASE LoginPending(p)
  <2>1. PICK row \in pending :
          /\ GetPending(row.id)
          /\ \/ \E u \in f.snap.doc.users, label \in {"lg_totp", "lg_session"} :
                  Become(p, [f EXCEPT !.h = row.id, !.user = u, !.sid = 0, !.pc = label])
             \/ Done(p)
    BY <1>3 DEF LoginPending
  <2>2. /\ UNCHANGED <<control, switches, history>> /\ Shrinks /\ ~Taken(f)
        /\ f.pc = "lg_pending" /\ f.pc \notin TokenLabels
    BY <1>3, <2>1, WritesShrink, RuntimeRemoves DEF LoginPending, Shrinks, Taken, At,
       TokenLabels
  <2>3. ASSUME NEW u \in f.snap.doc.users, NEW label \in {"lg_totp", "lg_session"},
               Become(p, [f EXCEPT !.h = row.id, !.user = u, !.sid = 0, !.pc = label])
        PROVE  Kind(p)
    <3> DEFINE g == [f EXCEPT !.h = row.id, !.user = u, !.sid = 0, !.pc = label]
    <3>1. row.id \in Nat /\ row.id < nextID
      BY DEF HInv, Below, Stored, IDs, IInv, TypeOK, RuntimeTypeOK, Pending, Handle
    <3>2. g.h = row.id /\ g.pc = label /\ g.off = f.off
      BY <1>0 DEF Frame
    <3> HIDE DEF g
    <3>3. NoteOK(g) /\ HoldOK(g, pending, refresh) /\ ~Taken(g)
      BY <1>0, <2>2, <3>2 DEF NoteOK, HoldOK, Taken, PastForceFail, PastPause, GrantLabels
    <3> QED BY <2>2, <2>3, <3>1, <3>2, <3>3, BecomeQuiet DEF g
  <2> QED BY <2>1, <2>2, <2>3, DoneQuiet DEF Kind
<1>4. CASE LoginRejected(p)
  BY <1>4, DoneReading DEF LoginRejected, Kind
<1>5. CASE LoginTOTP(p)
  <2>1. /\ UNCHANGED <<control, switches, history>> /\ Shrinks /\ ~Taken(f)
        /\ f.pc = "lg_totp" /\ f.pc \notin TokenLabels
    BY <1>5, WritesShrink DEF LoginTOTP, Reads, Shrinks, tables, Taken, At, TokenLabels
  <2>2. CASE Done(p)
    BY <1>5, <2>2, DoneReading DEF LoginTOTP, Kind
  <2>3. CASE Become(p, [f EXCEPT !.pc = "lg_session", !.mfa = TRUE])
    <3> DEFINE g == [f EXCEPT !.pc = "lg_session", !.mfa = TRUE]
    <3>1. g.h = f.h /\ g.pc = "lg_session" /\ g.off = f.off
      BY <1>0 DEF Frame
    <3> HIDE DEF g
    <3>2. NoteOK(g) /\ HoldOK(g, pending, refresh) /\ ~Taken(g)
      BY <1>0, <2>1, <3>1 DEF NoteOK, HoldOK, Taken, PastForceFail, PastPause, GrantLabels
    <3> QED BY <1>0, <2>1, <2>3, <3>1, <3>2, BecomeQuiet DEF g
  <2> QED BY <1>5, <2>2, <2>3 DEF LoginTOTP
<1>6. CASE LoginSessionPut(p)
  <2>1. /\ UNCHANGED <<control, switches>> /\ f.pc = "lg_session" /\ ~Taken(f)
        /\ f.pc \notin TokenLabels
    BY <1>6 DEF LoginSessionPut, Inserts, switches, tunables, At, Taken, TokenLabels
  <2>2. CASE /\ PutSession(SessionRow(f)) /\ Fresh /\ UNCHANGED issued
             /\ Become(p, [f EXCEPT !.pc = "lg_client", !.sid = nextID])
    <3> DEFINE g == [f EXCEPT !.pc = "lg_client", !.sid = nextID]
    <3>1. SessionOK(SessionRow(f))
      BY <2>1, <2>2, SessionRowOK DEF PutSession, UserLabels
    <3>2. g.h = f.h /\ g.pc = "lg_client" /\ g.off = f.off
      BY <1>0 DEF Frame
    <3>3. g.h < nextID'
      BY <1>0, <2>2, <3>2 DEF Fresh, IInv, TypeOK, RuntimeTypeOK, Handle
    <3> HIDE DEF g
    <3>4. NoteOK(g) /\ HoldOK(g, pending', refresh') /\ ~Taken(g)
      BY <1>0, <2>1, <3>2 DEF NoteOK, HoldOK, Taken, PastForceFail, PastPause, GrantLabels
    <3>5. Advance(p, g)
      BY <1>0, <2>1, <2>2, <3>2, <3>3, <3>4 DEF Advance, g
    <3>6. "forceFail" \in f.off
      BY <1>0, <2>1 DEF NoteOK, PastForceFail
    <3> QED BY <2>1, <2>2, <3>1, <3>4, <3>5, <3>6 DEF Kind, Admits
  <2>3. CASE PutRefused(f.snap.gen, sessions) /\ NothingIssued /\ Done(p)
    BY <2>1, <2>3, RefusedRemoves, DoneQuiet DEF NothingIssued, Shrinks, Kind
  <2> QED BY <1>6, <2>2, <2>3 DEF LoginSessionPut
<1>7. CASE LoginClient(p)
  <2>1. /\ UNCHANGED <<control, switches, history>> /\ Shrinks /\ ~Taken(f)
        /\ f.pc = "lg_client" /\ f.pc \notin TokenLabels
    BY <1>7, WritesShrink, RuntimeRemoves DEF LoginClient, Shrinks, Taken, At, TokenLabels
  <2>2. Passes(f, "lg_consent")
    BY <2>1 DEF Passes, Reaches, Taken, PastForceFail, PastPause, GrantLabels
  <2> QED BY <1>7, <2>1, <2>2, DoneQuiet, GotoQuiet DEF LoginClient, Kind
<1>8. CASE LoginConsent(p)
  <2>1. /\ UNCHANGED <<control, switches, history>> /\ Shrinks /\ ~Taken(f)
        /\ f.pc = "lg_consent" /\ f.pc \notin TokenLabels
    BY <1>8, WritesShrink DEF LoginConsent, Reads, Shrinks, tables, Taken, At, TokenLabels
  <2>2. Passes(f, "finish")
    BY <2>1 DEF Passes, Reaches, Taken, PastForceFail, PastPause, GrantLabels
  <2> QED BY <1>8, <2>1, <2>2, DoneQuiet, GotoQuiet DEF LoginConsent, Kind
<1> QED BY <1>1, <1>2, <1>3, <1>4, <1>5, <1>6, <1>7, <1>8

\* POST /consent: approving leads to a completion, denying takes the request.
LEMMA ConsentKinds ==
    ASSUME IInv, HInv, NEW p \in Requests,
           \/ Consent(p) \/ ConsentSession(p)
           \/ Deny(p) \/ DenyGet(p) \/ DenyRejected(p) \/ DenyTake(p)
           \/ Finish(p)
    PROVE  Kind(p)
<1> DEFINE f == req[p]
<1>0. NoteOK(f) /\ HoldOK(f, pending, refresh) /\ f \in Frame
  BY DEF HInv, NotesOK, HoldsOK, IInv, TypeOK
<1>1. CASE Consent(p)
  BY <1>1, ArriveQuiet DEF Consent, PastForceFail, PastPause, GrantLabels
<1>2. CASE ConsentSession(p)
  <2>1. /\ UNCHANGED <<control, switches, history>> /\ Shrinks /\ ~Taken(f)
        /\ f.pc = "cs_session" /\ f.pc \notin TokenLabels
    BY <1>2, WritesShrink, RuntimeRemoves DEF ConsentSession, Shrinks, Taken, At, TokenLabels
  <2>2. ASSUME NEW s \in UsableSession(f), NEW h \in IDs(pending),
               Become(p, [WithSession(f, s, "finish") EXCEPT !.h = h])
        PROVE  Kind(p)
    <3> DEFINE w == WithSession(f, s, "finish")
               g == [w EXCEPT !.h = h]
    <3>1. h \in Nat /\ h < nextID
      BY DEF HInv, Below, Stored, IDs, IInv, TypeOK, RuntimeTypeOK, Pending, Handle
    <3>5. w \in Frame /\ w.pc = "finish"
      BY SessionPicked DEF Labels
    <3>2. w.pc = "finish" /\ w.off = f.off /\ w \in Frame
      BY <1>0, <3>5 DEF WithSession, Frame
    <3> HIDE DEF w
    <3>3. g.pc = "finish" /\ g.off = f.off /\ g.h = h
      BY <3>2 DEF Frame
    <3> HIDE DEF g
    <3>4. NoteOK(g) /\ HoldOK(g, pending, refresh) /\ ~Taken(g)
      BY <1>0, <2>1, <3>3 DEF NoteOK, HoldOK, Taken, PastForceFail, PastPause, GrantLabels
    <3> QED BY <2>1, <2>2, <3>1, <3>3, <3>4, BecomeQuiet DEF g, w
  <2>3. CASE Done(p)
    BY <2>1, <2>3, DoneQuiet DEF Kind
  <2> QED BY <1>2, <2>2, <2>3 DEF ConsentSession
<1>3. CASE Deny(p)
  BY <1>3, ArriveQuiet DEF Deny, PastForceFail, PastPause, GrantLabels
<1>4. CASE DenyGet(p)
  <2>1. PICK row \in pending :
          /\ GetPending(row.id)
          /\ \/ Become(p, [f EXCEPT !.pc = "dn_take", !.h = row.id, !.sid = 0])
             \/ Done(p)
    BY <1>4 DEF DenyGet
  <2>2. /\ UNCHANGED <<control, switches, history>> /\ Shrinks /\ ~Taken(f)
        /\ f.pc = "dn_get" /\ f.pc \notin TokenLabels
    BY <1>4, <2>1, WritesShrink, RuntimeRemoves DEF DenyGet, Shrinks, Taken, At, TokenLabels
  <2>3. CASE Become(p, [f EXCEPT !.pc = "dn_take", !.h = row.id, !.sid = 0])
    <3> DEFINE g == [f EXCEPT !.pc = "dn_take", !.h = row.id, !.sid = 0]
    <3>1. row.id \in Nat /\ row.id < nextID
      BY DEF HInv, Below, Stored, IDs, IInv, TypeOK, RuntimeTypeOK, Pending, Handle
    <3>2. g.h = row.id /\ g.pc = "dn_take" /\ g.off = f.off /\ g.user = f.user
      BY <1>0 DEF Frame
    <3> HIDE DEF g
    <3>3. NoteOK(g) /\ HoldOK(g, pending, refresh) /\ ~Taken(g)
      BY <1>0, <2>2, <3>2 DEF NoteOK, HoldOK, Taken, PastForceFail, PastPause, GrantLabels
    <3> QED BY <2>2, <2>3, <3>1, <3>2, <3>3, BecomeQuiet DEF g
  <2>4. CASE Done(p)
    BY <2>2, <2>4, DoneQuiet DEF Kind
  <2> QED BY <2>1, <2>3, <2>4
<1>5. CASE DenyRejected(p)
  BY <1>5, DoneReading DEF DenyRejected, Kind
<1>6. CASE DenyTake(p)
  <2>1. UNCHANGED <<control, switches>> /\ f.pc = "dn_take" /\ ~Taken(f) /\ Done(p)
        /\ f.pc \notin TokenLabels \cup {"az_code"}
    BY <1>6 DEF DenyTake, Inserts, switches, tunables, At, Taken, TokenLabels
  <2>2. f.user = None
    BY <1>0, <2>1 DEF HoldOK
  <2>3. CASE f.h \in IDs(Unexpired(pending))
    BY <1>6, <2>1, <2>2, <2>3, IdleAdvances DEF DenyTake, TakesPending, Kind, Answers,
       AnswersPending
  <2>4. CASE f.h \notin IDs(Unexpired(pending))
    BY <1>6, <2>1, <2>4, RuntimeRemoves, DoneQuiet DEF DenyTake, TakesPending,
       NothingIssued, Shrinks, Kind
  <2> QED BY <2>3, <2>4
<1>7. CASE Finish(p)
  <2>1. /\ UNCHANGED <<control, switches, history>> /\ Shrinks /\ ~Taken(f)
        /\ f.pc = "finish" /\ f.pc \notin TokenLabels
    BY <1>7, WritesShrink, RuntimeRemoves DEF Finish, Shrinks, Taken, At, TokenLabels
  <2>2. Passes(f, "as_get") /\ Passes(f, "co_forcefail")
    BY <2>1 DEF Passes, Reaches, Taken, PastForceFail, PastPause, GrantLabels
  <2> QED BY <1>7, <2>1, <2>2, GotoQuiet DEF Finish, Kind
<1> QED BY <1>1, <1>2, <1>3, <1>4, <1>5, <1>6, <1>7

\* CompleteLoginSnapshot: the pending request is claimed, then answered with a
\* code or given up.
LEMMA CompleteKinds ==
    ASSUME IInv, HInv, NEW p \in Requests,
           \/ CompleteForceFail(p) \/ CompleteGeneration(p) \/ CompleteGet(p)
           \/ CompleteTake(p) \/ CompleteCode(p)
    PROVE  Kind(p)
<1> DEFINE f == req[p]
<1>0. NoteOK(f) /\ f \in Frame /\ f.h \in Nat /\ f.h < nextID
  BY DEF HInv, NotesOK, Below, IInv, TypeOK, Frame
<1>1. CASE CompleteForceFail(p)
  <2>1. /\ UNCHANGED <<control, switches, history>> /\ Shrinks /\ ~Taken(f)
        /\ f.pc = "co_forcefail" /\ f.pc \notin TokenLabels
    BY <1>1, WritesShrink DEF CompleteForceFail, Reads, Shrinks, tables, Taken, At,
       TokenLabels
  <2>2. ~forceFail => Passes(f, "co_gen")
    BY <2>1 DEF Passes, Reaches, Taken, PastForceFail, PastPause, GrantLabels
  <2> QED BY <1>1, <2>1, <2>2, DoneQuiet, GotoQuiet DEF CompleteForceFail, Kind
<1>2. CASE CompleteGeneration(p)
  <2>1. /\ UNCHANGED <<control, switches, history>> /\ Shrinks /\ ~Taken(f)
        /\ f.pc = "co_gen" /\ f.pc \notin TokenLabels
    BY <1>2, WritesShrink DEF CompleteGeneration, Reads, Shrinks, tables, Taken, At,
       TokenLabels
  <2>2. Passes(f, "co_get")
    BY <2>1 DEF Passes, Reaches, Taken, PastForceFail, PastPause, GrantLabels
  <2> QED BY <1>2, <2>1, <2>2, DoneQuiet, GotoQuiet DEF CompleteGeneration, Kind
<1>3. CASE CompleteGet(p)
  <2>1. /\ UNCHANGED <<control, switches, history>> /\ Shrinks /\ ~Taken(f)
        /\ f.pc = "co_get" /\ f.pc \notin TokenLabels
    BY <1>3, WritesShrink, RuntimeRemoves DEF CompleteGet, Shrinks, Taken, At, TokenLabels
  <2>2. ASSUME NEW c, Become(p, [f EXCEPT !.pc = "co_take", !.client = c])
        PROVE  Kind(p)
    <3> DEFINE g == [f EXCEPT !.pc = "co_take", !.client = c]
    <3>1. g.h = f.h /\ g.pc = "co_take" /\ g.off = f.off
      BY <1>0 DEF Frame
    <3> HIDE DEF g
    <3>2. NoteOK(g) /\ HoldOK(g, pending, refresh) /\ ~Taken(g)
      BY <1>0, <2>1, <3>1 DEF NoteOK, HoldOK, Taken, PastForceFail, PastPause, GrantLabels
    <3> QED BY <1>0, <2>1, <2>2, <3>1, <3>2, BecomeQuiet DEF g
  <2>3. CASE Done(p)
    BY <2>1, <2>3, DoneQuiet DEF Kind
  <2> QED BY <1>3, <2>2, <2>3 DEF CompleteGet
<1>4. CASE CompleteTake(p)
  <2>1. /\ UNCHANGED <<control, switches, history>> /\ Shrinks /\ ~Taken(f)
        /\ f.pc = "co_take" /\ f.pc \notin TokenLabels
    BY <1>4, WritesShrink, RuntimeRemoves DEF CompleteTake, Shrinks, Taken, At, TokenLabels
  <2>2. CASE f.h \in IDs(Unexpired(pending)) /\ Goto(p, "co_code")
    <3> DEFINE g == [f EXCEPT !.pc = "co_code"]
    <3>1. Reaches(f, "co_code")
      BY <2>1 DEF Passes, Reaches, Taken, PastForceFail, PastPause, GrantLabels
    <3>2. /\ g.pc = "co_code" /\ g.h = f.h
          /\ NoteOK(g) /\ HoldOK(g, pending, refresh)
      BY <3>1, GotoFrame
    <3>3. Become(p, g)
      BY <2>2 DEF Goto
    <3> HIDE DEF g
    <3>4. Advance(p, g) /\ Taken(g)
      BY <1>0, <2>1, <3>2, <3>3, HoldShrinks DEF Advance, Taken, history
    <3> QED BY <1>4, <2>1, <2>2, <3>2, <3>4 DEF CompleteTake, Kind, Claims
  <2>3. CASE Done(p)
    BY <2>1, <2>3, DoneQuiet DEF Kind
  <2> QED BY <1>4, <2>2, <2>3 DEF CompleteTake
<1>5. CASE CompleteCode(p)
  <2>1. UNCHANGED <<control, switches>> /\ f.pc = "co_code" /\ Taken(f) /\ Done(p)
    BY <1>5 DEF CompleteCode, Inserts, switches, tunables, At, Taken
  <2>2. CASE PutCode(CodeRow(f)) /\ Fresh /\ Deliver(f.h, f)
    <3>1. GrantOK(CodeRow(f)) /\ GenerationUsable(CodeRow(f).gen)
      BY <2>1, <2>2, CodeRowOK DEF PutCode, ClientLabels, UserLabels
    <3>2. Rightly(f)
      BY <1>0, <2>1, <3>1 DEF Rightly, NoteOK, PastForceFail, GrantOK, CodeRow, HolderOK
    <3> QED BY <2>1, <2>2, <3>2, IdleAdvances DEF Kind, Answers, AnswersClaim
  <2>3. CASE PutRefused(f.snap.gen, codes) /\ NothingIssued
    <3>1. Settled
      BY <2>1, <2>3 DEF PutRefused, Settled, cleanupLocked, Unexpired, tables, control
    <3> QED BY <2>1, <2>3, <3>1, RefusedRemoves, DoneQuiet DEF NothingIssued, Shrinks,
            Kind, TokenLabels
  <2> QED BY <1>5, <2>2, <2>3 DEF CompleteCode
<1> QED BY <1>1, <1>2, <1>3, <1>4, <1>5

\* finishPending: the pending request is taken together with the answer.
LEMMA AssertKinds ==
    ASSUME IInv, HInv, NEW p \in Requests,
           \/ AssertGet(p) \/ AssertForceFail(p) \/ AssertGeneration(p) \/ AssertTake(p)
    PROVE  Kind(p)
<1> DEFINE f == req[p]
<1>0. /\ NoteOK(f) /\ HoldOK(f, pending, refresh) /\ FrameOK(f)
      /\ f \in Frame /\ f.h \in Nat /\ f.h < nextID
  BY DEF HInv, NotesOK, HoldsOK, Below, IInv, FramesOK, TypeOK, Frame
<1>1. CASE AssertGet(p)
  <2>1. /\ UNCHANGED <<control, switches, history>> /\ Shrinks /\ ~Taken(f)
        /\ f.pc = "as_get" /\ f.pc \notin TokenLabels
    BY <1>1, WritesShrink, RuntimeRemoves DEF AssertGet, Shrinks, Taken, At, TokenLabels
  <2>2. ASSUME NEW c, Become(p, [f EXCEPT !.pc = "as_forcefail", !.client = c])
        PROVE  Kind(p)
    <3> DEFINE g == [f EXCEPT !.pc = "as_forcefail", !.client = c]
    <3>1. g.h = f.h /\ g.pc = "as_forcefail" /\ g.off = f.off
      BY <1>0 DEF Frame
    <3> HIDE DEF g
    <3>2. NoteOK(g) /\ HoldOK(g, pending, refresh) /\ ~Taken(g)
      BY <1>0, <2>1, <3>1 DEF NoteOK, HoldOK, Taken, PastForceFail, PastPause, GrantLabels
    <3> QED BY <1>0, <2>1, <2>2, <3>1, <3>2, BecomeQuiet DEF g
  <2>3. CASE Done(p)
    BY <2>1, <2>3, DoneQuiet DEF Kind
  <2> QED BY <1>1, <2>2, <2>3 DEF AssertGet
<1>2. CASE AssertForceFail(p)
  <2>1. /\ UNCHANGED <<control, switches, history>> /\ Shrinks /\ ~Taken(f)
        /\ f.pc = "as_forcefail" /\ f.pc \notin TokenLabels
    BY <1>2, WritesShrink DEF AssertForceFail, Reads, Shrinks, tables, Taken, At, TokenLabels
  <2>2. ~forceFail => Passes(f, "as_gen")
    BY <2>1 DEF Passes, Reaches, Taken, PastForceFail, PastPause, GrantLabels
  <2> QED BY <1>2, <2>1, <2>2, DoneQuiet, GotoQuiet DEF AssertForceFail, Kind
<1>3. CASE AssertGeneration(p)
  <2>1. /\ UNCHANGED <<control, switches, history>> /\ Shrinks /\ ~Taken(f)
        /\ f.pc = "as_gen" /\ f.pc \notin TokenLabels
    BY <1>3, WritesShrink DEF AssertGeneration, Reads, Shrinks, tables, Taken, At,
       TokenLabels
  <2>2. GenerationUsable(f.snap.gen) => Passes(f, "as_take")
    BY <2>1, AdmissibleIsCurrent DEF Passes, Reaches, Taken, PastForceFail, PastPause, GrantLabels, At
  <2> QED BY <1>3, <2>1, <2>2, DoneQuiet, GotoQuiet DEF AssertGeneration, Kind
<1>4. CASE AssertTake(p)
  <2>1. UNCHANGED <<control, switches>> /\ f.pc = "as_take" /\ ~Taken(f) /\ Done(p)
        /\ f.pc \notin TokenLabels \cup {"az_code"}
    BY <1>4 DEF AssertTake, Inserts, switches, tunables, At, Taken, TokenLabels
  <2>2. CASE f.h \in IDs(Unexpired(pending))
    <3>1. GenerationUsable(f.snap.gen)
      BY <1>0, <2>1, <2>2 DEF HoldOK, GenerationUsable, IDs, Unexpired, Frame, Snapshot,
         IInv, TypeOK, RuntimeTypeOK
    <3>2. ~SecurityChanged(f.snap.doc, active.doc)
      BY <2>1, <3>1, AdmissibleIsCurrent DEF At
    <3>3. Rightly(f)
      BY <1>0, <2>1, <3>1, <3>2 DEF Rightly, NoteOK, PastForceFail, FrameOK, ClientLabels,
         UserLabels, HolderOK, UserUsable, SessionUsable, SecurityChanged
    <3> QED BY <1>4, <2>1, <2>2, <3>3, IdleAdvances DEF AssertTake, TakesPending, Kind,
            Answers, AnswersPending
  <2>3. CASE f.h \notin IDs(Unexpired(pending))
    BY <1>4, <2>1, <2>3, RuntimeRemoves, DoneQuiet DEF AssertTake, TakesPending,
       NothingIssued, Shrinks, Kind
  <2> QED BY <2>2, <2>3
<1> QED BY <1>1, <1>2, <1>3, <1>4

\* The SSO endpoints.
LEMMA SsoKinds ==
    ASSUME IInv, HInv, NEW p \in Requests,
           Sso(p) \/ SsoForceFail(p) \/ SsoPending(p) \/ SsoSession(p) \/ SsoConsent(p)
    PROVE  Kind(p)
<1> DEFINE f == req[p]
<1>0. NoteOK(f) /\ f \in Frame /\ f.h \in Nat /\ f.h < nextID
  BY DEF HInv, NotesOK, Below, IInv, TypeOK, Frame
<1>1. CASE Sso(p)
  BY <1>1, ArriveQuiet DEF Sso, PastForceFail, PastPause, GrantLabels
<1>2. CASE SsoForceFail(p)
  <2>1. /\ UNCHANGED <<control, switches, history>> /\ Shrinks /\ ~Taken(f)
        /\ f.pc = "so_forcefail" /\ f.pc \notin TokenLabels
    BY <1>2, WritesShrink DEF SsoForceFail, Reads, Shrinks, tables, Taken, At, TokenLabels
  <2>2. Passes(f, "so_pending")
    BY <2>1 DEF Passes, Reaches, Taken, PastForceFail, PastPause, GrantLabels
  <2> QED BY <1>2, <2>1, <2>2, DoneQuiet, GotoQuiet DEF SsoForceFail, Kind
<1>3. CASE SsoPending(p)
  <2>1. /\ UNCHANGED <<control, switches>> /\ f.pc = "so_pending" /\ ~Taken(f)
        /\ f.pc \notin TokenLabels
    BY <1>3 DEF SsoPending, Inserts, switches, tunables, At, Taken, TokenLabels
  <2>2. CASE /\ PutPending(PendingRow(f)) /\ Fresh /\ UNCHANGED issued
             /\ Become(p, [f EXCEPT !.pc = "so_session", !.h = nextID])
    <3> DEFINE g == [f EXCEPT !.pc = "so_session", !.h = nextID]
    <3>1. PendingOK(PendingRow(f))
      BY <2>1, <2>2, PendingRowOK DEF PutPending, ClientLabels, ProtocolLabels
    <3>2. g.h = nextID /\ g.pc = "so_session" /\ g.off = f.off
      BY <1>0 DEF Frame
    <3>3. g.h \in Nat /\ g.h < nextID'
      BY <2>2, <3>2 DEF Fresh, IInv, TypeOK, RuntimeTypeOK, Handle
    <3> HIDE DEF g
    <3>4. NoteOK(g) /\ HoldOK(g, pending', refresh') /\ ~Taken(g)
      BY <1>0, <2>1, <3>2 DEF NoteOK, HoldOK, Taken, PastForceFail, PastPause, GrantLabels
    <3>5. Advance(p, g)
      BY <1>0, <2>1, <2>2, <3>2, <3>3, <3>4 DEF Advance, g
    <3> QED BY <2>1, <2>2, <3>1, <3>4, <3>5 DEF Kind, Admits
  <2>3. CASE PendingRefused(f.snap.gen) /\ NothingIssued /\ Done(p)
    BY <2>1, <2>3, RefusedRemoves, DoneQuiet DEF NothingIssued, Shrinks, Kind
  <2> QED BY <1>3, <2>2, <2>3 DEF SsoPending
<1>4. CASE SsoSession(p)
  <2>1. /\ UNCHANGED <<control, switches, history>> /\ Shrinks /\ ~Taken(f)
        /\ f.pc = "so_session" /\ f.pc \notin TokenLabels
    BY <1>4, WritesShrink, RuntimeRemoves DEF SsoSession, Shrinks, Taken, At, TokenLabels
  <2>2. ASSUME NEW s \in UsableSession(f), Become(p, WithSession(f, s, "so_consent"))
        PROVE  Kind(p)
    <3> DEFINE g == WithSession(f, s, "so_consent")
    <3>1. Reaches(f, "so_consent")
      BY <2>1 DEF Passes, Reaches, Taken, PastForceFail, PastPause, GrantLabels
    <3>4. "so_consent" \notin GrantLabels
      BY DEF GrantLabels
    <3>2. /\ g.pc = "so_consent" /\ g.h \in Nat /\ g.h < nextID
          /\ NoteOK(g) /\ HoldOK(g, pending, refresh)
      BY <3>1, <3>4, SessionFrame
    <3> HIDE DEF g
    <3>3. ~Taken(g)
      BY <3>2 DEF Taken
    <3> QED BY <2>1, <2>2, <3>2, <3>3, BecomeQuiet DEF g
  <2>3. CASE Done(p)
    BY <2>1, <2>3, DoneQuiet DEF Kind
  <2> QED BY <1>4, <2>2, <2>3 DEF SsoSession
<1>5. CASE SsoConsent(p)
  <2>1. /\ UNCHANGED <<control, switches, history>> /\ Shrinks /\ ~Taken(f)
        /\ f.pc = "so_consent" /\ f.pc \notin TokenLabels
    BY <1>5, WritesShrink DEF SsoConsent, Reads, Shrinks, tables, Taken, At, TokenLabels
  <2>2. Passes(f, "as_get")
    BY <2>1 DEF Passes, Reaches, Taken, PastForceFail, PastPause, GrantLabels
  <2> QED BY <1>5, <2>1, <2>2, DoneQuiet, GotoQuiet DEF SsoConsent, Kind
<1> QED BY <1>1, <1>2, <1>3, <1>4, <1>5

\* Logout only removes rows.
LEMMA LogoutKinds ==
    ASSUME IInv, HInv, NEW p \in Requests,
           Logout(p) \/ LogoutSession(p) \/ LogoutExpire(p)
    PROVE  Kind(p)
<1> DEFINE f == req[p]
<1>1. CASE Logout(p)
  BY <1>1, ArriveQuiet DEF Logout, PastForceFail, PastPause, GrantLabels
<1>2. CASE LogoutSession(p)
  <2>1. /\ UNCHANGED <<control, switches, history>> /\ Shrinks /\ ~Taken(f)
        /\ f.pc = "lo_session" /\ f.pc \notin TokenLabels
    BY <1>2, WritesShrink, RuntimeRemoves DEF LogoutSession, Shrinks, Taken, At, TokenLabels
  <2>2. Passes(f, "lo_expire")
    BY <2>1 DEF Passes, Reaches, Taken, PastForceFail, PastPause, GrantLabels
  <2> QED BY <1>2, <2>1, <2>2, DoneQuiet, GotoQuiet DEF LogoutSession, Kind
<1>3. CASE LogoutExpire(p)
  <2>1. /\ UNCHANGED <<control, switches, history>> /\ Shrinks /\ ~Taken(f)
        /\ f.pc \notin TokenLabels /\ Done(p)
    BY <1>3 DEF LogoutExpire, switches, tunables, ExpireSession, Without, Shrinks, Taken,
       At, TokenLabels
  <2> QED BY <2>1, DoneQuiet DEF Kind
<1> QED BY <1>1, <1>2, <1>3

\* There is no other kind of step.
LEMMA ServeKinds ==
    ASSUME IInv, HInv, NEW p \in Requests, Serve(p)
    PROVE  Kind(p) \/ UNCHANGED vars
BY AuthorizeKinds, TokenKinds, LoginKinds, ConsentKinds, CompleteKinds, AssertKinds,
   SsoKinds, LogoutKinds DEF Serve, Refuse

-----------------------------------------------------------------------------
(* The handles, step by step.                                              *)

\* The frames after a request has moved.
LEMMA OneFrameMoves ==
    ASSUME IInv, NEW p \in Requests, NEW g, Advance(p, g)
    PROVE  \A q \in Requests : req'[q] = IF q = p THEN g ELSE req[q]
BY DEF Advance, Become, IInv, TypeOK

\* A step of one request leaves every note in order.
LEMMA NotesKept ==
    ASSUME IInv, HInv, NEW p \in Requests, NEW g, Advance(p, g)
    PROVE  NotesOK'
<1>1. SwitchedOff' = SwitchedOff
  BY DEF Advance, switches, SwitchedOff
<1>2. \A q \in Requests : NoteOK(req'[q])
  BY OneFrameMoves DEF Advance, HInv, NotesOK
<1> QED BY <1>1, <1>2 DEF NotesOK, NoteOK

\* Rows under the next handle, in one table; everything else shrinks.
Gains(row) ==
    /\ row.id = nextID
    /\ \/ /\ pending' \subseteq pending \cup {row} /\ codes' \subseteq codes
          /\ refresh' \subseteq refresh /\ sessions' \subseteq sessions
       \/ /\ codes' \subseteq codes \cup {row} /\ pending' \subseteq pending
          /\ refresh' \subseteq refresh /\ sessions' \subseteq sessions
       \/ /\ refresh' \subseteq refresh \cup {row} /\ pending' \subseteq pending
          /\ codes' \subseteq codes /\ sessions' \subseteq sessions
       \/ /\ sessions' \subseteq sessions \cup {row} /\ pending' \subseteq pending
          /\ codes' \subseteq codes /\ refresh' \subseteq refresh

\* A row joins a table of distinct rows under a handle that none of them has.
LEMMA DistinctGains ==
    ASSUME NEW t, NEW u, NEW row, Distinct(t), \A x \in t : x.id # row.id,
           u \subseteq t \cup {row}
    PROVE  Distinct(u)
BY DEF Distinct

\* So do two disjoint tables stay disjoint.
LEMMA DisjointGains ==
    ASSUME NEW s, NEW t, NEW u, NEW v, NEW row, Disjoint(s, t),
           \A x \in s \cup t : x.id # row.id,
           \/ u \subseteq s \cup {row} /\ v \subseteq t
           \/ u \subseteq s /\ v \subseteq t \cup {row}
    PROVE  Disjoint(u, v)
BY DEF Disjoint

\* Handles below the next one.
LEMMA HandlesTyped ==
    ASSUME IInv, HInv
    PROVE  /\ nextID \in Nat \ {0}
           /\ \A h \in Stored \cup expired : h \in Nat \ {0} /\ h # nextID
           /\ \A row \in Rows : row.id \in Stored
           /\ \A p \in Requests : req[p].h \in Nat /\ req[p].h < nextID
           /\ \A e \in issued : e.from \in Nat /\ e.to \in Nat
<1>1. nextID \in Nat \ {0} /\ expired \subseteq Nat \ {0}
  BY DEF IInv, TypeOK, RuntimeTypeOK, Handle
<1>2. Stored \subseteq Nat \ {0}
  BY DEF IInv, TypeOK, RuntimeTypeOK, Handle, Stored, IDs, Pending, AuthCode, Refresh,
     LoginSession
<1>3. \A row \in Rows : row.id \in Stored
  BY DEF Rows, Grants, Stored, IDs
<1>4. \A p \in Requests : req[p].h \in Nat /\ req[p].h < nextID
  BY DEF IInv, TypeOK, Frame, HInv, Below
<1>5. \A e \in issued : e.from \in Nat /\ e.to \in Nat
  BY DEF IInv, TypeOK, Issue, Handle
<1> QED BY <1>1, <1>2, <1>3, <1>4, <1>5 DEF HInv, Below

\* Storing one row under the next handle keeps handles apart.
LEMMA GainsKeep ==
    ASSUME IInv, HInv, NEW row, Gains(row)
    PROVE  /\ Apart'
           /\ Stored' \subseteq Stored \cup {nextID}
           /\ \A x \in pending' : x \in pending \/ x.id = nextID
           /\ \A x \in refresh' : x \in refresh \/ x.id = nextID
<1>1. \A x \in Rows : x.id # row.id
  BY HandlesTyped DEF Gains
<1>2. /\ \A x \in pending : x.id # row.id
      /\ \A x \in codes : x.id # row.id
      /\ \A x \in refresh : x.id # row.id
      /\ \A x \in sessions : x.id # row.id
  BY <1>1 DEF Rows, Grants
<1>3. /\ Distinct(pending)' /\ Distinct(codes)' /\ Distinct(refresh)' /\ Distinct(sessions)'
  <2>1. /\ pending' \subseteq pending \cup {row} /\ codes' \subseteq codes \cup {row}
        /\ refresh' \subseteq refresh \cup {row} /\ sessions' \subseteq sessions \cup {row}
    BY DEF Gains
  <2>2. Distinct(pending) /\ Distinct(codes) /\ Distinct(refresh) /\ Distinct(sessions)
    BY DEF HInv, Apart
  <2>3. Distinct(pending') /\ Distinct(codes') /\ Distinct(refresh') /\ Distinct(sessions')
    BY <1>2, <2>1, <2>2, DistinctGains
  <2> QED BY <2>3 DEF Distinct
<1>4. /\ Disjoint(pending', codes') /\ Disjoint(pending', refresh')
      /\ Disjoint(pending', sessions') /\ Disjoint(codes', refresh')
      /\ Disjoint(codes', sessions') /\ Disjoint(refresh', sessions')
  BY <1>2 DEF HInv, Apart, Gains, Disjoint
<1>5. Apart'
  BY <1>3, <1>4 DEF Apart, Disjoint
<1>6. Stored' \subseteq Stored \cup {nextID}
  BY DEF Gains, Stored, IDs
<1> QED BY <1>5, <1>6 DEF Gains

\* Removing rows keeps handles apart.
LEMMA ShrinksKeep ==
    ASSUME HInv, Shrinks
    PROVE  Apart' /\ Stored' \subseteq Stored
<1>1. Apart'
  BY DEF HInv, Shrinks, Apart, Distinct, Disjoint
<1> QED BY <1>1 DEF Shrinks, Stored, IDs

\* What the frames say of their rows survives a step of one request.
LEMMA HoldsKept ==
    ASSUME IInv, HInv, NEW p \in Requests, NEW g, Advance(p, g),
           \A x \in pending' : x \in pending \/ x.id = nextID,
           \A x \in refresh' : x \in refresh \/ x.id = nextID
    PROVE  HoldsOK'
<1>1. ASSUME NEW q \in Requests
      PROVE  HoldOK(req'[q], pending', refresh')
  <2>1. CASE q = p
    BY <2>1, OneFrameMoves DEF Advance
  <2>2. CASE q # p
    <3>1. req'[q] = req[q] /\ HoldOK(req[q], pending, refresh)
      BY <2>2, OneFrameMoves DEF HInv, HoldsOK
    <3>2. req[q].h # nextID
      BY HandlesTyped
    <3> QED BY <3>1, <3>2 DEF HoldOK, IDs
  <2> QED BY <2>1, <2>2
<1>2. minimumGeneration' = minimumGeneration
  BY DEF Advance, control
<1> QED BY <1>1, <1>2 DEF HoldsOK, HoldOK, IDs, Revoked, UserUsable

\* Every handle in use stays below the next one.
LEMMA BelowKept ==
    ASSUME IInv, HInv, NEW p \in Requests, NEW g, Advance(p, g),
           \/ nextID' = nextID /\ Stored' \subseteq Stored
           \/ Fresh /\ Stored' \subseteq Stored \cup {nextID},
           \A e \in issued' : e \in issued \/ (e.from < nextID' /\ e.to < nextID')
    PROVE  Below'
<1>1. nextID \in Nat /\ nextID' \in Nat /\ nextID <= nextID' /\ expired' = expired
  BY HandlesTyped DEF Fresh, Advance, control
<1>2. \A h \in Stored' \cup expired' : h < nextID'
  BY <1>1, HandlesTyped DEF HInv, Below, Fresh
<1>3. \A q \in Requests : req'[q].h < nextID'
  BY <1>1, HandlesTyped, OneFrameMoves DEF Advance
<1>4. \A e \in issued' : e.from < nextID' /\ e.to < nextID'
  BY <1>1, HandlesTyped DEF HInv, Below
<1> QED BY <1>2, <1>3, <1>4 DEF Below

\* A handle that was stored in one table and is removed from it is gone.
LEMMA RemovedIsGone ==
    ASSUME IInv, HInv, NEW h \in Nat, h # nextID,
           \/ h \in IDs(pending) /\ TakePending(h) /\ UNCHANGED <<codes, refresh, sessions>>
           \/ h \in IDs(codes) /\ TakeCode(h) /\ UNCHANGED <<pending, refresh, sessions>>
           \/ /\ h \in IDs(refresh) /\ UNCHANGED <<pending, codes, sessions>>
              /\ \E row : row.id = nextID /\ refresh' = Without(refresh, h) \cup {row}
    PROVE  h \in Stored /\ h \notin Stored'
<1>1. h \in Stored
  BY DEF Stored
<1>2. CASE h \in IDs(pending) /\ TakePending(h) /\ UNCHANGED <<codes, refresh, sessions>>
  BY <1>2 DEF HInv, Apart, Disjoint, Stored, IDs, TakePending, Without
<1>3. CASE h \in IDs(codes) /\ TakeCode(h) /\ UNCHANGED <<pending, refresh, sessions>>
  BY <1>3 DEF HInv, Apart, Disjoint, Stored, IDs, TakeCode, Without
<1>4. CASE /\ h \in IDs(refresh) /\ UNCHANGED <<pending, codes, sessions>>
           /\ \E row : row.id = nextID /\ refresh' = Without(refresh, h) \cup {row}
  BY <1>4 DEF HInv, Apart, Disjoint, Stored, IDs, Without
<1> QED BY <1>1, <1>2, <1>3, <1>4

\* A quiet step keeps the invariant.
LEMMA QuietKeeps ==
    ASSUME IInv, HInv, NEW p \in Requests, NEW g, Quiet(p, g)
    PROVE  HInv'
<1>1. Advance(p, g) /\ Shrinks /\ nextID' = nextID /\ issued' = issued
  BY DEF Quiet, history
<1>2. Apart' /\ Stored' \subseteq Stored
  BY <1>1, ShrinksKeep
<1>3. HoldsOK'
  BY <1>1, HoldsKept DEF Shrinks
<1>4. Below'
  BY <1>1, <1>2, BelowKept
<1>5. \A q \in Requests : Taken(req'[q]) => Taken(req[q]) /\ req'[q].h = req[q].h
  BY <1>1, OneFrameMoves DEF Quiet
<1>6. Spent'
  BY <1>1, <1>2, <1>5 DEF HInv, Spent, SingleUse, Taken
<1> QED BY <1>1, <1>2, <1>3, <1>4, <1>6, NotesKept DEF HInv

\* So does a claim: the handle leaves the tables as it enters the frame.
LEMMA ClaimKeeps ==
    ASSUME IInv, HInv, NEW p \in Requests, NEW g, Claims(p, g)
    PROVE  HInv'
<1>1. /\ Advance(p, g) /\ Shrinks /\ nextID' = nextID /\ issued' = issued
      /\ ~Taken(req[p]) /\ Taken(g) /\ g.h \in Nat
  BY RuntimeRemoves DEF Claims, history, Shrinks, Advance
<1>2. Apart' /\ Stored' \subseteq Stored
  BY <1>1, ShrinksKeep
<1>3. HoldsOK'
  BY <1>1, HoldsKept DEF Shrinks
<1>4. Below'
  BY <1>1, <1>2, BelowKept
<1>5. g.h \in Stored /\ g.h \notin Stored'
  <2>1. g.h # nextID
    BY <1>1, HandlesTyped DEF Advance
  <2>2. /\ g.h \in IDs(Unexpired(pending)) => g.h \in IDs(pending)
        /\ g.h \in IDs(Unexpired(codes)) => g.h \in IDs(codes)
    BY DEF IDs, Unexpired
  <2> QED BY <1>1, <2>1, <2>2, RemovedIsGone DEF Claims
<1>6. g.h # 0
  BY <1>5, HandlesTyped
<1>7. \A q \in Requests : req'[q] = IF q = p THEN g ELSE req[q]
  BY <1>1, OneFrameMoves
<1>8. \A q \in Requests : Taken(req'[q]) =>
         /\ req'[q].h # 0 /\ req'[q].h \notin Stored'
         /\ \A e \in issued : e.from # req'[q].h
  BY <1>1, <1>2, <1>5, <1>6, <1>7 DEF HInv, Spent
<1>9. \A q, r \in Requests :
         Taken(req'[q]) /\ Taken(req'[r]) /\ req'[q].h = req'[r].h => q = r
  BY <1>5, <1>7 DEF HInv, Spent
<1>10. Spent'
  BY <1>1, <1>2, <1>8, <1>9 DEF HInv, Spent, SingleUse, Taken
<1> QED BY <1>1, <1>2, <1>3, <1>4, <1>10, NotesKept DEF HInv

\* So does storing a pending request or a session.
LEMMA AdmitKeeps ==
    ASSUME IInv, HInv, NEW p \in Requests, NEW g, Admits(p, g)
    PROVE  HInv'
<1>1. /\ Advance(p, g) /\ Fresh /\ issued' = issued /\ ~Taken(g)
  BY DEF Admits
<1>2. Gains(PendingRow(req[p])) \/ Gains(SessionRow(req[p]))
  BY DEF Admits, PutPending, PutSession, Unexpired, Gains, PendingRow, SessionRow
<1>3. /\ Apart' /\ Stored' \subseteq Stored \cup {nextID}
      /\ \A x \in pending' : x \in pending \/ x.id = nextID
      /\ \A x \in refresh' : x \in refresh \/ x.id = nextID
  BY <1>2, GainsKeep
<1>4. HoldsOK'
  BY <1>1, <1>3, HoldsKept
<1>5. Below'
  BY <1>1, <1>3, BelowKept
<1>6. \A q \in Requests : Taken(req'[q]) => q # p /\ req'[q] = req[q]
  BY <1>1, OneFrameMoves
<1>7. \A e \in issued : e.from \notin Stored'
  BY <1>3, HandlesTyped DEF HInv, Below, Spent
<1>8. Spent'
  BY <1>1, <1>3, <1>6, <1>7, HandlesTyped DEF HInv, Spent, SingleUse, Taken
<1> QED BY <1>1, <1>3, <1>4, <1>5, <1>8, NotesKept DEF HInv

\* An answer stores at most one row, and what it was given in exchange for
\* was presentable until now and is not any more.
LEMMA AnswerSpends ==
    ASSUME IInv, HInv, NEW p \in Requests, Answers(p)
    PROVE  \E from \in Nat :
             /\ Deliver(from, req[p]) /\ from < nextID
             /\ \A e \in issued : e.from = from => from = 0
             /\ \A q \in Requests : q # p /\ Taken(req[q]) => req[q].h # from
             /\ from \notin Stored'
             /\ Apart' /\ Stored' \subseteq Stored \cup {nextID}
             /\ \A x \in pending' : x \in pending \/ x.id = nextID
             /\ \A x \in refresh' : x \in refresh \/ x.id = nextID
<1> DEFINE f == req[p]
<1>0. f.h \in Nat /\ f.h < nextID /\ nextID \in Nat \ {0} /\ f.h # nextID
  BY HandlesTyped
<1>1. CASE AnswersAtOnce(p)
  <2>1. Gains(CodeRow(f))
    BY <1>1 DEF AnswersAtOnce, PutCode, Unexpired, Gains, CodeRow
  <2>2. /\ Apart' /\ Stored' \subseteq Stored \cup {nextID}
        /\ \A x \in pending' : x \in pending \/ x.id = nextID
        /\ \A x \in refresh' : x \in refresh \/ x.id = nextID
    BY <2>1, GainsKeep
  <2>3. 0 \notin Stored'
    BY <1>0, <2>2, HandlesTyped
  <2>4. \A q \in Requests : Taken(req[q]) => req[q].h # 0
    BY DEF HInv, Spent
  <2> QED BY <1>0, <1>1, <2>2, <2>3, <2>4 DEF AnswersAtOnce
<1>2. CASE AnswersClaim(p)
  <2>1. Gains(CodeRow(f))
    BY <1>2 DEF AnswersClaim, PutCode, PutRefresh, Unexpired, Gains, CodeRow
  <2>2. /\ Apart' /\ Stored' \subseteq Stored \cup {nextID}
        /\ \A x \in pending' : x \in pending \/ x.id = nextID
        /\ \A x \in refresh' : x \in refresh \/ x.id = nextID
    BY <2>1, GainsKeep
  <2>3. /\ f.h \notin Stored /\ \A e \in issued : e.from # f.h
        /\ \A q \in Requests : q # p /\ Taken(req[q]) => req[q].h # f.h
    BY <1>2 DEF AnswersClaim, HInv, Spent
  <2> QED BY <1>0, <1>2, <2>2, <2>3 DEF AnswersClaim
<1>3. ASSUME f.h \in Stored
      PROVE  /\ \A e \in issued : e.from # f.h
             /\ \A q \in Requests : q # p /\ Taken(req[q]) => req[q].h # f.h
  BY <1>3 DEF HInv, Spent
<1>4. CASE AnswersRotating(p)
  <2>1. Gains(CodeRow(f))
    BY <1>4 DEF AnswersRotating, RotateRefresh, Without, Gains, CodeRow
  <2>2. /\ Apart' /\ Stored' \subseteq Stored \cup {nextID}
        /\ \A x \in pending' : x \in pending \/ x.id = nextID
        /\ \A x \in refresh' : x \in refresh \/ x.id = nextID
    BY <2>1, GainsKeep
  <2>3. f.h \in Stored /\ f.h \notin Stored'
    BY <1>0, <1>4, RemovedIsGone DEF AnswersRotating, RotateRefresh, CanRotate, CodeRow
  <2> QED BY <1>0, <1>3, <1>4, <2>2, <2>3 DEF AnswersRotating
<1>5. CASE AnswersPending(p)
  <2>1. Shrinks
    BY <1>5, RuntimeRemoves DEF AnswersPending, Shrinks
  <2>2. f.h \in IDs(pending)
    BY <1>5 DEF AnswersPending, IDs, Unexpired
  <2>3. f.h \in Stored /\ f.h \notin Stored'
    BY <1>0, <1>5, <2>2, RemovedIsGone DEF AnswersPending
  <2> QED BY <1>0, <1>3, <1>5, <2>1, <2>3, ShrinksKeep DEF AnswersPending, Shrinks
<1> QED BY <1>1, <1>2, <1>4, <1>5 DEF Answers

\* Answering keeps the invariant.
LEMMA AnswerKeeps ==
    ASSUME IInv, HInv, NEW p \in Requests, Answers(p)
    PROVE  HInv'
<1>1. Advance(p, Idle) /\ Fresh /\ ~Taken(Idle)
  BY DEF Answers, Idle, Taken
<1>2. PICK from \in Nat :
        /\ Deliver(from, req[p]) /\ from < nextID
        /\ \A e \in issued : e.from = from => from = 0
        /\ \A q \in Requests : q # p /\ Taken(req[q]) => req[q].h # from
        /\ from \notin Stored'
        /\ Apart' /\ Stored' \subseteq Stored \cup {nextID}
        /\ \A x \in pending' : x \in pending \/ x.id = nextID
        /\ \A x \in refresh' : x \in refresh \/ x.id = nextID
  BY AnswerSpends
<1> DEFINE new == [from |-> from, to |-> nextID, user |-> req[p].user,
                   client |-> req[p].client, mfa |-> req[p].mfa]
<1>3. issued' = issued \cup {new} /\ new.from = from /\ new.to = nextID
  BY <1>2 DEF Deliver
<1> HIDE DEF new
<1>4. HoldsOK'
  BY <1>1, <1>2, HoldsKept
<1>5. nextID \in Nat /\ nextID < nextID' /\ from < nextID'
  BY <1>1, <1>2, HandlesTyped DEF Fresh
<1>6. Below'
  BY <1>1, <1>2, <1>3, <1>5, BelowKept
<1>7. \A q \in Requests : Taken(req'[q]) => q # p /\ req'[q] = req[q]
  BY <1>1, OneFrameMoves
<1>8. \A e \in issued' : e.from \notin Stored'
  BY <1>2, <1>3, HandlesTyped DEF HInv, Below, Spent
<1>9. SingleUse'
  BY <1>2, <1>3 DEF HInv, Spent, SingleUse
<1>10. \A q \in Requests : Taken(req'[q]) =>
         /\ req'[q].h # 0 /\ req'[q].h \notin Stored'
         /\ \A e \in issued' : e.from # req'[q].h
  BY <1>2, <1>3, <1>7, HandlesTyped DEF HInv, Spent
<1>11. Spent'
  BY <1>7, <1>8, <1>9, <1>10 DEF HInv, Spent, Taken
<1> QED BY <1>1, <1>2, <1>4, <1>6, <1>11, NotesKept DEF HInv

-----------------------------------------------------------------------------
(* Steps outside the requests.                                             *)

\* Noting a switch changes nothing else in a frame, and leaves every note in
\* order.
LEMMA NoteSwitchesFields ==
    ASSUME IInv, NoteSwitches
    PROVE  \A p \in Requests :
             /\ req'[p].pc = req[p].pc /\ req'[p].h = req[p].h /\ req'[p].via = req[p].via
             /\ req'[p].user = req[p].user /\ req'[p].client = req[p].client
             /\ req'[p].mfa = req[p].mfa /\ req'[p].snap = req[p].snap
             /\ req[p].off \subseteq req'[p].off
             /\ req[p].pc # "idle" => SwitchedOff' \subseteq req'[p].off
<1> SUFFICES ASSUME NEW p \in Requests
             PROVE  /\ req'[p].pc = req[p].pc /\ req'[p].h = req[p].h
                    /\ req'[p].via = req[p].via
                    /\ req'[p].user = req[p].user /\ req'[p].client = req[p].client
                    /\ req'[p].mfa = req[p].mfa /\ req'[p].snap = req[p].snap
                    /\ req[p].off \subseteq req'[p].off
                    /\ req[p].pc # "idle" => SwitchedOff' \subseteq req'[p].off
  OBVIOUS
<1>1. req[p] \in Frame
  BY DEF IInv, TypeOK
<1>2. CASE At(p, "idle")
  BY <1>2 DEF NoteSwitches, At
<1>3. CASE ~At(p, "idle")
  <2> DEFINE off == req[p].off \cup SwitchedOff'
  <2>1. req'[p] = [req[p] EXCEPT !.off = off]
    BY <1>3 DEF NoteSwitches
  <2>2. req[p].off \subseteq off /\ SwitchedOff' \subseteq off
    OBVIOUS
  <2> HIDE DEF off
  <2> QED BY <1>1, <2>1, <2>2 DEF Frame
<1> QED BY <1>2, <1>3

\* A configuration step or an operator step: no row is stored, nothing is
\* issued, a bound that moves leaves no pending request and no grant, and a
\* snapshot that is published or a tunable that moves leaves the tables alone.
Outside ==
    /\ Shrinks /\ UNCHANGED history
    /\ expired \subseteq expired' /\ expired' \subseteq expired \cup Stored
    /\ active' # active => UNCHANGED <<tables, expired>>
    /\ \/ minimumGeneration' = minimumGeneration
       \/ pending' = {} /\ refresh' = {}
    /\ \/ UNCHANGED <<req, switches>>
       \/ NoteSwitches /\ UNCHANGED tables

\* Such a step keeps the invariant.
LEMMA OutsideKeeps ==
    ASSUME IInv, HInv, Outside
    PROVE  HInv'
<1>1. Shrinks /\ nextID' = nextID /\ issued' = issued
  BY DEF Outside, history
<1>2. Apart' /\ Stored' \subseteq Stored
  BY <1>1, ShrinksKeep
<1>3. \A p \in Requests :
        /\ req'[p].pc = req[p].pc /\ req'[p].h = req[p].h /\ req'[p].via = req[p].via
        /\ req'[p].user = req[p].user /\ req'[p].client = req[p].client
        /\ req'[p].snap = req[p].snap
        /\ req[p].off \subseteq req'[p].off
        /\ req[p].pc # "idle" => SwitchedOff' \subseteq req'[p].off
  <2>1. CASE UNCHANGED <<req, switches>>
    <3>1. SwitchedOff' = SwitchedOff
      BY <2>1 DEF switches, SwitchedOff
    <3> QED BY <2>1, <3>1 DEF HInv, NotesOK, NoteOK
  <2>2. CASE NoteSwitches
    BY <2>2, NoteSwitchesFields
  <2> QED BY <2>1, <2>2 DEF Outside
<1>4. NotesOK'
  BY <1>3 DEF HInv, NotesOK, NoteOK
<1>5. HoldsOK'
  <2>1. ASSUME NEW p \in Requests
        PROVE  HoldOK(req[p], pending, refresh)'
    <3>1. HoldOK(req[p], pending, refresh)
      BY DEF HInv, HoldsOK
    <3> QED BY <1>1, <1>3, <3>1 DEF HoldOK, Outside, Shrinks, IDs, Revoked, UserUsable
  <2> QED BY <2>1 DEF HoldsOK
<1>6. Below'
  BY <1>1, <1>2, <1>3 DEF HInv, Below, Outside
<1>7. Spent'
  BY <1>1, <1>2, <1>3 DEF HInv, Spent, SingleUse, Taken
<1> QED BY <1>2, <1>4, <1>5, <1>6, <1>7 DEF HInv

\* Apply, Reset and the operator only ever take such steps.
LEMMA OutsideSteps ==
    ASSUME IInv, Configuration \/ Operator
    PROVE  Outside
<1>1. ASSUME NEW d \in Docs, Apply(d) PROVE Outside
  BY <1>1 DEF Apply, Outside, Shrinks, tables, tunables, switches, untouched, history
<1>2. ASSUME NEW d \in Docs, ResetState(d) PROVE Outside
  BY <1>2 DEF ResetState, Outside, Shrinks, tables, tunables, switches, untouched, history
<1>3. CASE ApplyInvalidate \/ ResetInvalidate
  BY <1>3 DEF ApplyInvalidate, ResetInvalidate, InvalidateBefore, purgeProtocolLocked,
     Outside, Shrinks, tunables, switches, untouched, history
<1>4. CASE ApplySync
  BY <1>4 DEF ApplySync, ExpireIncompleteMFA, Outside, Shrinks, tables, tunables, switches,
     untouched, history
<1>5. CASE ApplySwap \/ ResetSwap
  BY <1>5 DEF ApplySwap, ResetSwap, Outside, Shrinks, tables, tunables, switches,
     untouched, history
<1>6. CASE ResetRuntime
  <2>1. Rows = {}
    BY <1>6 DEF ResetRuntime, IInv, TypeOK, RuntimeTypeOK, Snapshot, MgrOK, RowsCurrent, Rows,
       Grants, Pending, AuthCode, Refresh, LoginSession
  <2> QED BY <1>6, <2>1 DEF Rows, Grants, ResetRuntime, Reset, purgeProtocolLocked, Outside,
             Shrinks, tables, untouched, history
<1>7. ASSUME NEW h \in IDs(sessions), OperatorExpireSession(h) PROVE Outside
  BY <1>7 DEF OperatorExpireSession, ExpireSession, Without, Outside, Shrinks, tunables,
     switches, elsewhere, history
<1>8. CASE ExpireAllSessions
  BY <1>8 DEF ExpireAllSessions, ExpireAll, Outside, Shrinks, tunables, switches,
     elsewhere, history
<1>9. CASE OperatorListSessions
  BY <1>9 DEF OperatorListSessions, ListSessions, Unexpired, Outside, Shrinks, tunables,
     switches, elsewhere, history
<1>10. CASE SetTunables
  BY <1>10 DEF SetTunables, Outside, Shrinks, tables, elsewhere, history
<1>11. ASSUME NEW h \in Stored, Lapse(h) PROVE Outside
  BY <1>11 DEF Lapse, Outside, Shrinks, tables, tunables, switches, elsewhere, history
<1> QED
  BY <1>1, <1>2, <1>3, <1>4, <1>5, <1>6, <1>7, <1>8, <1>9, <1>10, <1>11
     DEF Configuration, Operator

-----------------------------------------------------------------------------
(* The handle invariant holds.                                             *)

\* Every step is one of the kinds, an outside step, or a stutter.
LEMMA NextKinds ==
    ASSUME IInv, HInv, [Next]_vars
    PROVE  (\E p \in Requests : Kind(p)) \/ Outside
<1>1. CASE UNCHANGED vars
  BY <1>1 DEF vars, runtimeVars, tables, tunables, Outside, Shrinks, switches, history
<1> QED BY <1>1, ServeKinds, OutsideSteps DEF Next

\* The handle invariant holds after bootstrap ...
LEMMA HandlesInit == Init => HInv
<1> SUFFICES ASSUME Init PROVE HInv
  OBVIOUS
<1>1. \A p \in Requests : req[p].pc = "idle" /\ req[p].h = 0
  BY DEF Init, Idle
<1>2. Stored = {} /\ expired = {} /\ issued = {} /\ nextID = 1 /\ pending = {} /\ refresh = {}
  BY DEF Init, NewRuntime, Stored, IDs
<1>3. NotesOK /\ HoldsOK
  BY <1>1 DEF NotesOK, NoteOK, HoldsOK, HoldOK, GrantLabels
<1>4. Below
  BY <1>1, <1>2 DEF Below
<1>5. Apart
  BY DEF Init, NewRuntime, Apart, Distinct, Disjoint
<1>6. Spent
  BY <1>1, <1>2 DEF Spent, SingleUse, Taken
<1> QED BY <1>3, <1>4, <1>5, <1>6 DEF HInv

\* ... and is preserved, given the invariant of DataPlane_proofs.
LEMMA HandlesStep == IInv /\ HInv /\ [Next]_vars => HInv'
<1> SUFFICES ASSUME IInv, HInv, [Next]_vars PROVE HInv'
  OBVIOUS
<1> QED BY NextKinds, QuietKeeps, ClaimKeeps, AdmitKeeps, AnswerKeeps, OutsideKeeps DEF Kind

\* Handles are never confused: in every reachable state each names at most one
\* row, a taken one belongs to one request, and a spent one to nobody.
THEOREM HandlesHold == Spec => []HInv
BY Invariance, HandlesInit, HandlesStep, PTL DEF Spec

\* A pending request, a code and a refresh grant are each answered at most
\* once, however many requests present it and however they interleave.
THEOREM AnsweredOnce == Spec => []SingleUse
<1>1. HInv => SingleUse
  BY DEF HInv, Spent
<1> QED BY <1>1, HandlesHold, PTL

-----------------------------------------------------------------------------
(* What a step may never do.                                               *)

\* Of all frames a request's step moves its own.
LEMMA OthersStay ==
    ASSUME IInv, NEW p \in Requests, Kind(p), NEW q \in Requests, req'[q] # req[q]
    PROVE  q = p
<1>1. \E g : Become(p, g)
  BY DEF Kind, Quiet, Claims, Admits, Answers, Advance
<1> QED BY <1>1 DEF Become, IInv, TypeOK

\* Only an answer delivers, and what it delivers is new.
LEMMA OnlyAnswersDeliver ==
    ASSUME HInv, NEW p \in Requests, Kind(p), ~Answers(p)
    PROVE  issued' = issued
BY DEF Kind, Quiet, Claims, Admits, history

\* What an answer delivers is in the name of the request's user, and new.
LEMMA AnswerDelivers ==
    ASSUME IInv, HInv, NEW p \in Requests, Answers(p)
    PROVE  \E e : /\ issued' \ issued = {e} /\ issued' = issued \cup {e}
                  /\ e.to = nextID /\ e.user = req[p].user
                  /\ e.client = req[p].client /\ e.mfa = req[p].mfa
                  /\ \/ AnswersAtOnce(p) /\ e.from = 0
                     \/ ~AnswersAtOnce(p) /\ e.from = req[p].h
                  /\ e = [from |-> e.from, to |-> e.to, user |-> e.user,
                          client |-> e.client, mfa |-> e.mfa]
<1> DEFINE from == IF AnswersAtOnce(p) THEN 0 ELSE req[p].h
           e == [from |-> from, to |-> nextID, user |-> req[p].user,
                 client |-> req[p].client, mfa |-> req[p].mfa]
<1>1. Deliver(from, req[p])
  BY DEF Answers, AnswersAtOnce, AnswersClaim, AnswersRotating, AnswersPending
<1>2. issued' = issued \cup {e}
  BY <1>1 DEF Deliver
<1>3. e \notin issued
  BY HandlesTyped DEF HInv, Below
<1>4. issued' \ issued = {e}
  BY <1>2, <1>3
<1> QED BY <1>2, <1>4

\* In a user's name nothing is delivered that the policy in force forbids.
LEMMA AnswersRightly ==
    ASSUME NEW p \in Requests, Answers(p), req[p].user # None
    PROVE  Rightly(req[p])
BY DEF Answers, AnswersAtOnce, AnswersClaim, AnswersRotating, AnswersPending

\* When a code, a token set or an assertion is delivered, the configuration
\* that is active at that moment admits its user, client and MFA state,
\* although the handler checked them against a snapshot captured earlier.
THEOREM DeliveredUnderPolicy == Spec => IssuedUnderPolicy
<1>1. ASSUME IInv, HInv, [Next]_vars, NEW e \in issued' \ issued, e.user # None
      PROVE  /\ UserUsable(active, e.user) /\ SessionUsable(active, e.mfa)
             /\ e.client \in active.doc.clients
  <2>1. PICK p \in Requests : Kind(p)
    BY <1>1, NextKinds DEF Outside, history
  <2>2. Answers(p)
    BY <1>1, <2>1, OnlyAnswersDeliver
  <2>3. e.user = req[p].user /\ e.client = req[p].client /\ e.mfa = req[p].mfa
    BY <1>1, <2>2, AnswerDelivers
  <2> QED BY <1>1, <2>2, <2>3, AnswersRightly DEF Rightly, HolderOK
<1>2. IInv /\ HInv /\ [Next]_vars =>
        [\A e \in issued' \ issued :
           e.user # None =>
             /\ UserUsable(active, e.user) /\ SessionUsable(active, e.mfa)
             /\ e.client \in active.doc.clients]_vars
  BY <1>1
<1> QED BY <1>2, Invariance, HandlesHold, PTL DEF Spec, IssuedUnderPolicy

\* A request whose snapshot was revoked stores no row and delivers nothing in
\* a user's name, at whatever point of its handler the revocation finds it.
THEOREM StaleRequestsInert == Spec => StaleInert
<1>1. ASSUME IInv, HInv, [Next]_vars, NEW p \in Requests,
             ~GenerationUsable(req[p].snap.gen), req'[p] # req[p]
      PROVE  Shrinks /\ \A e \in issued' \ issued : e.user = None
  <2>1. CASE Outside
    BY <2>1 DEF Outside, history
  <2>2. CASE Kind(p) /\ ~Answers(p)
    <3>1. issued' = issued
      BY <1>1, <2>2, OnlyAnswersDeliver
    <3>2. Shrinks
      BY <1>1, <2>2, RuntimeRemoves DEF Kind, Quiet, Claims, Shrinks, Admits, PutPending,
         PutSession, PendingRow, SessionRow
    <3> QED BY <3>1, <3>2
  <2>3. CASE Answers(p)
    <3>1. AnswersPending(p) /\ req[p].user = None
      BY <1>1, <2>3 DEF Answers, AnswersAtOnce, AnswersClaim, AnswersRotating,
         AnswersPending, Rightly
    <3>2. Shrinks
      BY <3>1, RuntimeRemoves DEF AnswersPending, Shrinks
    <3> QED BY <1>1, <2>3, <3>1, <3>2, AnswerDelivers
  <2> QED BY <1>1, <2>1, <2>2, <2>3, NextKinds, OthersStay
<1>2. IInv /\ HInv /\ [Next]_vars =>
        [\A p \in Requests :
           /\ req[p].pc # "idle" /\ ~GenerationUsable(req[p].snap.gen)
           /\ req'[p] # req[p]
           => /\ pending' \subseteq pending /\ codes' \subseteq codes
              /\ refresh' \subseteq refresh /\ sessions' \subseteq sessions
              /\ \A e \in issued' \ issued : e.user = None]_vars
  BY <1>1 DEF Shrinks
<1> QED BY <1>2, Invariance, HandlesHold, PTL DEF Spec, StaleInert

\* A token request costs the client its refresh grant only by replacing it,
\* unless the grant has run out or its user is no longer enabled.
THEOREM GrantsSurviveFailures == Spec => RefreshKept
<1>1. ASSUME IInv, HInv, [Next]_vars, NEW p \in Requests, NEW row \in refresh \ refresh',
             req[p].pc \in TokenLabels, req'[p] # req[p],
             row.id \notin expired, UserUsable(active, row.user)
      PROVE  \E e \in issued' \ issued : e.from = row.id
  <2>1. Kind(p)
    <3>1. ~Outside
      BY <1>1 DEF Outside, tables
    <3> QED BY <1>1, <3>1, NextKinds, OthersStay
  <2>2. Answers(p)
    BY <1>1, <2>1 DEF Kind, Quiet, Claims, Admits
  <2>3. AnswersRotating(p) /\ ~AnswersAtOnce(p)
    BY <1>1, <2>2 DEF Answers, AnswersAtOnce, AnswersClaim, AnswersPending, PutRefresh,
       Unexpired, TokenLabels
  <2>4. row.id = req[p].h
    BY <1>1, <2>3 DEF AnswersRotating, RotateRefresh, Without
  <2>5. PICK e : issued' \ issued = {e} /\ e.from = req[p].h
    BY <1>1, <2>2, <2>3, AnswerDelivers
  <2> QED BY <2>4, <2>5
<1>2. IInv /\ HInv /\ [Next]_vars =>
        [\A p \in Requests : \A row \in refresh \ refresh' :
           /\ req[p].pc \in TokenLabels /\ req'[p] # req[p]
           /\ row.id \notin expired /\ UserUsable(active, row.user)
           => \E e \in issued' \ issued : e.from = row.id]_vars
  BY <1>1
<1> QED BY <1>2, Invariance, HandlesHold, PTL DEF Spec, RefreshKept

\* A tunable that stays on from the arrival of a request to its end is obeyed,
\* although the flag is read once and long before the result is stored.
THEOREM TunablesAreObeyed == Spec => TunablesObeyed
<1>1. ASSUME IInv, HInv, [Next]_vars, NEW p \in Requests, req'[p].pc # req[p].pc
      PROVE  /\ \A e \in issued' \ issued : e.user # None => "forceFail" \in req[p].off
             /\ ~(sessions' \subseteq sessions) => "forceFail" \in req[p].off
             /\ ~(refresh' \subseteq refresh) => "paused" \in req[p].off
             /\ req[p].pc = "az_code" /\ issued' # issued => "forceConsent" \in req[p].off
  <2>1. Kind(p)
    <3>1. ~Outside
      BY <1>1, NoteSwitchesFields DEF Outside
    <3> QED BY <1>1, <3>1, NextKinds, OthersStay
  <2>2. CASE ~Answers(p)
    <3>1. issued' = issued
      BY <1>1, <2>1, <2>2, OnlyAnswersDeliver
    <3>2. ~(sessions' \subseteq sessions) => "forceFail" \in req[p].off
      BY <2>1, <2>2 DEF Kind, Quiet, Claims, Shrinks, Admits, PutPending, Unexpired
    <3>3. refresh' \subseteq refresh
      BY <2>1, <2>2 DEF Kind, Quiet, Claims, Shrinks, Admits, PutPending, PutSession,
         Unexpired
    <3> QED BY <3>1, <3>2, <3>3
  <2>3. CASE Answers(p)
    <3>1. \A e \in issued' \ issued : e.user # None => "forceFail" \in req[p].off
      BY <1>1, <2>3, AnswerDelivers, AnswersRightly DEF Rightly
    <3>2. sessions' \subseteq sessions
      BY <2>3 DEF Answers, AnswersAtOnce, AnswersClaim, AnswersRotating, AnswersPending,
         PutCode, PutRefresh, RotateRefresh, Unexpired
    <3>3. ~(refresh' \subseteq refresh) => "paused" \in req[p].off
      BY <2>3 DEF Answers, AnswersAtOnce, AnswersClaim, AnswersRotating, AnswersPending,
         PutCode, Unexpired
    <3>4. req[p].pc = "az_code" => "forceConsent" \in req[p].off
      BY <2>3 DEF Answers, AnswersAtOnce, AnswersClaim, AnswersRotating, AnswersPending,
         Taken
    <3> QED BY <3>1, <3>2, <3>3, <3>4
  <2> QED BY <2>2, <2>3
<1>2. IInv /\ HInv /\ [Next]_vars =>
        [\A p \in Requests : req'[p].pc # req[p].pc =>
           /\ \A e \in issued' \ issued : e.user # None => "forceFail" \in req[p].off
           /\ ~(sessions' \subseteq sessions) => "forceFail" \in req[p].off
           /\ ~(refresh' \subseteq refresh) => "paused" \in req[p].off
           /\ req[p].pc = "az_code" /\ issued' # issued
                => "forceConsent" \in req[p].off]_vars
  BY <1>1
<1> QED BY <1>2, Invariance, HandlesHold, PTL DEF Spec, TunablesObeyed

-----------------------------------------------------------------------------
(* The refinement.  The live tickets are the images of the unexpired rows, *)
(* table by table.                                                         *)

PendingTicket(row) ==
    TicketOf([id |-> row.id, user |-> None, client |-> row.client, mfa |-> FALSE],
             row.protocol)
SessionTicket(row) ==
    TicketOf([id |-> row.id, user |-> row.user, client |-> None, mfa |-> row.mfa], None)
PendingTickets(S) == {PendingTicket(row) : row \in S}
GrantTickets(S) == {TicketOf(row, None) : row \in S}
SessionTickets(S) == {SessionTicket(row) : row \in S}

TicketsOf(pend, cods, refr, sess) ==
    PendingTickets(pend) \cup GrantTickets(cods) \cup GrantTickets(refr)
      \cup SessionTickets(sess)

\* The live tickets, before and after a step.
LEMMA LiveIsTicketsOf ==
    /\ LiveTickets = TicketsOf(Unexpired(pending), Unexpired(codes), Unexpired(refresh),
                               Unexpired(sessions))
    /\ LiveTickets' = TicketsOf(Unexpired(pending)', Unexpired(codes)', Unexpired(refresh)',
                                Unexpired(sessions)')
<1>1. /\ Unexpired(codes \cup refresh) = Unexpired(codes) \cup Unexpired(refresh)
      /\ Unexpired(codes \cup refresh)' = Unexpired(codes)' \cup Unexpired(refresh)'
  BY DEF Unexpired
<1>2. \A S, T : GrantTickets(S \cup T) = GrantTickets(S) \cup GrantTickets(T)
  BY DEF GrantTickets
<1>3. /\ LiveTickets = PendingTickets(Unexpired(pending))
                       \cup GrantTickets(Unexpired(codes \cup refresh))
                       \cup SessionTickets(Unexpired(sessions))
      /\ LiveTickets' = PendingTickets(Unexpired(pending)')
                        \cup GrantTickets(Unexpired(codes \cup refresh)')
                        \cup SessionTickets(Unexpired(sessions)')
  BY DEF LiveTickets, PendingTickets, PendingTicket, GrantTickets, SessionTickets,
     SessionTicket
<1>4. /\ GrantTickets(Unexpired(codes \cup refresh))
           = GrantTickets(Unexpired(codes)) \cup GrantTickets(Unexpired(refresh))
      /\ GrantTickets(Unexpired(codes \cup refresh)')
           = GrantTickets(Unexpired(codes)') \cup GrantTickets(Unexpired(refresh)')
  BY <1>1, <1>2, Zenon
<1>5. \A P, C, R, S : TicketsOf(P, C, R, S) =
        PendingTickets(P) \cup (GrantTickets(C) \cup GrantTickets(R)) \cup SessionTickets(S)
  BY DEF TicketsOf
<1> QED BY <1>3, <1>4, <1>5, Zenon

\* A ticket has the handle of its row.
LEMMA TicketHandles ==
    /\ \A row : PendingTicket(row).id = row.id
    /\ \A row : TicketOf(row, None).id = row.id
    /\ \A row : SessionTicket(row).id = row.id
BY DEF PendingTicket, SessionTicket, TicketOf

\* Fewer rows, fewer tickets.
LEMMA TicketsShrink ==
    ASSUME NEW p1, NEW c1, NEW r1, NEW s1, NEW p2, NEW c2, NEW r2, NEW s2,
           p1 \subseteq p2, c1 \subseteq c2, r1 \subseteq r2, s1 \subseteq s2
    PROVE  TicketsOf(p1, c1, r1, s1) \subseteq TicketsOf(p2, c2, r2, s2)
BY DEF TicketsOf, PendingTickets, GrantTickets, SessionTickets

\* Removing the rows of a handle removes its ticket.
LEMMA TicketsWithout ==
    ASSUME NEW P, NEW C, NEW R, NEW S, NEW h
    PROVE  TicketsOf(Without(P, h), Without(C, h), Without(R, h), Without(S, h))
             = {t \in TicketsOf(P, C, R, S) : t.id # h}
<1>1. PendingTickets(Without(P, h)) = {t \in PendingTickets(P) : t.id # h}
  BY TicketHandles DEF PendingTickets, Without
<1>2. /\ GrantTickets(Without(C, h)) = {t \in GrantTickets(C) : t.id # h}
      /\ GrantTickets(Without(R, h)) = {t \in GrantTickets(R) : t.id # h}
  BY TicketHandles DEF GrantTickets, Without
<1>3. SessionTickets(Without(S, h)) = {t \in SessionTickets(S) : t.id # h}
  BY TicketHandles DEF SessionTickets, Without
<1> QED BY <1>1, <1>2, <1>3 DEF TicketsOf

\* The handles of the tickets are those of the rows.
LEMMA TicketsHandles ==
    ASSUME NEW P, NEW C, NEW R, NEW S
    PROVE  \A h : h \in {t.id : t \in TicketsOf(P, C, R, S)} <=>
                    h \in IDs(P) \cup IDs(C) \cup IDs(R) \cup IDs(S)
<1>1. {t.id : t \in PendingTickets(P)} = IDs(P)
  BY TicketHandles DEF PendingTickets, IDs
<1>2. {t.id : t \in GrantTickets(C)} = IDs(C) /\ {t.id : t \in GrantTickets(R)} = IDs(R)
  BY TicketHandles DEF GrantTickets, IDs
<1>3. {t.id : t \in SessionTickets(S)} = IDs(S)
  BY TicketHandles DEF SessionTickets, IDs
<1> QED BY <1>1, <1>2, <1>3 DEF TicketsOf

\* A live ticket is a stored row, so its handle was handed out before.
LEMMA LiveIsStored ==
    ASSUME IInv, HInv
    PROVE  \A t \in LiveTickets :
             /\ t.id \in Stored /\ t.id \notin expired /\ t.id # 0 /\ t.id # nextID
<1>1. \A h \in {t.id : t \in LiveTickets} : h \in Stored /\ h \notin expired
  <2>1. \A h \in {t.id : t \in LiveTickets} :
          h \in IDs(Unexpired(pending)) \cup IDs(Unexpired(codes))
                  \cup IDs(Unexpired(refresh)) \cup IDs(Unexpired(sessions))
    BY LiveIsTicketsOf, TicketsHandles
  <2>2. \A table : \A h \in IDs(Unexpired(table)) : h \in IDs(table) /\ h \notin expired
    BY DEF IDs, Unexpired
  <2> QED BY <2>1, <2>2 DEF Stored
<1> QED BY <1>1, HandlesTyped

\* The handle of an unexpired row names a live ticket.
LEMMA StoredIsLive ==
    ASSUME NEW h, h \in IDs(Unexpired(pending)) \cup IDs(Unexpired(codes))
                          \cup IDs(Unexpired(refresh)) \cup IDs(Unexpired(sessions))
    PROVE  h \in Promise!Handles
BY LiveIsTicketsOf, TicketsHandles DEF Promise!Handles

\* Removing rows, and time passing, only take tickets away.
LEMMA LiveShrinks ==
    ASSUME Shrinks, expired \subseteq expired'
    PROVE  LiveTickets' \subseteq LiveTickets
<1>1. /\ Unexpired(pending)' \subseteq Unexpired(pending)
      /\ Unexpired(codes)' \subseteq Unexpired(codes)
      /\ Unexpired(refresh)' \subseteq Unexpired(refresh)
      /\ Unexpired(sessions)' \subseteq Unexpired(sessions)
  BY DEF Shrinks, Unexpired
<1> QED BY <1>1, TicketsShrink, LiveIsTicketsOf

\* The claims, before and after a step.
LEMMA ClaimedIs ==
    /\ \A h : h \in ClaimedTickets <=> \E q \in Requests : Taken(req[q]) /\ req[q].h = h
    /\ \A h : h \in ClaimedTickets' <=> \E q \in Requests : Taken(req'[q]) /\ req'[q].h = h
BY DEF ClaimedTickets, Taken

\* What becomes of the claims when one request moves.
LEMMA ClaimsMove ==
    ASSUME IInv, HInv, NEW p \in Requests, NEW g, Become(p, g)
    PROVE  /\ ~Taken(req[p]) /\ ~Taken(g) => ClaimedTickets' = ClaimedTickets
           /\ Taken(req[p]) /\ Taken(g) /\ g.h = req[p].h => ClaimedTickets' = ClaimedTickets
           /\ ~Taken(req[p]) /\ Taken(g) => ClaimedTickets' = ClaimedTickets \cup {g.h}
           /\ Taken(req[p]) /\ ~Taken(g) =>
                /\ req[p].h \in ClaimedTickets
                /\ ClaimedTickets' = ClaimedTickets \ {req[p].h}
<1>1. \A q \in Requests : req'[q] = IF q = p THEN g ELSE req[q]
  BY DEF Become, IInv, TypeOK
<1>2. ~Taken(req[p]) /\ ~Taken(g) => ClaimedTickets' = ClaimedTickets
  <2>1. ~Taken(req[p]) /\ ~Taken(g) =>
          \A h : h \in ClaimedTickets' <=> h \in ClaimedTickets
    BY <1>1, ClaimedIs
  <2> QED BY <2>1
<1>3. Taken(req[p]) /\ Taken(g) /\ g.h = req[p].h => ClaimedTickets' = ClaimedTickets
  <2>1. Taken(req[p]) /\ Taken(g) /\ g.h = req[p].h =>
          \A h : h \in ClaimedTickets' <=> h \in ClaimedTickets
    BY <1>1, ClaimedIs
  <2> QED BY <2>1
<1>4. ~Taken(req[p]) /\ Taken(g) => ClaimedTickets' = ClaimedTickets \cup {g.h}
  <2>1. ~Taken(req[p]) /\ Taken(g) =>
          \A h : h \in ClaimedTickets' <=> h \in ClaimedTickets \cup {g.h}
    BY <1>1, ClaimedIs
  <2> QED BY <2>1
<1>5. ASSUME Taken(req[p]), ~Taken(g)
      PROVE  /\ req[p].h \in ClaimedTickets
             /\ ClaimedTickets' = ClaimedTickets \ {req[p].h}
  <2>1. \A q \in Requests : Taken(req[q]) /\ req[q].h = req[p].h => q = p
    BY <1>5 DEF HInv, Spent
  <2>2. \A h : h \in ClaimedTickets' <=> h \in ClaimedTickets \ {req[p].h}
    BY <1>1, <1>5, <2>1, ClaimedIs
  <2> QED BY <1>5, <2>2, ClaimedIs
<1> QED BY <1>2, <1>3, <1>4, <1>5

\* A quiet step drops tickets or abandons a claim.
LEMMA QuietRefines ==
    ASSUME IInv, HInv, NEW p \in Requests, NEW g, Quiet(p, g)
    PROVE  Promise!Next
<1>1. /\ nextID' = nextID /\ issued' = issued /\ active' = active /\ expired' = expired
      /\ Become(p, g) /\ Shrinks
  BY DEF Quiet, Advance, control, history
<1>2. LiveTickets' \subseteq LiveTickets
  BY <1>1, LiveShrinks
<1>3. CASE Taken(req[p]) /\ ~Taken(g)
  <2>1. LiveTickets' = LiveTickets
    BY <1>3, LiveIsTicketsOf DEF Quiet, Settled
  <2>2. req[p].h \in ClaimedTickets /\ ClaimedTickets' = ClaimedTickets \ {req[p].h}
    BY <1>1, <1>3, ClaimsMove
  <2> QED BY <1>1, <2>1, <2>2 DEF Promise!Next, Promise!Abandon
<1>4. CASE ~(Taken(req[p]) /\ ~Taken(g))
  <2>1. ClaimedTickets' = ClaimedTickets
    BY <1>1, <1>4, ClaimsMove DEF Quiet
  <2> QED BY <1>1, <1>2, <2>1 DEF Promise!Next, Promise!Drop
<1> QED BY <1>3, <1>4

\* A claim takes the ticket from the live ones.
LEMMA ClaimRefines ==
    ASSUME IInv, HInv, NEW p \in Requests, NEW g, Claims(p, g)
    PROVE  Promise!Next
<1>1. /\ nextID' = nextID /\ issued' = issued /\ active' = active /\ expired' = expired
      /\ Become(p, g)
  BY DEF Claims, Advance, control, history
<1>2. ClaimedTickets' = ClaimedTickets \cup {g.h}
  BY <1>1, ClaimsMove DEF Claims
<1>3. g.h \in Promise!Handles
  BY StoredIsLive DEF Claims
<1>4. /\ Unexpired(pending)' = Without(Unexpired(pending), g.h)
      /\ Unexpired(codes)' = Without(Unexpired(codes), g.h)
      /\ Unexpired(refresh)' = Without(Unexpired(refresh), g.h)
      /\ Unexpired(sessions)' = Without(Unexpired(sessions), g.h)
  <2>1. \/ /\ TakePending(g.h) /\ UNCHANGED <<codes, refresh, sessions>>
           /\ g.h \notin IDs(codes) \cup IDs(refresh) \cup IDs(sessions)
        \/ /\ TakeCode(g.h) /\ UNCHANGED <<pending, refresh, sessions>>
           /\ g.h \notin IDs(pending) \cup IDs(refresh) \cup IDs(sessions)
    BY DEF Claims, IDs, Unexpired, HInv, Apart, Disjoint
  <2>2. \A table : g.h \notin IDs(table) => Without(Unexpired(table), g.h) = Unexpired(table)
    BY DEF IDs, Unexpired, Without
  <2>3. \A table : Unexpired(Without(table, g.h)) = Without(Unexpired(table), g.h)
    BY DEF Unexpired, Without
  <2>4. /\ Unexpired(pending)' = Unexpired(pending') /\ Unexpired(codes)' = Unexpired(codes')
        /\ Unexpired(refresh)' = Unexpired(refresh')
        /\ Unexpired(sessions)' = Unexpired(sessions')
    BY <1>1 DEF Unexpired
  <2> QED BY <2>1, <2>2, <2>3, <2>4, Zenon DEF TakePending, TakeCode
<1>5. LiveTickets' = Promise!Spend(g.h)
  BY <1>4, LiveIsTicketsOf, TicketsWithout DEF Promise!Spend
<1> QED BY <1>1, <1>2, <1>3, <1>5 DEF Promise!Next, Promise!Claim


\* Storing a pending request or a session admits its ticket.
LEMMA AdmitRefines ==
    ASSUME IInv, HInv, NEW p \in Requests, NEW g, Admits(p, g)
    PROVE  Promise!Next
<1>1. /\ nextID' = nextID + 1 /\ issued' = issued /\ active' = active /\ expired' = expired
      /\ Become(p, g)
  BY DEF Admits, Advance, control, Fresh
<1>2. ClaimedTickets' = ClaimedTickets
  BY <1>1, ClaimsMove DEF Admits
<1>3. nextID \notin expired
  BY HandlesTyped
<1>4. ASSUME NEW t, t.id = nextID, LiveTickets' = LiveTickets \cup {t},
             Promise!Permits(active.doc, t)
      PROVE  Promise!Next
  <2>1. t \in LiveTickets' \ LiveTickets
    BY <1>4, LiveIsStored
  <2> QED BY <1>1, <1>2, <1>4, <2>1 DEF Promise!Next, Promise!Admit
<1>5. CASE PutPending(PendingRow(req[p])) /\ PendingOK(PendingRow(req[p]))
  <2> DEFINE row == PendingRow(req[p])
             t == PendingTicket(row)
  <2>1. /\ Unexpired(pending)' = Unexpired(pending) \cup {row}
        /\ Unexpired(codes)' = Unexpired(codes) /\ Unexpired(refresh)' = Unexpired(refresh)
        /\ Unexpired(sessions)' = Unexpired(sessions)
    BY <1>1, <1>3, <1>5 DEF PutPending, PendingRow, Unexpired
  <2>2. LiveTickets' = LiveTickets \cup {t}
    <3> HIDE DEF row
    <3>1. PendingTickets(Unexpired(pending)') = PendingTickets(Unexpired(pending)) \cup {t}
      BY <2>1 DEF PendingTickets
    <3> QED BY <2>1, <3>1, LiveIsTicketsOf DEF TicketsOf
  <2>3. /\ t.user = None /\ t.client = row.client /\ t.protocol = row.protocol
        /\ t.id = nextID
    BY DEF PendingTicket, TicketOf, PendingRow
  <2>4. Promise!Permits(active.doc, t)
    BY <1>5, <2>3 DEF PendingOK, PendingUsable, Promise!Permits
  <2> QED BY <1>4, <2>2, <2>3, <2>4
<1>6. CASE PutSession(SessionRow(req[p])) /\ SessionOK(SessionRow(req[p]))
  <2> DEFINE row == SessionRow(req[p])
             t == SessionTicket(row)
  <2>1. /\ Unexpired(sessions)' = Unexpired(sessions) \cup {row}
        /\ Unexpired(codes)' = Unexpired(codes) /\ Unexpired(refresh)' = Unexpired(refresh)
        /\ Unexpired(pending)' = Unexpired(pending)
    BY <1>1, <1>3, <1>6 DEF PutSession, SessionRow, Unexpired
  <2>2. LiveTickets' = LiveTickets \cup {t}
    <3> HIDE DEF row
    <3>1. SessionTickets(Unexpired(sessions)') = SessionTickets(Unexpired(sessions)) \cup {t}
      BY <2>1 DEF SessionTickets
    <3> QED BY <2>1, <3>1, LiveIsTicketsOf DEF TicketsOf
  <2>3. /\ t.user = row.user /\ t.mfa = row.mfa /\ t.client = None /\ t.protocol = None
        /\ t.id = nextID
    BY DEF SessionTicket, TicketOf, SessionRow
  <2>4. Promise!Permits(active.doc, t)
    BY <1>6, <2>3 DEF SessionOK, HolderOK, UserUsable, SessionUsable, Promise!Permits
  <2> QED BY <1>4, <2>2, <2>3, <2>4
<1> QED BY <1>5, <1>6 DEF Admits

\* Where an answer leaves the live tickets: without the one it was given in
\* exchange for, and with the new one if it is a code or a refresh grant.
LEMMA AnswerTickets ==
    ASSUME IInv, HInv, NEW p \in Requests, Answers(p), NEW from,
           \/ AnswersAtOnce(p) /\ from = 0
           \/ ~AnswersAtOnce(p) /\ from = req[p].h
    PROVE  /\ from \in ClaimedTickets \cup Promise!Handles \cup {0}
           /\ \/ LiveTickets' = Promise!Spend(from)
              \/ LiveTickets' = Promise!Spend(from) \cup {TicketOf(CodeRow(req[p]), None)}
           /\ ClaimedTickets' = ClaimedTickets \ {from}
<1> DEFINE f == req[p]
           t == TicketOf(CodeRow(f), None)
<1>1. /\ active' = active /\ expired' = expired /\ Become(p, Idle) /\ ~Taken(Idle)
  BY DEF Answers, Advance, control, Idle, Taken
<1>2. nextID \notin expired
  BY HandlesTyped
<1>3. /\ Unexpired(pending)' = Unexpired(pending') /\ Unexpired(codes)' = Unexpired(codes')
      /\ Unexpired(refresh)' = Unexpired(refresh')
      /\ Unexpired(sessions)' = Unexpired(sessions')
  BY <1>1 DEF Unexpired
<1>4. \A table : /\ Unexpired(Unexpired(table) \cup {CodeRow(f)})
                      = Unexpired(table) \cup {CodeRow(f)}
                 /\ Unexpired(Unexpired(table)) = Unexpired(table)
  BY <1>2 DEF Unexpired, CodeRow
<1>5. ASSUME PutCode(CodeRow(f)) \/ PutRefresh(CodeRow(f))
      PROVE  LiveTickets' = LiveTickets \cup {t}
  <2>1. \/ /\ Unexpired(codes)' = Unexpired(codes) \cup {CodeRow(f)}
           /\ Unexpired(refresh)' = Unexpired(refresh)
           /\ Unexpired(pending)' = Unexpired(pending)
           /\ Unexpired(sessions)' = Unexpired(sessions)
        \/ /\ Unexpired(refresh)' = Unexpired(refresh) \cup {CodeRow(f)}
           /\ Unexpired(codes)' = Unexpired(codes)
           /\ Unexpired(pending)' = Unexpired(pending)
           /\ Unexpired(sessions)' = Unexpired(sessions)
    BY <1>3, <1>4, <1>5, Zenon DEF PutCode, PutRefresh
  <2>2. \A S : GrantTickets(S \cup {CodeRow(f)}) = GrantTickets(S) \cup {t}
    BY DEF GrantTickets
  <2>3. /\ GrantTickets(Unexpired(codes) \cup {CodeRow(f)})
             = GrantTickets(Unexpired(codes)) \cup {t}
        /\ GrantTickets(Unexpired(refresh) \cup {CodeRow(f)})
             = GrantTickets(Unexpired(refresh)) \cup {t}
    BY <2>2
  <2> HIDE DEF t
  <2> QED BY <2>1, <2>3, LiveIsTicketsOf DEF TicketsOf
<1>6. ASSUME NEW h, h \notin Stored
      PROVE  Promise!Spend(h) = LiveTickets
  BY <1>6, LiveIsStored DEF Promise!Spend
<1>7. ASSUME f.h \in Stored PROVE f.h \notin ClaimedTickets
  BY <1>7, ClaimedIs DEF HInv, Spent
<1>8. ~Taken(f) => ClaimedTickets' = ClaimedTickets
  BY <1>1, ClaimsMove
<1>9. CASE AnswersAtOnce(p)
  <2>1. 0 \notin Stored /\ 0 \notin ClaimedTickets
    BY HandlesTyped, ClaimedIs DEF HInv, Spent
  <2> QED BY <1>5, <1>6, <1>8, <1>9, <2>1 DEF AnswersAtOnce
<1>10. CASE AnswersClaim(p)
  <2>1. ~AnswersAtOnce(p) /\ from = f.h /\ f.h \notin Stored
    BY <1>10 DEF AnswersClaim, AnswersAtOnce, HInv, Spent
  <2>2. f.h \in ClaimedTickets /\ ClaimedTickets' = ClaimedTickets \ {f.h}
    BY <1>1, <1>10, ClaimsMove DEF AnswersClaim
  <2>3. LiveTickets' = LiveTickets \cup {t}
    BY <1>5, <1>10 DEF AnswersClaim
  <2> QED BY <1>6, <2>1, <2>2, <2>3
<1>11. ASSUME ~AnswersAtOnce(p), AnswersRotating(p)
       PROVE  /\ f.h \in Promise!Handles /\ f.h \in Stored
              /\ LiveTickets' = Promise!Spend(f.h) \cup {t}
  <2>1. f.h \in IDs(refresh) /\ f.h \notin expired
    BY <1>11 DEF AnswersRotating, RotateRefresh, CanRotate
  <2>2. f.h \in IDs(Unexpired(refresh))
    BY <2>1 DEF IDs, Unexpired
  <2>3. f.h \notin IDs(pending) \cup IDs(codes) \cup IDs(sessions)
    BY <2>1 DEF IDs, HInv, Apart, Disjoint
  <2>4. \A table : f.h \notin IDs(table) => Without(Unexpired(table), f.h) = Unexpired(table)
    BY DEF IDs, Unexpired, Without
  <2>5. \A table : Unexpired(Without(table, f.h) \cup {CodeRow(f)})
                     = Without(Unexpired(table), f.h) \cup {CodeRow(f)}
    BY <1>2 DEF Unexpired, Without, CodeRow
  <2>6. /\ Unexpired(refresh)' = Without(Unexpired(refresh), f.h) \cup {CodeRow(f)}
        /\ Unexpired(pending)' = Without(Unexpired(pending), f.h)
        /\ Unexpired(codes)' = Without(Unexpired(codes), f.h)
        /\ Unexpired(sessions)' = Without(Unexpired(sessions), f.h)
    <3>1. /\ refresh' = Without(refresh, f.h) \cup {CodeRow(f)} /\ pending' = pending
          /\ codes' = codes /\ sessions' = sessions
      BY <1>11 DEF AnswersRotating, RotateRefresh
    <3>2. /\ f.h \notin IDs(pending) /\ f.h \notin IDs(codes) /\ f.h \notin IDs(sessions)
      BY <2>3
    <3> QED BY <1>3, <2>4, <2>5, <3>1, <3>2, Zenon
  <2>7. LiveTickets' = Promise!Spend(f.h) \cup {t}
    <3> DEFINE P == Without(Unexpired(pending), f.h)
               C == Without(Unexpired(codes), f.h)
               R == Without(Unexpired(refresh), f.h)
               S == Without(Unexpired(sessions), f.h)
    <3>1. TicketsOf(P, C, R, S) = Promise!Spend(f.h)
      BY LiveIsTicketsOf, TicketsWithout DEF Promise!Spend
    <3>2. LiveTickets' = TicketsOf(P, C, Unexpired(refresh)', S)
      BY <2>6, LiveIsTicketsOf, Zenon
    <3>3. GrantTickets(Unexpired(refresh)') = GrantTickets(R) \cup {t}
      BY <2>6 DEF GrantTickets
    <3> HIDE DEF P, C, R, S, t
    <3> QED BY <3>1, <3>2, <3>3 DEF TicketsOf
  <2> QED BY <2>1, <2>2, <2>7, StoredIsLive DEF Stored
<1>12. CASE AnswersRotating(p) /\ ~AnswersAtOnce(p)
  BY <1>7, <1>8, <1>11, <1>12 DEF AnswersRotating
<1>13. ASSUME AnswersPending(p), ~AnswersAtOnce(p)
       PROVE  /\ f.h \in Promise!Handles /\ f.h \in Stored
              /\ LiveTickets' = Promise!Spend(f.h)
  <2>1. f.h \in IDs(Unexpired(pending)) /\ f.h \in IDs(pending)
    BY <1>13 DEF AnswersPending, IDs, Unexpired
  <2>2. /\ f.h \notin IDs(refresh) /\ f.h \notin IDs(codes) /\ f.h \notin IDs(sessions)
    BY <2>1 DEF IDs, HInv, Apart, Disjoint
  <2>3. \A table : f.h \notin IDs(table) => Without(Unexpired(table), f.h) = Unexpired(table)
    BY DEF IDs, Unexpired, Without
  <2>4. \A table : Unexpired(Without(table, f.h)) = Without(Unexpired(table), f.h)
    BY DEF Unexpired, Without
  <2>5. /\ Unexpired(pending)' = Without(Unexpired(pending), f.h)
        /\ Unexpired(refresh)' = Without(Unexpired(refresh), f.h)
        /\ Unexpired(codes)' = Without(Unexpired(codes), f.h)
        /\ Unexpired(sessions)' = Without(Unexpired(sessions), f.h)
    <3>1. /\ pending' = Without(pending, f.h) /\ refresh' = refresh
          /\ codes' = codes /\ sessions' = sessions
      BY <1>13 DEF AnswersPending, TakePending
    <3> QED BY <1>3, <2>2, <2>3, <2>4, <3>1, Zenon
  <2>6. LiveTickets' = Promise!Spend(f.h)
    BY <2>5, LiveIsTicketsOf, TicketsWithout DEF Promise!Spend
  <2> QED BY <2>1, <2>6, StoredIsLive DEF Stored
<1>14. CASE AnswersPending(p) /\ ~AnswersAtOnce(p)
  BY <1>7, <1>8, <1>13, <1>14 DEF AnswersPending
<1> QED BY <1>9, <1>10, <1>12, <1>14 DEF Answers

\* An answer of a request is an answer of the promise.
LEMMA AnswerRefines ==
    ASSUME IInv, HInv, NEW p \in Requests, Answers(p)
    PROVE  Promise!Next
<1>1. PICK e :
        /\ issued' \ issued = {e} /\ issued' = issued \cup {e}
        /\ e.to = nextID /\ e.user = req[p].user
        /\ e.client = req[p].client /\ e.mfa = req[p].mfa
        /\ \/ AnswersAtOnce(p) /\ e.from = 0
           \/ ~AnswersAtOnce(p) /\ e.from = req[p].h
  BY AnswerDelivers
<1> DEFINE t == Promise!Ticket(e.to, e.user, e.client, e.mfa, None)
<1>2. t = TicketOf(CodeRow(req[p]), None)
  BY <1>1 DEF Promise!Ticket, TicketOf, CodeRow
<1>3. /\ e.from \in ClaimedTickets \cup Promise!Handles \cup {0}
      /\ LiveTickets' \in {Promise!Spend(e.from), Promise!Spend(e.from) \cup {t}}
      /\ ClaimedTickets' = ClaimedTickets \ {e.from}
  BY <1>1, <1>2, AnswerTickets
<1>4. nextID' = nextID + 1 /\ active' = active
  BY DEF Answers, Advance, control, Fresh
<1>5. e.user # None => Promise!Permits(active.doc, t)
  BY <1>1, AnswersRightly DEF Rightly, HolderOK, UserUsable, SessionUsable,
     Promise!Permits, Promise!Ticket
<1>6. Promise!Answer
  BY <1>1, <1>3, <1>4, <1>5 DEF Promise!Answer
<1> QED BY <1>6 DEF Promise!Next

\* The operator and a configuration change drop tickets; publishing a snapshot
\* enacts a policy that no live ticket offends.
LEMMA OutsideRefines ==
    ASSUME IInv, IInv', Outside
    PROVE  Promise!Next
<1>1. nextID' = nextID /\ issued' = issued /\ Shrinks /\ expired \subseteq expired'
  BY DEF Outside, history
<1>2. \A p \in Requests : /\ req'[p].pc = req[p].pc /\ req'[p].h = req[p].h
                          /\ req'[p].via = req[p].via
  BY NoteSwitchesFields DEF Outside
<1>3. ClaimedTickets' = ClaimedTickets
  <2>1. \A p \in Requests : Taken(req'[p]) <=> Taken(req[p])
    BY <1>2 DEF Taken
  <2>2. \A h : h \in ClaimedTickets' <=> h \in ClaimedTickets
    BY <1>2, <2>1, ClaimedIs
  <2> QED BY <2>2
<1>4. CASE active' = active
  BY <1>1, <1>3, <1>4, LiveShrinks DEF Promise!Next, Promise!Drop
<1>5. CASE active' # active
  <2>1. UNCHANGED <<pending, codes, refresh, sessions, expired>>
    BY <1>5 DEF Outside, tables
  <2>2. LiveTickets' = LiveTickets
    BY <2>1 DEF LiveTickets, Unexpired
  <2>3. \A t \in LiveTickets : Promise!Permits(active.doc, t)'
    <3>1. \A t \in LiveTickets :
            \/ \E row \in pending : t = PendingTicket(row)
            \/ \E row \in codes \cup refresh : t = TicketOf(row, None)
            \/ \E row \in sessions : t = SessionTicket(row)
      BY LiveIsTicketsOf DEF TicketsOf, PendingTickets, GrantTickets, SessionTickets,
         Unexpired
    <3>2. /\ \A row \in pending : PendingUsable(active', row)
          /\ \A row \in codes \cup refresh \cup sessions :
               UserUsable(active', row.user) /\ SessionUsable(active', row.mfa)
          /\ \A row \in codes \cup refresh : row.client \in active'.doc.clients
      BY <2>1 DEF IInv, RowsCurrent, Grants, PendingUsable, UserUsable, SessionUsable
    <3> QED BY <3>1, <3>2 DEF PendingTicket, SessionTicket, TicketOf, PendingUsable,
               UserUsable, SessionUsable, Promise!Permits
  <2> QED BY <1>1, <1>3, <2>2, <2>3 DEF Promise!Next, Promise!Enact, Promise!Permits
<1> QED BY <1>4, <1>5

\* The data plane keeps the promise of module Issuance: there is always one
\* policy in force, nothing is admitted or issued against it, and what is
\* answered is spent.
THEOREM KeepsPromise == Spec => ImplementsIssuance
<1>1. Init => Promise!Init
  <2> SUFFICES ASSUME Init PROVE Promise!Init
    OBVIOUS
  <2>1. LiveTickets = {}
    BY DEF Init, NewRuntime, LiveTickets, Unexpired
  <2>2. ClaimedTickets = {}
    BY DEF Init, Idle, ClaimedTickets, Taken
  <2> QED BY <2>1, <2>2 DEF Init, NewRuntime, Promise!Init
<1>2. IInv /\ IInv' /\ HInv /\ [Next]_vars => [Promise!Next]_Promise!promiseVars
  BY NextKinds, QuietRefines, ClaimRefines, AdmitRefines, AnswerRefines, OutsideRefines
     DEF Kind
<1> QED BY <1>1, <1>2, Invariance, HandlesHold, PTL DEF Spec, ImplementsIssuance, Promise!Spec

-----------------------------------------------------------------------------
(* The bound on the tables.  Every step leaves each of them with rows it   *)
(* had, or makes room before it stores one.                                *)

Within(table) == IsFiniteSet(table) /\ Cardinality(table) <= Cap
AllWithin == Within(pending) /\ Within(codes) /\ Within(refresh) /\ Within(sessions)

\* A table that loses rows stays within the bound.
LEMMA WithinShrinks ==
    ASSUME NEW table, NEW less, Within(table), less \subseteq table
    PROVE  Within(less)
<1>1. /\ IsFiniteSet(less) /\ Cardinality(less) <= Cardinality(table)
      /\ Cardinality(less) \in Nat /\ Cardinality(table) \in Nat
  BY FS_Subset, FS_CardinalityType DEF Within
<1> QED BY <1>1, CapAssumption DEF Within

\* One row more counts for at most one.
LEMMA OneMore ==
    ASSUME NEW rest, NEW row, IsFiniteSet(rest)
    PROVE  /\ IsFiniteSet(rest \cup {row}) /\ Cardinality(rest) \in Nat
           /\ Cardinality(rest \cup {row}) \in Nat
           /\ Cardinality(rest \cup {row}) <= Cardinality(rest) + 1
<1>1. /\ IsFiniteSet(rest \cup {row})
      /\ Cardinality(rest \cup {row}) = Cardinality(rest)
           \/ Cardinality(rest \cup {row}) = Cardinality(rest) + 1
  BY FS_AddElement
<1>2. Cardinality(rest) \in Nat
  BY FS_CardinalityType
<1> QED BY <1>1, <1>2

\* A row is stored only after the sweep has made room for it.
LEMMA WithinPut ==
    ASSUME NEW table, NEW row, Within(table), HasRoom(table)
    PROVE  Within(Unexpired(table) \cup {row})
<1> DEFINE rest == Unexpired(table)
<1>1. rest \subseteq table /\ Cardinality(rest) < Cap
  BY DEF Unexpired, HasRoom
<1>2. IsFiniteSet(rest) /\ Cardinality(rest) \in Nat
  BY <1>1, FS_Subset, FS_CardinalityType DEF Within
<1> HIDE DEF rest
<1>3. /\ IsFiniteSet(rest \cup {row}) /\ Cardinality(rest \cup {row}) \in Nat
      /\ Cardinality(rest \cup {row}) <= Cardinality(rest) + 1
  BY <1>2, OneMore
<1>4. Within(rest \cup {row})
  BY <1>1, <1>2, <1>3, CapAssumption DEF Within
<1> QED BY <1>4 DEF rest

\* Rotation looks at no bound, but it removes the grant it replaces.
LEMMA WithinRotate ==
    ASSUME NEW table, NEW row, NEW h, Within(table), h \in IDs(table)
    PROVE  Within(Without(table, h) \cup {row})
<1>1. PICK old \in table : old.id = h
  BY DEF IDs
<1> DEFINE rest == Without(table, h)
<1>2. rest \subseteq table \ {old}
  BY <1>1 DEF Without
<1>3. /\ IsFiniteSet(table \ {old}) /\ Cardinality(table \ {old}) = Cardinality(table) - 1
      /\ Cardinality(table) \in Nat /\ Cardinality(table) <= Cap
  BY <1>1, FS_RemoveElement, FS_CardinalityType DEF Within
<1> HIDE DEF rest
<1>4. /\ IsFiniteSet(rest) /\ Cardinality(rest) <= Cardinality(table) - 1
      /\ Cardinality(rest) \in Nat
  BY <1>2, <1>3, FS_Subset, FS_CardinalityType
<1>5. /\ IsFiniteSet(rest \cup {row}) /\ Cardinality(rest \cup {row}) \in Nat
      /\ Cardinality(rest \cup {row}) <= Cardinality(rest) + 1
  BY <1>4, OneMore
<1>6. Within(rest \cup {row})
  BY <1>3, <1>4, <1>5, CapAssumption DEF Within
<1> QED BY <1>6 DEF rest

\* No step takes a table over the bound.
LEMMA BoundStep == IInv /\ HInv /\ AllWithin /\ [Next]_vars => AllWithin'
<1> SUFFICES ASSUME IInv, HInv, AllWithin, [Next]_vars PROVE AllWithin'
  OBVIOUS
<1>1. AllWithin' <=> Within(pending') /\ Within(codes') /\ Within(refresh') /\ Within(sessions')
  BY DEF AllWithin, Within
<1>2. CASE Shrinks
  BY <1>1, <1>2, WithinShrinks DEF Shrinks, AllWithin
<1>3. \A table : Unexpired(table) \subseteq table
  BY DEF Unexpired
<1>4. ASSUME NEW row, PutPending(row) \/ PutCode(row) \/ PutRefresh(row) \/ PutSession(row)
      PROVE  AllWithin'
  <2>1. /\ Within(Unexpired(pending)) /\ Within(Unexpired(codes))
        /\ Within(Unexpired(refresh)) /\ Within(Unexpired(sessions))
    BY <1>3, WithinShrinks DEF AllWithin
  <2>2. CASE PutPending(row)
    BY <1>1, <2>1, <2>2, WithinPut DEF AllWithin, PutPending
  <2>3. CASE PutCode(row)
    BY <1>1, <2>1, <2>3, WithinPut DEF AllWithin, PutCode
  <2>4. CASE PutRefresh(row)
    BY <1>1, <2>1, <2>4, WithinPut DEF AllWithin, PutRefresh
  <2>5. CASE PutSession(row)
    BY <1>1, <2>1, <2>5, WithinPut DEF AllWithin, PutSession
  <2> QED BY <1>4, <2>2, <2>3, <2>4, <2>5
<1>5. ASSUME NEW h, NEW row, RotateRefresh(h, row)
      PROVE  AllWithin'
  BY <1>1, <1>5, WithinRotate DEF AllWithin, RotateRefresh, CanRotate
<1>6. ASSUME NEW p \in Requests, Kind(p) PROVE AllWithin'
  <2>1. CASE \E g : Quiet(p, g) \/ Claims(p, g)
    BY <1>2, <2>1, RuntimeRemoves DEF Quiet, Claims, Shrinks
  <2>2. CASE \E g : Admits(p, g)
    BY <1>4, <2>2 DEF Admits
  <2>3. CASE Answers(p)
    <3>1. CASE AnswersAtOnce(p) \/ AnswersClaim(p)
      BY <1>4, <3>1 DEF AnswersAtOnce, AnswersClaim
    <3>2. CASE AnswersRotating(p)
      BY <1>5, <3>2 DEF AnswersRotating
    <3>3. CASE AnswersPending(p)
      BY <1>2, <3>3, RuntimeRemoves DEF AnswersPending, Shrinks
    <3> QED BY <2>3, <3>1, <3>2, <3>3 DEF Answers
  <2> QED BY <1>6, <2>1, <2>2, <2>3 DEF Kind
<1>7. CASE Outside
  BY <1>2, <1>7 DEF Outside
<1> QED BY <1>6, <1>7, NextKinds

\* No table outgrows its bound, although only insertion tests it, and only
\* after it has swept the rows that ran out.
THEOREM TablesStayBounded == Spec => []TablesBounded
<1>1. Init => AllWithin
  <2>1. Within({})
    BY FS_EmptySet, CapAssumption DEF Within
  <2> QED BY <2>1 DEF Init, NewRuntime, AllWithin
<1>2. AllWithin => TablesBounded
  BY DEF AllWithin, Within, TablesBounded
<1> QED BY <1>1, <1>2, BoundStep, Invariance, HandlesHold, PTL DEF Spec

=============================================================================
