--------------------------- MODULE Access_proofs ---------------------------
(***************************************************************************)
(* What holds of access tokens and the userinfo endpoint, for every set of *)
(* users, callers and documents, and however old a token is.               *)
(*                                                                         *)
(* A token is checked against the snapshot its call captured, and against  *)
(* the runtime's minimum generation at another moment.  The invariant ties *)
(* the two together: a token is no newer than the snapshot of a call that  *)
(* presents it, and a generation that is still admissible, be it that of a *)
(* token or of a snapshot, stands for the security content of the active   *)
(* configuration.                                                          *)
(***************************************************************************)
EXTENDS Access, DataPlane_proofs

\* What a group claim may say about a user under a document.
Truthful(doc, u, claim) ==
    claim.kind = "groups" =>
        \/ claim.n = GroupCount(doc, u)
        \/ Vendor(doc) = "generic" /\ claim.n < GroupCount(doc, u)

\* A token of an admissible generation tells the truth.
TokenOK(t) ==
    /\ 0 < t.gen /\ t.gen <= active.gen
    /\ minimumGeneration <= t.gen => Truthful(active.doc, t.user, t.claim)

\* A call under way with a token, and what it has checked.
CallOK(f) ==
    /\ f.snap.doc \in Docs
    /\ f.pc \in {"ui_policy", "ui_generation"} =>
         /\ f.token \in tokens /\ f.token.gen <= f.snap.gen
         /\ f.snap.gen <= active.gen
         /\ minimumGeneration <= f.snap.gen =>
              ~SecurityChanged(f.snap.doc, active.doc)
    /\ f.pc = "ui_generation" => UserUsable(f.snap, f.token.user)

AInv ==
    /\ AccessTypeOK
    /\ \A t \in tokens : TokenOK(t)
    /\ \A q \in Callers : CallOK(call[q])

-----------------------------------------------------------------------------
(* Group claims.                                                           *)

\* A compiled document has a roster and an overage policy.
LEMMA DocumentKnown ==
    ASSUME NEW d \in Docs, NEW u \in Users
    PROVE  /\ Vendor(d) \in Vendors /\ GroupCount(d, u) \in Nat
           /\ Overages[d.aux] \in GroupOverage
BY RosterAssumption DEF Vendor, GroupCount

\* A claim is well formed, and a list it holds is complete, or cut by a
\* generic vendor.
LEMMA ClaimsTruthful ==
    ASSUME NEW d \in Docs, NEW u \in Users
    PROVE  GroupClaims(d, u) \in GroupClaim /\ Truthful(d, u, GroupClaims(d, u))
<1> DEFINE n == GroupCount(d, u)
           cap == Limit(Overages[d.aux].GenericCap, 200)
<1>1. n \in Nat /\ Vendor(d) \in Vendors
  BY DocumentKnown
<1>2. cap \in Nat
  BY DocumentKnown DEF Limit, GroupOverage
<1>3. \/ GroupClaims(d, u) = Failed \/ GroupClaims(d, u) = Elsewhere
      \/ GroupClaims(d, u) = Listed(n)
      \/ GroupClaims(d, u) = Listed(cap) /\ n > cap /\ Vendor(d) = "generic"
  BY <1>1, <1>2 DEF GroupClaims, Vendors
<1> HIDE DEF cap, n
<1>4. /\ Failed \in GroupClaim /\ Elsewhere \in GroupClaim
      /\ Listed(n) \in GroupClaim /\ Listed(cap) \in GroupClaim
  BY <1>1, <1>2 DEF Failed, Elsewhere, Listed, GroupClaim
<1>5. /\ Failed.kind # "groups" /\ Elsewhere.kind # "groups"
      /\ Listed(n).n = n /\ Listed(cap).n = cap
  BY DEF Failed, Elsewhere, Listed
<1> QED BY <1>1, <1>2, <1>3, <1>4, <1>5 DEF Truthful, n

\* What a document says of groups depends on its roster alone.
LEMMA SameRoster ==
    ASSUME NEW d, NEW e, ~SecurityChanged(d, e), NEW u, NEW claim
    PROVE  Truthful(d, u, claim) <=> Truthful(e, u, claim)
BY DEF SecurityChanged, Truthful, GroupCount, Vendor


-----------------------------------------------------------------------------
(* The data plane under the access tokens.                                 *)

\* What a step of the data plane does to the bound and to the active snapshot.
LEMMA ControlSteps ==
    ASSUME IInv, HInv, [Next]_vars
    PROVE  \/ UNCHANGED <<minimumGeneration, active>>
           \/ minimumGeneration' = active.gen + 1 /\ active' = active
           \/ /\ minimumGeneration' = minimumGeneration /\ active'.gen = active.gen + 1
              /\ active'.doc \in Docs
              /\ \/ minimumGeneration = active.gen + 1
                 \/ ~SecurityChanged(active.doc, active'.doc)
<1>1. ASSUME NEW p \in Requests, Serve(p) PROVE UNCHANGED <<minimumGeneration, active>>
  <2>1. CASE Kind(p)
    <3>1. \E g : Advance(p, g)
      BY <2>1 DEF Kind, Quiet, Claims, Admits, Answers
    <3> QED BY <3>1 DEF Advance, control
  <2>2. CASE UNCHANGED vars
    BY <2>2 DEF vars, runtimeVars
  <2> QED BY <1>1, <2>1, <2>2, ServeKinds
<1>2. CASE Configuration
  <2>1. CASE \E d \in Docs : Apply(d) \/ ResetState(d)
    BY <2>1 DEF Apply, ResetState
  <2>2. CASE ApplyInvalidate \/ ResetInvalidate
    BY <2>2 DEF ApplyInvalidate, ResetInvalidate, InvalidateBefore, IInv, MgrOK
  <2>3. CASE ApplySync \/ ResetRuntime
    BY <2>3 DEF ApplySync, ResetRuntime
  <2>4. CASE ApplySwap \/ ResetSwap
    BY <2>4 DEF ApplySwap, ResetSwap, IInv, MgrOK
  <2> QED BY <1>2, <2>1, <2>2, <2>3, <2>4 DEF Configuration
<1>3. CASE Operator
  BY <1>3 DEF Operator, OperatorExpireSession, ExpireAllSessions, OperatorListSessions,
     SetTunables, Lapse, elsewhere
<1>4. CASE UNCHANGED vars
  BY <1>4 DEF vars, runtimeVars
<1> QED BY <1>1, <1>2, <1>3, <1>4 DEF Next

\* What an admissible generation stands for survives every step.
LEMMA AgreementKept ==
    ASSUME IInv, HInv, [Next]_vars, NEW g \in Nat, g <= active.gen
    PROVE  /\ g <= active'.gen
           /\ minimumGeneration' <= g =>
                /\ minimumGeneration <= g
                /\ \A d : ~SecurityChanged(d, active.doc) => ~SecurityChanged(d, active'.doc)
                /\ \A u, claim : Truthful(active.doc, u, claim)
                                   => Truthful(active'.doc, u, claim)
<1>1. active.gen \in Nat /\ minimumGeneration \in Nat
  BY DEF IInv, TypeOK, RuntimeTypeOK, Snapshot
<1>2. CASE UNCHANGED <<minimumGeneration, active>>
  BY <1>1, <1>2
<1>3. CASE minimumGeneration' = active.gen + 1 /\ active' = active
  BY <1>1, <1>3
<1>4. CASE /\ minimumGeneration' = minimumGeneration /\ active'.gen = active.gen + 1
           /\ \/ minimumGeneration = active.gen + 1
              \/ ~SecurityChanged(active.doc, active'.doc)
  <2>1. CASE minimumGeneration = active.gen + 1
    BY <1>1, <1>4, <2>1
  <2>2. CASE ~SecurityChanged(active.doc, active'.doc)
    <3>1. \A d : ~SecurityChanged(d, active.doc) => ~SecurityChanged(d, active'.doc)
      BY <2>2 DEF SecurityChanged
    <3> QED BY <1>1, <1>4, <2>2, <3>1, SameRoster
  <2> QED BY <1>4, <2>1, <2>2
<1> QED BY <1>2, <1>3, <1>4, ControlSteps

\* The data plane does not notice the access tokens.
LEMMA AccessIsDataPlane == [AccessNext]_allVars => [Next]_vars
BY DEF AccessNext, allVars

\* The data plane beside the access tokens is the one of module DataPlane, so
\* that everything proved of it holds here too.
THEOREM AccessImplementsDataPlane == AccessSpec => Spec
<1>1. AccessInit => Init
  BY DEF AccessInit
<1> QED BY <1>1, AccessIsDataPlane, PTL DEF AccessSpec, Spec

-----------------------------------------------------------------------------
(* The invariant.                                                          *)

\* An idle call is well formed.
LEMMA IdleCallOK == IdleCall \in CallFrame /\ IdleCall.snap.doc \in Docs /\ IdleCall.pc = "idle"
<1>1. (CHOOSE u \in Users : TRUE) \in Users /\ (CHOOSE c \in Clients : TRUE) \in Clients
  BY PopulatedAssumption
<1>2. NoClaim \in GroupClaim
  BY DEF NoClaim, GroupClaim
<1>3. BootSnapshot \in Snapshot /\ BootSnapshot.doc \in Docs
  BY DocsAssumption DEF BootSnapshot, Snapshot
<1> QED BY <1>1, <1>2, <1>3 DEF IdleCall, CallFrame, AccessToken

\* The invariant, when one call moves, may sign a token, and the data plane
\* rests.
LEMMA CallMoves ==
    ASSUME AInv, UNCHANGED vars, NEW q \in Callers, NEW f \in CallFrame,
           call' = [call EXCEPT ![q] = f],
           tokens \subseteq tokens',
           \A t \in tokens' : t \in tokens \/ (t \in AccessToken /\ TokenOK(t)),
           answers' \subseteq [token: AccessToken, claim: GroupClaim],
           minted' \subseteq [token: AccessToken, doc: Document],
           CallOK(f)
    PROVE  AInv'
<1>1. /\ active' = active /\ minimumGeneration' = minimumGeneration
  BY DEF vars, runtimeVars
<1>2. TypeOK'
  BY DEF AInv, AccessTypeOK, vars, runtimeVars, tables, tunables, TypeOK, RuntimeTypeOK
<1>3. \A r \in Callers : call'[r] = IF r = q THEN f ELSE call[r]
  BY DEF AInv, AccessTypeOK
<1>4. AccessTypeOK'
  BY <1>2 DEF AInv, AccessTypeOK
<1>5. \A t \in tokens' : TokenOK(t)'
  BY <1>1 DEF AInv, TokenOK
<1>6. ASSUME NEW r \in Callers PROVE CallOK(call[r])'
  BY <1>1, <1>3 DEF AInv, CallOK
<1> QED BY <1>4, <1>5, <1>6 DEF AInv

\* Every step of a userinfo call or of a mint call preserves the invariant.
LEMMA CallSteps ==
    ASSUME IInv, AInv, UNCHANGED vars, NEW q \in Callers,
           \/ Userinfo(q) \/ UserinfoPolicy(q) \/ UserinfoAnswer(q)
           \/ MintToken(q) \/ Mint(q)
    PROVE  AInv'
<1> DEFINE f == call[q]
<1>1. /\ f \in CallFrame /\ CallOK(f)
      /\ active \in Snapshot /\ active.gen \in Nat /\ active.doc \in Docs
      /\ active.doc \in Document /\ 0 < active.gen /\ tokens \subseteq AccessToken
  BY DEF AInv, AccessTypeOK, IInv, TypeOK, Snapshot, MgrOK
<1>2. CallOK(IdleCall)
  BY IdleCallOK DEF CallOK
<1>3. Silent => /\ answers' \subseteq [token: AccessToken, claim: GroupClaim]
                /\ minted' \subseteq [token: AccessToken, doc: Document]
  BY DEF Silent
<1>4. CASE Userinfo(q)
  <2>1. PICK t \in tokens, graph \in BOOLEAN :
          call' = [call EXCEPT ![q] = [pc |-> "ui_policy", graph |-> graph,
                                       snap |-> active, token |-> t]]
    BY <1>4 DEF Userinfo
  <2> DEFINE g == [pc |-> "ui_policy", graph |-> graph, snap |-> active, token |-> t]
  <2>2. g \in CallFrame
    BY <1>1 DEF CallFrame
  <2>3. g.pc = "ui_policy" /\ g.snap = active /\ g.token = t
    OBVIOUS
  <2>4. ~SecurityChanged(active.doc, active.doc)
    BY DEF SecurityChanged
  <2>5. CallOK(g)
    BY <1>1, <2>3, <2>4 DEF CallOK, AInv, TokenOK
  <2>6. call' = [call EXCEPT ![q] = g] /\ Silent /\ tokens' = tokens
    BY <1>4, <2>1 DEF Userinfo
  <2> HIDE DEF g
  <2> QED BY <1>3, <2>2, <2>5, <2>6, CallMoves
<1>5. CASE UserinfoPolicy(q)
  <2>0. Silent /\ tokens' = tokens
    BY <1>5 DEF UserinfoPolicy
  <2>1. CASE Returns(q)
    BY <1>2, <1>3, <2>0, <2>1, IdleCallOK, CallMoves DEF Returns
  <2>2. CASE UserUsable(f.snap, f.token.user) /\ call' = [call EXCEPT ![q].pc = "ui_generation"]
    <3> DEFINE g == [f EXCEPT !.pc = "ui_generation"]
    <3>1. g \in CallFrame
      BY <1>1 DEF CallFrame
    <3>2. g.pc = "ui_generation" /\ g.snap = f.snap /\ g.token = f.token
      BY <1>1 DEF CallFrame
    <3>3. CallOK(g)
      BY <1>1, <1>5, <2>2, <3>2 DEF CallOK, UserinfoPolicy
    <3>4. call' = [call EXCEPT ![q] = g]
      BY <2>2
    <3> HIDE DEF g
    <3> QED BY <1>3, <2>0, <3>1, <3>3, <3>4, CallMoves
  <2> QED BY <1>5, <2>1, <2>2 DEF UserinfoPolicy
<1>6. CASE UserinfoAnswer(q)
  <2>1. f.token \in AccessToken /\ f.snap.doc \in Docs /\ f.token.user \in Users
    BY <1>1 DEF CallOK, CallFrame, AccessToken
  <2>2. Memberships(f) \in GroupClaim
    <3>1. GroupClaims(f.snap.doc, f.token.user) \in GroupClaim
      BY <2>1, ClaimsTruthful
    <3>2. GroupCount(f.snap.doc, f.token.user) \in Nat
      BY <2>1, DocumentKnown
    <3>3. NoClaim \in GroupClaim /\ Listed(GroupCount(f.snap.doc, f.token.user)) \in GroupClaim
      BY <3>2 DEF NoClaim, Listed, GroupClaim
    <3>4. f.graph \in BOOLEAN
      BY <1>1 DEF CallFrame
    <3> QED BY <3>1, <3>3, <3>4 DEF Memberships
  <2>3. /\ answers' \subseteq [token: AccessToken, claim: GroupClaim]
        /\ minted' = {} /\ tokens' = tokens /\ Returns(q)
    BY <1>6, <2>1, <2>2 DEF UserinfoAnswer
  <2> QED BY <1>2, <2>3, IdleCallOK, CallMoves DEF Returns
<1>7. CASE MintToken(q)
  <2>1. PICK u \in active.doc.users, c \in active.doc.clients :
          call' = [call EXCEPT ![q].pc = "mt_sign", ![q].token.user = u, ![q].token.client = c]
    BY <1>7 DEF MintToken
  <2> DEFINE g == [f EXCEPT !.pc = "mt_sign", !.token.user = u, !.token.client = c]
  <2>2. u \in Users /\ c \in Clients
    BY <1>1 DEF Document
  <2>3. g \in CallFrame
    BY <1>1, <2>2 DEF CallFrame, AccessToken
  <2>4. g.pc = "mt_sign" /\ g.snap = f.snap
    BY <1>1 DEF CallFrame
  <2>5. CallOK(g)
    BY <1>1, <2>4 DEF CallOK
  <2>6. call' = [call EXCEPT ![q] = g]
    <3>1. call \in [Callers -> CallFrame] /\ f.token \in AccessToken
      BY <1>1 DEF AInv, AccessTypeOK, CallFrame
    <3> QED BY <1>1, <2>1, <3>1 DEF CallFrame, AccessToken
  <2>7. Silent /\ tokens' = tokens
    BY <1>7 DEF MintToken
  <2> HIDE DEF g
  <2> QED BY <1>3, <2>3, <2>5, <2>6, <2>7, CallMoves
<1>8. CASE Mint(q)
  <2> DEFINE u == f.token.user
             claim == IF u \in active.doc.users THEN GroupClaims(active.doc, u) ELSE NoClaim
             t == [f.token EXCEPT !.gen = active.gen, !.claim = claim]
  <2>0. f.token \in AccessToken /\ u \in Users
    BY <1>1 DEF CallFrame, AccessToken
  <2>1. claim \in GroupClaim /\ Truthful(active.doc, u, claim)
    <3>1. NoClaim \in GroupClaim /\ NoClaim.kind = "none"
      BY DEF NoClaim, GroupClaim
    <3> QED BY <1>1, <2>0, <3>1, ClaimsTruthful DEF Truthful
  <2>2. \/ tokens' = tokens \cup {t} /\ minted' = {[token |-> t, doc |-> active.doc]}
        \/ tokens' = tokens /\ minted' = {}
    BY <1>8 DEF Mint
  <2> HIDE DEF claim
  <2>3. t \in AccessToken /\ t.gen = active.gen /\ t.user = u /\ t.claim = claim
    BY <1>1, <2>0, <2>1 DEF AccessToken
  <2> HIDE DEF t, u
  <2>4. TokenOK(t)
    BY <1>1, <2>1, <2>3 DEF TokenOK
  <2>5. /\ minted' \subseteq [token: AccessToken, doc: Document] /\ answers' = {}
        /\ Returns(q)
    BY <1>1, <1>8, <2>2, <2>3 DEF Mint
  <2> QED BY <1>2, <2>2, <2>3, <2>4, <2>5, IdleCallOK, CallMoves DEF Returns
<1> QED BY <1>4, <1>5, <1>6, <1>7, <1>8

\* A token response is signed under the captured snapshot, which tells the
\* truth as long as it is admissible.
LEMMA SignedOK ==
    ASSUME IInv
    PROVE  \A t \in Signed : t \in AccessToken /\ TokenOK(t)
<1> SUFFICES ASSUME NEW p \in Requests, req[p].pc = "tk_store"
             PROVE  LET t == [gen |-> req[p].snap.gen, user |-> req[p].user,
                              client |-> req[p].client,
                              claim |-> GroupClaims(req[p].snap.doc, req[p].user)]
                    IN  t \in AccessToken /\ TokenOK(t)
  BY DEF Signed
<1> DEFINE f == req[p]
           claim == GroupClaims(f.snap.doc, f.user)
           t == [gen |-> f.snap.gen, user |-> f.user, client |-> f.client, claim |-> claim]
<1>1. f \in Frame /\ FrameOK(f) /\ SnapOK(f) /\ f.snap.gen \in Nat /\ f.snap.doc \in Docs
  BY DEF IInv, TypeOK, FramesOK, SnapsOK, SnapOK, Frame, Snapshot
<1>2. f.user \in Users /\ f.client \in Clients
  BY <1>1, DocsAssumption DEF FrameOK, UserLabels, ClientLabels, UserUsable, Document
<1>3. claim \in GroupClaim /\ Truthful(f.snap.doc, f.user, claim)
  BY <1>1, <1>2, ClaimsTruthful
<1> HIDE DEF claim
<1>4. /\ t \in AccessToken /\ t.gen = f.snap.gen /\ t.user = f.user /\ t.claim = claim
  BY <1>1, <1>2, <1>3 DEF AccessToken
<1>5. /\ 0 < f.snap.gen /\ f.snap.gen <= active.gen
      /\ minimumGeneration <= f.snap.gen => ~SecurityChanged(f.snap.doc, active.doc)
  BY <1>1 DEF SnapOK
<1>6. minimumGeneration <= f.snap.gen => Truthful(active.doc, f.user, claim)
  BY <1>3, <1>5, SameRoster
<1>7. TokenOK(t)
  BY <1>4, <1>5, <1>6 DEF TokenOK
<1> QED BY <1>4, <1>7 DEF claim

\* A step of the data plane preserves the invariant: what it revokes is no
\* longer admissible, and what it publishes agrees with what stays so.
LEMMA DataPlaneSteps ==
    ASSUME IInv, IInv', HInv, AInv, [Next]_vars,
           tokens' = tokens \/ tokens' = tokens \cup Signed,
           call' = call,
           answers' = answers \/ answers' = {},
           minted' = minted \/ minted' = {}
    PROVE  AInv'
<1>1. /\ tokens \subseteq AccessToken /\ call \in [Callers -> CallFrame]
      /\ answers \subseteq [token: AccessToken, claim: GroupClaim]
      /\ minted \subseteq [token: AccessToken, doc: Document]
  BY DEF AInv, AccessTypeOK
<1>2. \A t \in tokens' : t \in AccessToken /\ TokenOK(t)
  BY <1>1, SignedOK DEF AInv
<1>3. AccessTypeOK'
  BY <1>1, <1>2 DEF AccessTypeOK, IInv
<1>4. ASSUME NEW t \in tokens' PROVE TokenOK(t)'
  <2>1. t.gen \in Nat /\ 0 < t.gen /\ t.gen <= active.gen
    BY <1>2, <1>4 DEF AccessToken, TokenOK
  <2> QED BY <1>2, <1>4, <2>1, AgreementKept DEF TokenOK, Truthful, GroupCount, Vendor
<1>5. ASSUME NEW q \in Callers PROVE CallOK(call[q])'
  <2>1. CallOK(call[q]) /\ call[q].snap.gen \in Nat /\ tokens \subseteq tokens'
    BY <1>1 DEF AInv, CallFrame, Snapshot
  <2>2. ASSUME call[q].pc \in {"ui_policy", "ui_generation"}
        PROVE  /\ call[q].snap.gen <= active'.gen
               /\ minimumGeneration' <= call[q].snap.gen =>
                    ~SecurityChanged(call[q].snap.doc, active'.doc)
    BY <2>1, <2>2, AgreementKept DEF CallOK
  <2> QED BY <2>1, <2>2 DEF CallOK
<1> QED BY <1>3, <1>4, <1>5 DEF AInv

\* The invariant of the access tokens is inductive.
LEMMA AccessPreserves == IInv /\ IInv' /\ HInv /\ AInv /\ [AccessNext]_allVars => AInv'
<1> SUFFICES ASSUME IInv, IInv', HInv, AInv, [AccessNext]_allVars PROVE AInv'
  OBVIOUS
<1>1. [Next]_vars
  BY AccessIsDataPlane
<1>2. CASE /\ tokens' = IF issued' = issued THEN tokens ELSE tokens \cup Signed
           /\ Silent /\ UNCHANGED call
  BY <1>1, <1>2, DataPlaneSteps DEF Silent
<1>3. CASE /\ \E q \in Callers :
                Userinfo(q) \/ UserinfoPolicy(q) \/ UserinfoAnswer(q) \/ MintToken(q) \/ Mint(q)
           /\ UNCHANGED vars
  BY <1>3, CallSteps
<1>4. CASE UNCHANGED allVars
  BY <1>1, <1>4, DataPlaneSteps DEF allVars, accessVars
<1> QED BY <1>2, <1>3, <1>4 DEF AccessNext

\* The invariant of the access tokens holds in every behaviour.
THEOREM AccessInvariance == AccessSpec => []AInv
<1>1. AccessInit => AInv
  <2> SUFFICES ASSUME AccessInit PROVE AInv
    OBVIOUS
  <2>1. TypeOK
    BY InitEstablishes DEF AccessInit, IInv
  <2>2. call \in [Callers -> CallFrame] /\ \A q \in Callers : call[q] = IdleCall
    BY IdleCallOK DEF AccessInit
  <2>3. \A q \in Callers : CallOK(call[q])
    BY <2>2, IdleCallOK DEF CallOK
  <2> QED BY <2>1, <2>2, <2>3 DEF AccessInit, AInv, AccessTypeOK
<1>2. AccessSpec => []IInv /\ []HInv
  BY AccessImplementsDataPlane, Invariance, HandlesHold, PTL
<1> QED BY <1>1, <1>2, AccessPreserves, PTL DEF AccessSpec

\* Tokens in circulation, calls and answers keep their types: no token is
\* ever signed without a user, a client or a well-formed group claim.
THEOREM AccessTypeCorrect == AccessSpec => []AccessTypeOK
<1>1. AInv => AccessTypeOK
  BY DEF AInv
<1> QED BY <1>1, AccessInvariance, PTL

-----------------------------------------------------------------------------
(* What userinfo answers.                                                  *)

\* An answer is given by one call, for an accepted token, and by then the
\* captured snapshot agrees with the active one.
LEMMA AnswerGiven ==
    ASSUME IInv, AInv, [AccessNext]_allVars, NEW a \in answers' \ answers
    PROVE  \E q \in Callers :
             LET f == call[q]
             IN  /\ f \in CallFrame /\ f.snap.doc \in Docs
                 /\ f.pc = "ui_generation" /\ a.token = f.token
                 /\ a.claim = Memberships(f) /\ TokenAccepted(f)
                 /\ TokenOK(f.token) /\ minimumGeneration <= f.token.gen
                 /\ UserUsable(f.snap, f.token.user)
                 /\ ~SecurityChanged(f.snap.doc, active.doc)
<1>1. PICK q \in Callers : UserinfoAnswer(q)
  BY DEF AccessNext, allVars, accessVars, Silent, Userinfo, UserinfoPolicy, MintToken, Mint
<1> DEFINE f == call[q]
<1>2. /\ f.pc = "ui_generation" /\ TokenAccepted(f)
      /\ a = [token |-> f.token, claim |-> Memberships(f)]
  BY <1>1 DEF UserinfoAnswer
<1>3. f \in CallFrame /\ CallOK(f)
  BY DEF AInv, AccessTypeOK
<1>4. /\ f.token \in tokens /\ TokenOK(f.token) /\ f.token.gen \in Nat
      /\ f.snap.gen \in Nat /\ minimumGeneration \in Nat
  BY <1>2, <1>3 DEF CallOK, AInv, AccessTypeOK, AccessToken, CallFrame, Snapshot, IInv,
     TypeOK, RuntimeTypeOK
<1>5. minimumGeneration <= f.token.gen
  BY <1>2, <1>4 DEF TokenAccepted, GenerationUsable
<1>6. minimumGeneration <= f.snap.gen
  BY <1>2, <1>3, <1>4, <1>5 DEF CallOK
<1> QED BY <1>2, <1>3, <1>4, <1>5, <1>6 DEF CallOK

\* Userinfo answers for a token only while the active configuration admits
\* its user and its client, although the token may be old and both were
\* checked against the snapshot the call captured.
THEOREM UserinfoUnderPolicy == AccessSpec => UserinfoHonoursPolicy
<1>1. ASSUME IInv, AInv, [AccessNext]_allVars, NEW a \in answers' \ answers
      PROVE  UserUsable(active, a.token.user) /\ a.token.client \in active.doc.clients
  BY <1>1, AnswerGiven DEF TokenAccepted, UserUsable, SecurityChanged
<1>2. IInv /\ AInv /\ [AccessNext]_allVars =>
        [\A a \in answers' \ answers :
           UserUsable(active, a.token.user) /\ a.token.client \in active.doc.clients]_allVars
  BY <1>1
<1>3. AccessSpec => []IInv
  BY AccessImplementsDataPlane, Invariance, PTL
<1> QED BY <1>2, <1>3, AccessInvariance, PTL DEF AccessSpec, UserinfoHonoursPolicy

\* A token that is still accepted tells the truth about its user's groups:
\* the list in it, and the one the endpoint answers, are the complete list of
\* the active configuration, unless a generic vendor cuts it.
THEOREM GroupsAlwaysCurrent == AccessSpec => GroupsCurrent
<1>1. ASSUME IInv, AInv, [AccessNext]_allVars, NEW a \in answers' \ answers
      PROVE  /\ Truthful(active.doc, a.token.user, a.token.claim)
             /\ Truthful(active.doc, a.token.user, a.claim)
  <2>1. PICK q \in Callers :
             LET f == call[q]
             IN  /\ f \in CallFrame /\ f.snap.doc \in Docs
                 /\ f.pc = "ui_generation" /\ a.token = f.token
                 /\ a.claim = Memberships(f) /\ TokenAccepted(f)
                 /\ TokenOK(f.token) /\ minimumGeneration <= f.token.gen
                 /\ UserUsable(f.snap, f.token.user)
                 /\ ~SecurityChanged(f.snap.doc, active.doc)
    BY <1>1, AnswerGiven
  <2> DEFINE f == call[q]
             n == GroupCount(f.snap.doc, f.token.user)
  <2>2. f.token.user \in Users /\ f.graph \in BOOLEAN
    BY <2>1 DEF CallFrame, AccessToken
  <2>3. Truthful(f.snap.doc, f.token.user, GroupClaims(f.snap.doc, f.token.user))
    BY <2>1, <2>2, ClaimsTruthful
  <2>4. /\ Truthful(f.snap.doc, f.token.user, Listed(n))
        /\ Truthful(f.snap.doc, f.token.user, NoClaim)
    BY DEF Truthful, Listed, NoClaim
  <2>5. Memberships(f) \in {GroupClaims(f.snap.doc, f.token.user), Listed(n), NoClaim}
    BY <2>2 DEF Memberships
  <2>6. Truthful(f.snap.doc, f.token.user, Memberships(f))
    BY <2>3, <2>4, <2>5
  <2>7. Truthful(active.doc, f.token.user, Memberships(f))
    BY <2>1, <2>6, SameRoster
  <2> QED BY <2>1, <2>7 DEF TokenOK
<1>2. IInv /\ AInv /\ [AccessNext]_allVars =>
        [\A a \in answers' \ answers : \A claim \in {a.token.claim, a.claim} :
           claim.kind = "groups" =>
             \/ claim.n = GroupCount(active.doc, a.token.user)
             \/ /\ Vendor(active.doc) = "generic"
                /\ claim.n < GroupCount(active.doc, a.token.user)]_allVars
  BY <1>1 DEF Truthful
<1>3. AccessSpec => []IInv
  BY AccessImplementsDataPlane, Invariance, PTL
<1> QED BY <1>2, <1>3, AccessInvariance, PTL DEF AccessSpec, GroupsCurrent

=============================================================================
