------------------------------- MODULE Access -------------------------------
(***************************************************************************)
(* Access tokens beside the data plane: the tokens that the token endpoint *)
(* and the operator's mint operation sign, and the userinfo endpoint that  *)
(* accepts them.  A signed token cannot be taken back; what ends it is the *)
(* snapshot generation it carries, compared with the runtime's minimum.    *)
(*                                                                         *)
(* The tokens ask for the groups scope, and carry the memberships of their *)
(* user at signing, or what the vendor says instead when these are many.   *)
(*                                                                         *)
(* A user is configured here exactly if enabled.  Signature, issuer and    *)
(* lifetime checks are part of the refusals.                               *)
(***************************************************************************)
EXTENDS DataPlane

CONSTANTS
    Callers,    \* concurrent userinfo and mint calls
    Rosters,    \* vendor and number of each user's groups, by doc.roster
    Overages    \* group overage policies, by doc.aux

Vendors == {"okta", "entra", "generic"}
GroupOverage == [OktaFailAt: Nat, GenericCap: Nat, EntraGraphStub: BOOLEAN]

ASSUME RosterAssumption ==
    \A d \in Docs : /\ Rosters[d.roster] \in [vendor: Vendors, groups: [Users -> Nat]]
                    /\ Overages[d.aux] \in GroupOverage

\* Someone signs in somewhere: the frame of an idle call needs a placeholder.
ASSUME PopulatedAssumption == Users # {} /\ Clients # {}

VARIABLES
    tokens,     \* signed access tokens in circulation
    call,       \* the frame of each call
    answers,    \* the token accepted by the last step, and the groups answered
    minted      \* the token minted by the last step, and the configuration it was
                \* signed under

accessVars == <<tokens, call, answers, minted>>
allVars == <<vars, accessVars>>

-----------------------------------------------------------------------------
(* Group claims: a list of n groups, a pointer to the Graph endpoint, an   *)
(* error, or no claim.                                                     *)

GroupClaim == [kind: {"groups", "source", "error", "none"}, n: Nat]

Listed(n) == [kind |-> "groups", n |-> n]
Elsewhere == [kind |-> "source", n |-> 0]
Failed == [kind |-> "error", n |-> 0]
NoClaim == [kind |-> "none", n |-> 0]

Limit(configured, default) == IF configured < 1 THEN default ELSE configured

Vendor(doc) == Rosters[doc.roster].vendor
GroupCount(doc, u) == Rosters[doc.roster].groups[u]

\* Mutant: every vendor cuts the list.
GroupClaimsCut(doc, u) ==
    LET cap == Limit(Overages[doc.aux].GenericCap, 200)
    IN  Listed(IF GroupCount(doc, u) > cap THEN cap ELSE GroupCount(doc, u))

GroupClaims(doc, u) ==
    LET n == GroupCount(doc, u)
        failAt == Limit(Overages[doc.aux].OktaFailAt, 100)
        cap == Limit(Overages[doc.aux].GenericCap, 200)
    IN  CASE Vendor(doc) = "okta" -> IF n >= failAt THEN Failed ELSE Listed(n)
          [] Vendor(doc) = "entra" /\ n > cap ->
               IF Overages[doc.aux].EntraGraphStub THEN Elsewhere ELSE Failed
          [] Vendor(doc) = "entra" /\ n <= cap -> Listed(n)
          [] OTHER -> Listed(IF n > cap THEN cap ELSE n)

AccessToken == [gen: Nat, user: Users, client: Clients, claim: GroupClaim]
CallFrame == [pc: {"idle", "ui_policy", "ui_generation", "mt_sign"},
              graph: BOOLEAN, snap: Snapshot, token: AccessToken]

AccessTypeOK ==
    /\ TypeOK
    /\ tokens \subseteq AccessToken
    /\ call \in [Callers -> CallFrame]
    /\ answers \subseteq [token: AccessToken, claim: GroupClaim]
    /\ minted \subseteq [token: AccessToken, doc: Document]

IdleCall == [pc |-> "idle", graph |-> FALSE, snap |-> BootSnapshot,
             token |-> [gen |-> 0, user |-> CHOOSE u \in Users : TRUE,
                        client |-> CHOOSE c \in Clients : TRUE, claim |-> NoClaim]]

AccessInit ==
    /\ Init
    /\ tokens = {} /\ answers = {} /\ minted = {}
    /\ call = [q \in Callers |-> IdleCall]

Silent == answers' = {} /\ minted' = {}
Returns(q) == call' = [call EXCEPT ![q] = IdleCall]

\* GET /userinfo, or the Graph endpoint that lists a member's groups, with a
\* token in circulation.
Userinfo(q) ==
    /\ call[q].pc = "idle" /\ "oidc" \in active.doc.protocols
    /\ \E t \in tokens, graph \in BOOLEAN :
         /\ graph => Vendor(active.doc) = "entra" /\ Overages[active.doc.aux].EntraGraphStub
         /\ call' = [call EXCEPT ![q] = [pc |-> "ui_policy", graph |-> graph,
                                         snap |-> active, token |-> t]]
    /\ Silent /\ UNCHANGED tokens

\* accessUsable, first half: the captured snapshot and the force-fail flag.
UserinfoPolicy(q) ==
    /\ call[q].pc = "ui_policy"
    /\ LET f == call[q]
       IN  IF /\ UserUsable(f.snap, f.token.user) /\ ~forceFail
              /\ f.snap.doc.mode # "force-fail"
           THEN call' = [call EXCEPT ![q].pc = "ui_generation"] ELSE Returns(q)
    /\ Silent /\ UNCHANGED tokens

\* Mutant: the generation the token carries is not checked.
TokenAcceptedBlind(f) == f.token.client \in f.snap.doc.clients

\* accessUsable, second half.
TokenAccepted(f) ==
    /\ f.token.gen >= 1 /\ GenerationUsable(f.token.gen)
    /\ f.token.client \in f.snap.doc.clients

\* Userinfo applies the overage policy again, and leaves the groups out if they
\* cannot be told; the Graph endpoint lists all.
Memberships(f) ==
    LET claim == GroupClaims(f.snap.doc, f.token.user)
    IN  CASE f.graph -> Listed(GroupCount(f.snap.doc, f.token.user))
          [] ~f.graph /\ claim = Failed -> NoClaim
          [] OTHER -> claim

UserinfoAnswer(q) ==
    /\ call[q].pc = "ui_generation" /\ Returns(q)
    /\ answers' = IF TokenAccepted(call[q])
                  THEN {[token |-> call[q].token, claim |-> Memberships(call[q])]}
                  ELSE {}
    /\ minted' = {} /\ UNCHANGED tokens

\* App.MintToken looks the user and the client up ...
MintToken(q) ==
    /\ call[q].pc = "idle"
    /\ \E u \in active.doc.users, c \in active.doc.clients :
         call' = [call EXCEPT ![q].pc = "mt_sign", ![q].token.user = u, ![q].token.client = c]
    /\ Silent /\ UNCHANGED tokens

\* Mutant: the token does not carry the generation.
MintUnstamped(q) ==
    /\ call[q].pc = "mt_sign" /\ Returns(q)
    /\ tokens' = tokens \cup {[user |-> call[q].token.user, client |-> call[q].token.client,
                           claim |-> NoClaim]}
    /\ Silent

\* ... and Provider.Mint loads the active snapshot again to sign.
Mint(q) ==
    /\ call[q].pc = "mt_sign" /\ Returns(q)
    /\ LET u == call[q].token.user
           claim == IF u \in active.doc.users THEN GroupClaims(active.doc, u) ELSE NoClaim
           t == [call[q].token EXCEPT !.gen = active.gen, !.claim = claim]
       IN  IF "oidc" \in active.doc.protocols /\ claim # Failed
           THEN /\ tokens' = tokens \cup {t}
                /\ minted' = {[token |-> t, doc |-> active.doc]}
           ELSE minted' = {} /\ UNCHANGED tokens
    /\ answers' = {}

\* The access tokens of a token response carry the captured generation and
\* the memberships in the captured snapshot; if these cannot be told, the
\* request fails (DataPlane's TokenIssueFails).
Signed ==
    {[gen |-> req[p].snap.gen, user |-> req[p].user, client |-> req[p].client,
      claim |-> GroupClaims(req[p].snap.doc, req[p].user)] :
        p \in {q \in Requests : req[q].pc = "tk_store" /\ req'[q] # req[q]}}

AccessNext ==
    \/ /\ Next
       /\ tokens' = IF issued' = issued THEN tokens ELSE tokens \cup Signed
       /\ issued' # issued => \A t \in Signed : t.claim # Failed
       /\ Silent /\ UNCHANGED call
    \/ /\ \E q \in Callers :
            Userinfo(q) \/ UserinfoPolicy(q) \/ UserinfoAnswer(q) \/ MintToken(q) \/ Mint(q)
       /\ UNCHANGED vars

AccessSpec == AccessInit /\ [][AccessNext]_allVars

-----------------------------------------------------------------------------
(* Properties.                                                             *)

\* Userinfo answers for a token only while the active configuration admits
\* its user and client, although both were checked against the snapshot the
\* request captured, and the token may be older still.
UserinfoHonoursPolicy ==
    [][\A a \in answers' \ answers :
          UserUsable(active, a.token.user) /\ a.token.client \in active.doc.clients]_allVars

\* A token that is still accepted tells the truth about the memberships of
\* its user: a list that it carries, or that the endpoint answers, is the
\* complete one of the active configuration, however old the token and the
\* captured snapshot are.  Only a generic vendor cuts lists.
GroupsCurrent ==
    [][\A a \in answers' \ answers : \A claim \in {a.token.claim, a.claim} :
          claim.kind = "groups" =>
            \/ claim.n = GroupCount(active.doc, a.token.user)
            \/ /\ Vendor(active.doc) = "generic"
               /\ claim.n < GroupCount(active.doc, a.token.user)]_allVars

\* Issuance honours the current configuration: a minted token is for a user
\* and a client of the configuration it is signed under.
MintHonoursConfiguration ==
    \A m \in minted : m.token.user \in m.doc.users /\ m.token.client \in m.doc.clients

=============================================================================
