------------------------------ MODULE Issuance ------------------------------
(***************************************************************************)
(* What LabSSO's data plane promises, with nothing of how it keeps it: no  *)
(* snapshots, generations, handlers or tables.  There is one policy in     *)
(* force and a set of live tickets (pending requests, authorization codes, *)
(* refresh grants, login sessions).  Nothing is admitted and nothing is    *)
(* issued that the policy in force forbids; a policy comes into force only *)
(* when no live ticket offends it; and what is issued in exchange for a    *)
(* ticket costs that ticket, for good.  DataPlane implements this          *)
(* specification under the mapping it states.                              *)
(***************************************************************************)
EXTENDS Naturals

CONSTANT None   \* no user, no client, no protocol

VARIABLES
    policy,     \* the configuration in force
    live,       \* tickets that can be presented
    claimed,    \* tickets taken by a request that has not answered yet
    delivered,  \* what was issued
    next        \* the next fresh handle

promiseVars == <<policy, live, claimed, delivered, next>>

Permits(p, t) ==
    /\ t.user # None =>
         /\ t.user \in p.users
         /\ p.mode # "force-fail" /\ (p.mode = "always" => t.mfa)
    /\ t.client # None => t.client \in p.clients
    /\ t.protocol # None => t.protocol \in p.protocols

Ticket(id, u, c, mfa, protocol) ==
    [id |-> id, user |-> u, client |-> c, mfa |-> mfa, protocol |-> protocol]

Handles == {t.id : t \in live}
Spend(h) == {t \in live : t.id # h}

Init ==
    /\ live = {} /\ claimed = {} /\ delivered = {}
    /\ next = 1

\* A login session or a pending request.
Admit ==
    /\ next' = next + 1
    /\ UNCHANGED <<policy, claimed, delivered>>
    /\ \E t \in live' \ live :
         /\ t.id = next /\ Permits(policy, t)
         /\ live' = live \cup {t}

\* A ticket is taken before its answer is ready; the taker may also fail.
Claim(h) ==
    /\ UNCHANGED <<next, delivered, policy>>
    /\ live' = Spend(h)
    /\ claimed' = claimed \cup {h}

Abandon(h) ==
    /\ UNCHANGED <<next, delivered, policy, live>>
    /\ claimed' = claimed \ {h}

\* An answer, in exchange for the ticket e.from or (e.from = 0) on the
\* strength of a session alone.  It may be a ticket in its turn.
Answer ==
    /\ next' = next + 1
    /\ UNCHANGED policy
    /\ \E e \in delivered' \ delivered :
         LET t == Ticket(e.to, e.user, e.client, e.mfa, None)
         IN  /\ delivered' = delivered \cup {e}
             /\ e.to = next
             /\ e.from \in claimed \cup Handles \cup {0}
             /\ e.user # None => Permits(policy, t)
             /\ live' \in {Spend(e.from), Spend(e.from) \cup {t}}
             /\ claimed' = claimed \ {e.from}

\* Tickets run out, are revoked, or die with their session.
Drop ==
    /\ UNCHANGED <<next, delivered, policy, claimed>>
    /\ live' \subseteq live

Enact ==
    /\ UNCHANGED <<next, delivered, claimed, live>>
    /\ \A t \in live : Permits(policy', t)

Next ==
    \/ Drop \/ Enact
    \/ \E h \in Handles : Claim(h)
    \/ \E h \in claimed : Abandon(h)
    \/ Admit \/ Answer

Spec == Init /\ [][Next]_promiseVars
=============================================================================
