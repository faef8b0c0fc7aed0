------------------------------- MODULE Limiter -------------------------------
(***************************************************************************)
(* The per-address rate limiter in front of the OIDC endpoints and the     *)
(* login form (oidc/limit.go; loginui/ui.go holds a copy): a sliding       *)
(* window of admission times per source address, in a bounded number of    *)
(* buckets.  allow runs under the limiter's mutex and is one action.       *)
(***************************************************************************)
EXTENDS Naturals, Sequences, FiniteSets

CONSTANTS
    Addresses,  \* source addresses
    Limit,      \* admissions per window
    Window,     \* length of the window
    Buckets,    \* addresses remembered at a time (4096 in the code)
    MaxNow      \* bound on time

ASSUME LimiterAssumption ==
    {Limit, Window, Buckets} \subseteq Nat \ {0} /\ MaxNow \in Nat

VARIABLES
    now,        \* the clock
    hits,       \* the remembered admission times of each address
    admitted,   \* history: all admissions of each address
    verdict     \* the last answer

vars == <<now, hits, admitted, verdict>>

\* The types, and the bounds on the limiter's memory: a new address gets no
\* bucket when all are taken, and a bucket holds no more times than an address
\* may be admitted in a window.
TypeOK ==
    /\ now \in Nat
    /\ DOMAIN hits \subseteq Addresses /\ Cardinality(DOMAIN hits) <= Buckets
    /\ \A a \in DOMAIN hits : hits[a] \in Seq(0 .. now) /\ Len(hits[a]) <= Limit
    /\ admitted \in [Addresses -> Seq(0 .. now)]
    /\ verdict \in [address: Addresses, ok: BOOLEAN] \cup {<<>>}

Init ==
    /\ now = 0
    /\ hits = <<>>
    /\ admitted = [a \in Addresses |-> <<>>]
    /\ verdict = <<>>

\* A time is in the window if it is after now - Window.
Recent(t) == t + Window > now

\* Mutant: a bucket goes by its oldest admission.
SweptByOldest ==
    {a \in DOMAIN hits : hits[a] # <<>> /\ Recent(Head(hits[a]))}

\* The buckets that survive the sweep: those whose last admission is recent.
Swept == {a \in DOMAIN hits : hits[a] # <<>> /\ Recent(hits[a][Len(hits[a])])}

\* Mutant: off by one at the bound.
HasBucketLax(a) == a \in Swept \/ Cardinality(Swept) <= Buckets

HasBucket(a) == a \in Swept \/ Cardinality(Swept) < Buckets

\* The recent ones of some times, in their order.
recentOf(times) ==
    LET kept[n \in 0 .. Len(times)] ==
            IF n = 0 THEN <<>>
            ELSE IF Recent(times[n]) THEN Append(kept[n - 1], times[n]) ELSE kept[n - 1]
    IN  kept[Len(times)]

Kept(a) == IF a \in Swept THEN recentOf(hits[a]) ELSE <<>>

\* Mutant: a refused request extends the window as well.
RecordedAlways(a) == Append(Kept(a), now)

Recorded(a) == IF Len(Kept(a)) < Limit THEN Append(Kept(a), now) ELSE Kept(a)

allow(a) ==
    LET bucket == HasBucket(a)
        ok == bucket /\ Len(Kept(a)) < Limit
    IN  /\ hits' = [b \in Swept \cup (IF bucket THEN {a} ELSE {}) |->
                      IF b = a THEN Recorded(a) ELSE hits[b]]
        /\ admitted' = IF ok THEN [admitted EXCEPT ![a] = Append(@, now)] ELSE admitted
        /\ verdict' = [address |-> a, ok |-> ok]
        /\ UNCHANGED now

Tick ==
    /\ now < MaxNow
    /\ now' = now + 1
    /\ UNCHANGED <<hits, admitted, verdict>>

Next == Tick \/ \E a \in Addresses : allow(a)

Spec == Init /\ [][Next]_vars

-----------------------------------------------------------------------------
(* Properties.                                                             *)

\* How many admissions an address had in the window that ends at t.
InWindow(a, t) ==
    Cardinality({i \in DOMAIN admitted[a] : admitted[a][i] <= t /\ admitted[a][i] + Window > t})

\* No window, wherever it starts, holds more than Limit admissions of an
\* address, although buckets are swept and forgotten in between.
RateBounded == \A a \in Addresses : \A t \in 0 .. now : InWindow(a, t) <= Limit

\* A refusal is deserved: the address used up its window, or all buckets are
\* taken by other addresses with an admission in theirs.  In particular
\* refused requests do not prolong the refusal.
RefusalDeserved ==
    [][\A a \in Addresses :
          verdict' = [address |-> a, ok |-> FALSE] /\ (verdict' # verdict \/ hits' # hits) =>
            \/ InWindow(a, now) >= Limit
            \/ Cardinality({b \in Addresses \ {a} : InWindow(b, now) > 0}) >= Buckets]_vars

=============================================================================
