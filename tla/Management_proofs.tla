-------------------------- MODULE Management_proofs --------------------------
(***************************************************************************)
(* What holds of the control plane for every size of the cache and the     *)
(* ring and for every set of documents, changes and keys.                  *)
(*                                                                         *)
(* Three arguments go side by side.  The documents: applying operations    *)
(* keeps a document a document, by induction over the operations.  The     *)
(* cache: its order and its map agree, and whatever follows the key of a   *)
(* mutation in the order was used after it (Remembered), so that the key   *)
(* is evicted only after IdempCap others.  The ring: its events are the    *)
(* last ones, numbered without a gap (Ring), and the applied mutations     *)
(* are a chain that ends in the active document (Chain).                   *)
(***************************************************************************)
EXTENDS Management, SequenceTheorems, FiniteSetTheorems, WellFoundedInduction, TLAPS

-----------------------------------------------------------------------------
(* The invariant.                                                          *)

\* A client sends a revision of a document, or none.
Inputs == [expected: Document \cup {NoDoc}, reason: BOOLEAN]
Arguments == Changes \cup Knobs \cup Client \cup BOOLEAN
Fingerprint == Inputs \X Arguments
Key == Calls \X Keys
CacheEntry == [fp: Fingerprint, plan: Plan, event: Nat]
Mutation == [key: ScopedKey, fp: Fingerprint, previous: Document, revision: Document,
             event: Nat, others: SUBSET Key]

\* What follows an element in a sequence.
Follows(s, e) == {s[j] : j \in {i \in DOMAIN s : \E h \in DOMAIN s : h < i /\ s[h] = e}}

\* The documents that are active, and loaded at start and by resets.
Documents ==
    /\ active \in Snapshot
    /\ file \in Document \cup {NoDoc}
    /\ BootstrapAgrees

\* A plan is what its own operations make of the revision it expects.
Predicts(e) ==
    /\ e.plan.previous = e.fp[1].expected
    /\ e.plan.candidate = Normalize(applyOperations(e.fp[1].expected, e.fp[2]))

Cache ==
    /\ cache = [order |-> cache.order, m |-> cache.m]
    /\ cache.order \in Seq(Key)
    /\ \A k \in DOMAIN cache.m : cache.m[k] \in CacheEntry
    /\ \A k \in DOMAIN cache.m : k[1] = "plan" => Predicts(cache.m[k])

\* The events in the ring are the last ones, in order.
Ring ==
    /\ ring \in Seq(Event) /\ Len(ring) <= RingCap
    /\ seq \in Nat /\ Len(ring) <= seq
    /\ \A n \in 1 .. Len(ring) : ring[n].id = seq - Len(ring) + n

Chain ==
    /\ applied \in Seq(Mutation)
    /\ \A i \in 1 .. Len(applied) :
         /\ applied[i].event \in 1 .. seq
         /\ applied[i].revision =
              IF i = Len(applied) THEN active.doc ELSE applied[i + 1].previous

\* The event of a mutation leaves the ring no earlier than it must.
Recorded(events, last, r) ==
    last - r.event < RingCap =>
        \E n \in 1 .. Len(events) : /\ events[n].id = r.event
                                    /\ events[n].previous = r.previous
                                    /\ events[n].revision = r.revision

\* No later mutation has the same key.
Newest(records, i) ==
    \A j \in 1 .. Len(records) : j > i => records[j].key # records[i].key

\* The key of a mutation is in the cache, where only keys used since follow
\* it, unless there were too many of those.
Remembered(c, r) ==
    /\ r.key \in DOMAIN c.m =>
         /\ c.m[r.key].fp = r.fp /\ c.m[r.key].event = r.event
         /\ Follows(c.order, r.key) \subseteq r.others
    /\ r.key \notin DOMAIN c.m => Cardinality(r.others) >= IdempCap

Keyed(c, records, i) ==
    /\ IsFiniteSet(records[i].others)
    /\ records[i].key # NoKey =>
         /\ records[i].key[1] # "plan"
         /\ Newest(records, i) => Remembered(c, records[i])

MInv ==
    /\ Documents
    /\ Cache /\ CacheSound
    /\ Ring /\ Chain
    /\ \A i \in 1 .. Len(applied) :
         Recorded(ring, seq, applied[i]) /\ Keyed(cache, applied, i)

-----------------------------------------------------------------------------
(* Induction.                                                              *)

Less == OpToRel(<, Nat)

\* The natural numbers are well founded.
LEMMA LessWellFounded ==
    IsWellFoundedOn(Less, Nat) /\ \A x, y \in Nat : y < x => <<y, x>> \in Less
<1>1. IsWellFoundedOn(Less, Nat)
  BY NatLessThanWellFounded DEF Less
<1>2. \A x, y \in Nat : y < x => <<y, x>> \in Less
  BY DEF Less, OpToRel
<1> QED BY <1>1, <1>2

\* A set of natural numbers that is not empty has a least element.
LEMMA LeastElement ==
    ASSUME NEW S \in SUBSET Nat, S # {}
    PROVE  \E x \in S : \A y \in S : x <= y
<1>1. PICK x \in S : \A y \in S : ~ (<<y, x>> \in Less)
  BY LessWellFounded, WFMin
<1>2. \A y \in S : y \in Nat /\ x \in Nat
  OBVIOUS
<1>3. \A y \in S : ~(y < x)
  BY <1>1, <1>2, LessWellFounded
<1> QED BY <1>2, <1>3

\* What holds of 0 and passes to the successor holds of all numbers.
LEMMA SetInduction ==
    ASSUME NEW S, 0 \in S, \A n \in Nat : n \in S => n + 1 \in S
    PROVE  Nat \subseteq S
<1> SUFFICES ASSUME Nat \ S # {} PROVE FALSE
  OBVIOUS
<1>1. PICK x \in Nat \ S : \A y \in Nat \ S : x <= y
  BY LeastElement
<1>2. x - 1 \in Nat /\ x - 1 < x
  OBVIOUS
<1>3. x - 1 \in S
  BY <1>1, <1>2
<1> QED BY <1>2, <1>3

-----------------------------------------------------------------------------
(* Sequences.                                                              *)

\* The first of some positions.
LEMMA FirstPosition ==
    ASSUME NEW I \in SUBSET Nat, I # {}
    PROVE  Min(I) \in I /\ \A j \in I : Min(I) <= j
<1>1. \E x \in I : \A y \in I : x <= y
  BY LeastElement
<1> QED BY <1>1 DEF Min

\* A sequence without the entry of one position.
LEMMA Removed ==
    ASSUME NEW S, NEW s \in Seq(S), NEW p \in 1 .. Len(s)
    PROVE  /\ RemoveAt(s, p) \in Seq(S) /\ Len(RemoveAt(s, p)) = Len(s) - 1
           /\ \A j \in 1 .. Len(s) - 1 :
                RemoveAt(s, p)[j] = IF j < p THEN s[j] ELSE s[j + 1]
<1> DEFINE a == SubSeq(s, 1, p - 1)
           b == SubSeq(s, p + 1, Len(s))
<1>0. Len(s) \in Nat /\ p \in Nat /\ p - 1 \in Nat
  OBVIOUS
<1>1. /\ a \in Seq(S) /\ Len(a) = p - 1
      /\ \A j \in 1 .. p - 1 : a[j] = s[j]
  <2>1. \A i \in 1 .. p - 1 : s[i] \in S
    OBVIOUS
  <2>2. 1 \in Int /\ p - 1 \in Int
    OBVIOUS
  <2> QED BY <1>0, <2>1, <2>2, SubSeqProperties
<1>2. /\ b \in Seq(S) /\ Len(b) = Len(s) - p
      /\ \A j \in 1 .. Len(s) - p : b[j] = s[p + j]
  <2>1. \A i \in p + 1 .. Len(s) : s[i] \in S
    OBVIOUS
  <2>2. p + 1 \in Int /\ Len(s) \in Int
    BY <1>0
  <2> QED BY <1>0, <2>1, <2>2, SubSeqProperties
<1>3. RemoveAt(s, p) = a \o b
  BY DEF RemoveAt
<1> HIDE DEF a, b
<1>4. /\ a \o b \in Seq(S) /\ Len(a \o b) = Len(s) - 1
      /\ \A j \in 1 .. Len(s) - 1 :
           (a \o b)[j] = IF j <= p - 1 THEN a[j] ELSE b[j - (p - 1)]
  <2>1. a \in Seq(S) /\ b \in Seq(S)
    BY <1>1, <1>2
  <2>2. /\ a \o b \in Seq(S) /\ Len(a \o b) = Len(a) + Len(b)
        /\ \A j \in 1 .. Len(a) + Len(b) :
             (a \o b)[j] = IF j <= Len(a) THEN a[j] ELSE b[j - Len(a)]
    BY <2>1, ConcatProperties
  <2>3. Len(a) + Len(b) = Len(s) - 1
    BY <1>0, <1>1, <1>2
  <2> QED BY <1>1, <2>2, <2>3
<1>5. \A j \in 1 .. Len(s) - 1 : ~(j <= p - 1) => b[j - (p - 1)] = s[j + 1]
  BY <1>2
<1> QED BY <1>1, <1>3, <1>4, <1>5

\* Where a predicate on entries selects some position, it selects the first.
LEMMA Selected ==
    ASSUME NEW s, NEW p, NEW I, I = {j \in 1 .. Len(s) : s[j] = p}, Len(s) \in Nat, I # {}
    PROVE  /\ SelectInSeq(s, LAMBDA j : j = p) \in 1 .. Len(s)
           /\ s[SelectInSeq(s, LAMBDA j : j = p)] = p
<1>1. SelectInSeq(s, LAMBDA j : j = p) = Min(I)
  BY DEF SelectInSeq
<1>2. I \in SUBSET Nat
  OBVIOUS
<1>3. Min(I) \in I
  BY <1>2, FirstPosition
<1> QED BY <1>1, <1>3

\* An entry moved to the end of a sequence without duplicates, point by point.
LEMMA MovedPointwise ==
    ASSUME NEW n \in Nat, NEW s, NEW q, DOMAIN s = 1 .. n, DOMAIN q = 1 .. n,
           IsInjective(s), NEW i \in 1 .. n, q[n] = s[i],
           \A j \in 1 .. n - 1 : j < i => q[j] = s[j],
           \A j \in 1 .. n - 1 : ~(j < i) => q[j] = s[j + 1]
    PROVE  /\ IsInjective(q) /\ ToSet(q) = ToSet(s)
           /\ Follows(q, s[i]) = {}
           /\ \A e : Follows(q, e) \subseteq Follows(s, e) \cup {s[i]}
<1> DEFINE at(j) == IF j = n THEN i ELSE IF j < i THEN j ELSE j + 1
<1>1. \A j \in 1 .. n : at(j) \in 1 .. n /\ q[j] = s[at(j)]
  OBVIOUS
<1>2. \A a, b \in 1 .. n : at(a) = at(b) => a = b
  OBVIOUS
<1>3. \A a, b \in 1 .. n : b # n /\ a < b => at(a) < at(b) /\ at(b) # i /\ at(a) # i
  OBVIOUS
<1>4. \A j \in 1 .. n : \E h \in 1 .. n : at(h) = j
  <2> TAKE j \in 1 .. n
  <2>1. CASE j = i
    BY <2>1
  <2>2. CASE j < i
    <3>1. at(j) = j
      BY <2>2
    <3> QED BY <3>1
  <2>3. CASE j > i
    <3>1. j - 1 \in 1 .. n /\ at(j - 1) = j
      BY <2>3
    <3> QED BY <3>1
  <2> QED BY <2>1, <2>2, <2>3
<1>5. \A a \in 1 .. n : at(a) = i => a = n
  OBVIOUS
<1> HIDE DEF at
<1>6. \A a, b \in 1 .. n : s[a] = s[b] => a = b
  BY DEF IsInjective
<1>7. IsInjective(q)
  BY <1>1, <1>2, <1>6 DEF IsInjective
<1>8. ToSet(q) = ToSet(s)
  <2>1. \A j \in 1 .. n : q[j] \in {s[a] : a \in 1 .. n}
    BY <1>1
  <2>2. \A a \in 1 .. n : s[a] \in {q[j] : j \in 1 .. n}
    BY <1>1, <1>4
  <2>3. ToSet(q) = {q[j] : j \in 1 .. n} /\ ToSet(s) = {s[j] : j \in 1 .. n}
    BY DEF ToSet
  <2>4. {q[j] : j \in 1 .. n} = {s[j] : j \in 1 .. n}
    BY <2>1, <2>2, Zenon
  <2> QED BY <2>3, <2>4
<1>9. Follows(q, s[i]) = {}
  <2> SUFFICES ASSUME NEW j \in 1 .. n, NEW h \in 1 .. n, h < j, q[h] = s[i]
               PROVE  FALSE
    BY DEF Follows
  <2>1. at(h) = i
    BY <1>1, <1>6
  <2>2. h = n
    BY <1>5, <2>1
  <2> QED BY <2>2
<1>10. ASSUME NEW e PROVE Follows(q, e) \subseteq Follows(s, e) \cup {s[i]}
  <2> SUFFICES ASSUME NEW j \in 1 .. n, NEW h \in 1 .. n, h < j, q[h] = e
               PROVE  q[j] \in Follows(s, e) \cup {s[i]}
    BY DEF Follows
  <2>1. CASE j = n
    BY <2>1
  <2>2. CASE j # n
    <3>1. at(h) \in 1 .. n /\ at(j) \in 1 .. n /\ at(h) < at(j)
      BY <1>1, <1>3, <2>2
    <3>2. s[at(h)] = e /\ s[at(j)] = q[j]
      BY <1>1
    <3> QED BY <3>1, <3>2 DEF Follows
  <2> QED BY <2>1, <2>2
<1> QED BY <1>7, <1>8, <1>9, <1>10

\* An entry moved to the end of a sequence without duplicates.
LEMMA Moved ==
    ASSUME NEW S, NEW s \in Seq(S), IsInjective(s), NEW i \in 1 .. Len(s)
    PROVE  LET q == Append(RemoveAt(s, i), s[i])
           IN  /\ q \in Seq(S) /\ Len(q) = Len(s)
               /\ IsInjective(q) /\ ToSet(q) = ToSet(s)
               /\ Follows(q, s[i]) = {}
               /\ \A e : Follows(q, e) \subseteq Follows(s, e) \cup {s[i]}
<1> DEFINE n == Len(s)
           r == RemoveAt(s, i)
           q == Append(r, s[i])
<1>1. n \in Nat /\ DOMAIN s = 1 .. n /\ s[i] \in S /\ i \in 1 .. n
  OBVIOUS
<1>2. /\ r \in Seq(S) /\ Len(r) = n - 1
      /\ \A j \in 1 .. n - 1 : r[j] = IF j < i THEN s[j] ELSE s[j + 1]
  BY Removed
<1> HIDE DEF r, n
<1>3. /\ q \in Seq(S) /\ Len(q) = Len(r) + 1
      /\ \A j \in 1 .. Len(r) : q[j] = r[j]
      /\ q[Len(r) + 1] = s[i]
  BY <1>1, <1>2, AppendProperties
<1> HIDE DEF q
<1>4. Len(r) + 1 = n
  BY <1>1, <1>2
<1>5. DOMAIN q = 1 .. n /\ Len(q) = n /\ q[n] = s[i]
  BY <1>3, <1>4
<1>6. \A j \in 1 .. n - 1 : q[j] = r[j]
  BY <1>2, <1>3
<1>7. /\ \A j \in 1 .. n - 1 : j < i => q[j] = s[j]
      /\ \A j \in 1 .. n - 1 : ~(j < i) => q[j] = s[j + 1]
  BY <1>2, <1>6
<1>8. /\ IsInjective(q) /\ ToSet(q) = ToSet(s)
      /\ Follows(q, s[i]) = {}
      /\ \A e : Follows(q, e) \subseteq Follows(s, e) \cup {s[i]}
  BY <1>1, <1>5, <1>7, MovedPointwise
<1> QED BY <1>3, <1>5, <1>8 DEF q, r, n

\* A new entry appended to a sequence without duplicates.
LEMMA Appended ==
    ASSUME NEW S, NEW s \in Seq(S), IsInjective(s), NEW k \in S, k \notin ToSet(s)
    PROVE  LET q == Append(s, k)
           IN  /\ q \in Seq(S) /\ Len(q) = Len(s) + 1
               /\ IsInjective(q) /\ ToSet(q) = ToSet(s) \cup {k}
               /\ Follows(q, k) = {}
               /\ \A e : Follows(q, e) \subseteq Follows(s, e) \cup {k}
<1> DEFINE n == Len(s)
           q == Append(s, k)
<1>1. n \in Nat /\ DOMAIN s = 1 .. n
  OBVIOUS
<1>2. /\ q \in Seq(S) /\ Len(q) = n + 1 /\ q[n + 1] = k
      /\ \A j \in 1 .. n : q[j] = s[j]
  BY AppendProperties
<1> HIDE DEF n, q
<1>3. DOMAIN q = 1 .. n + 1
  BY <1>2
<1>4. \A j \in 1 .. n : s[j] # k
  BY <1>1 DEF ToSet
<1>5. IsInjective(q)
  <2>1. \A a, b \in 1 .. n : q[a] = q[b] => a = b
    BY <1>1, <1>2 DEF IsInjective
  <2>2. \A a \in 1 .. n : q[a] # k
    BY <1>2, <1>4
  <2>3. \A a \in 1 .. n + 1 : a = n + 1 \/ a \in 1 .. n
    BY <1>1
  <2> QED BY <1>2, <1>3, <2>1, <2>2, <2>3 DEF IsInjective
<1>6. ToSet(q) = ToSet(s) \cup {k}
  <2>1. \A a \in 1 .. n + 1 : a = n + 1 \/ a \in 1 .. n
    BY <1>1
  <2>2. n + 1 \in 1 .. n + 1 /\ \A a \in 1 .. n : a \in 1 .. n + 1
    BY <1>1
  <2> QED BY <1>1, <1>2, <1>3, <2>1, <2>2 DEF ToSet
<1>7. Follows(q, k) = {}
  <2> SUFFICES ASSUME NEW j \in 1 .. n + 1, NEW h \in 1 .. n + 1, h < j, q[h] = k
               PROVE  FALSE
    BY <1>3 DEF Follows
  <2> QED BY <1>1, <1>2, <1>4
<1>8. ASSUME NEW e PROVE Follows(q, e) \subseteq Follows(s, e) \cup {k}
  <2> SUFFICES ASSUME NEW j \in 1 .. n + 1, NEW h \in 1 .. n + 1, h < j, q[h] = e
               PROVE  q[j] \in Follows(s, e) \cup {k}
    BY <1>3 DEF Follows
  <2>1. CASE j = n + 1
    BY <1>2, <2>1
  <2>2. CASE j # n + 1
    <3>1. j \in 1 .. n /\ h \in 1 .. n
      BY <1>1, <2>2
    <3> QED BY <1>1, <1>2, <3>1 DEF Follows
  <2> QED BY <2>1, <2>2
<1> QED BY <1>2, <1>5, <1>6, <1>7, <1>8 DEF n, q

\* Dropping the first entry of a sequence without duplicates.
LEMMA Tailed ==
    ASSUME NEW S, NEW s \in Seq(S), IsInjective(s), s # <<>>
    PROVE  LET q == Tail(s)
           IN  /\ q \in Seq(S) /\ Len(q) = Len(s) - 1
               /\ IsInjective(q) /\ ToSet(q) = ToSet(s) \ {Head(s)}
               /\ Follows(s, Head(s)) = ToSet(q)
               /\ \A e : Follows(q, e) \subseteq Follows(s, e)
<1> DEFINE n == Len(s)
           q == Tail(s)
<1>1. n \in Nat /\ n > 0 /\ DOMAIN s = 1 .. n /\ Head(s) = s[1]
  OBVIOUS
<1>2. /\ q \in Seq(S) /\ Len(q) = n - 1
      /\ \A j \in 1 .. n - 1 : q[j] = s[j + 1]
  BY HeadTailProperties
<1> HIDE DEF n, q
<1>3. DOMAIN q = 1 .. n - 1
  BY <1>2
<1>4. \A a, b \in 1 .. n : s[a] = s[b] => a = b
  BY <1>1 DEF IsInjective
<1>5. IsInjective(q)
  BY <1>1, <1>2, <1>3, <1>4 DEF IsInjective
<1>6. \A j \in 2 .. n : j - 1 \in 1 .. n - 1 /\ s[j] = q[j - 1] /\ s[j] # s[1]
  BY <1>1, <1>2, <1>4
<1>7. ToSet(q) = {s[j] : j \in 2 .. n}
  <2>1. \A j \in 1 .. n - 1 : j + 1 \in 2 .. n /\ q[j] = s[j + 1]
    BY <1>1, <1>2
  <2>2. ToSet(q) = {q[j] : j \in 1 .. n - 1}
    BY <1>3 DEF ToSet
  <2>3. \A j \in 1 .. n - 1 : q[j] \in {s[h] : h \in 2 .. n}
    BY <2>1
  <2>4. \A h \in 2 .. n : s[h] \in {q[j] : j \in 1 .. n - 1}
    BY <1>6
  <2> QED BY <2>2, <2>3, <2>4
<1>8. ToSet(q) = ToSet(s) \ {Head(s)}
  <2>1. \A j \in 1 .. n : j = 1 \/ j \in 2 .. n
    BY <1>1
  <2>2. \A j \in 2 .. n : j \in 1 .. n
    BY <1>1
  <2>3. ToSet(s) = {s[j] : j \in 1 .. n}
    BY <1>1 DEF ToSet
  <2>4. 1 \in 1 .. n
    BY <1>1
  <2>5. ToSet(s) = {s[1]} \cup ToSet(q)
    BY <1>7, <2>1, <2>2, <2>3, <2>4
  <2>6. s[1] \notin ToSet(q)
    BY <1>6, <1>7
  <2> QED BY <1>1, <2>5, <2>6
<1>9. Follows(s, Head(s)) = ToSet(q)
  <2>1. \A j \in 1 .. n : (\E h \in 1 .. n : h < j /\ s[h] = s[1]) <=> j \in 2 .. n
    <3> TAKE j \in 1 .. n
    <3>1. 1 \in 1 .. n
      BY <1>1
    <3>2. j \in 2 .. n <=> 1 < j
      BY <1>1
    <3>3. \A h \in 1 .. n : s[h] = s[1] => h = 1
      BY <1>4, <3>1
    <3> QED BY <3>1, <3>2, <3>3
  <2>2. {i \in 1 .. n : \E h \in 1 .. n : h < i /\ s[h] = s[1]} = 2 .. n
    <3>1. \A j \in 2 .. n : j \in 1 .. n
      BY <1>1
    <3> QED BY <2>1, <3>1
  <2> QED BY <1>1, <1>7, <2>2 DEF Follows
<1>10. ASSUME NEW e PROVE Follows(q, e) \subseteq Follows(s, e)
  <2> SUFFICES ASSUME NEW j \in 1 .. n - 1, NEW h \in 1 .. n - 1, h < j, q[h] = e
               PROVE  q[j] \in Follows(s, e)
    BY <1>3 DEF Follows
  <2>1. j + 1 \in 1 .. n /\ h + 1 \in 1 .. n /\ h + 1 < j + 1
    BY <1>1
  <2>2. s[j + 1] = q[j] /\ s[h + 1] = e
    BY <1>2
  <2> QED BY <1>1, <2>1, <2>2 DEF Follows
<1> QED BY <1>2, <1>5, <1>8, <1>9, <1>10 DEF n, q


-----------------------------------------------------------------------------
(* Documents.                                                              *)

\* A document some singletons of which operations have emptied.
Draft == [clients: Seq(Client),
          single: [Singletons -> [knob: Knobs \cup {NoKnob}, rest: Nat]],
          listen: Addresses]

\* A document is one.
LEMMA DocumentIsDraft == Document \subseteq Draft
BY DEF Document, Draft, Singleton

\* The list operations keep a client list a client list.
LEMMA MutateListTyped ==
    ASSUME NEW d \in Draft, NEW op \in Operation, op.kind = "client",
           ~mutateListFails(d, op)
    PROVE  mutateList(d.clients, op) \in Seq(Client)
<1> DEFINE list == d.clients
           idx == SelectInSeq(list, LAMBDA c : c.id = op.id)
           I == {j \in 1 .. Len(list) : list[j].id = op.id}
<1>1. list \in Seq(Client) /\ Len(list) \in Nat /\ DOMAIN list = 1 .. Len(list)
  BY DEF Draft
<1>2. op.op \in {"add", "update", "remove"} /\ op.value \in Client
  BY DEF Operation, Singletons
<1>3. idx = IF I # {} THEN Min(I) ELSE 0
  BY Zenon DEF SelectInSeq
<1>4. mutateList(list, op) =
        CASE op.op = "remove" -> RemoveAt(list, idx)
          [] op.op = "add" -> Append(list, op.value)
          [] op.op = "update" -> [list EXCEPT ![idx] = op.value]
  BY Zenon DEF mutateList
<1>5. I # {} => idx \in 1 .. Len(list)
  <2>1. I \in SUBSET Nat
    OBVIOUS
  <2> HIDE DEF idx
  <2>2. I # {} => Min(I) \in I
    BY <2>1, FirstPosition
  <2> QED BY <1>3, <2>2
<1>6. op.op # "add" => I # {}
  BY <1>1 DEF mutateListFails, Defines
<1> SUFFICES mutateList(list, op) \in Seq(Client)
  OBVIOUS
<1> HIDE DEF idx, I, list
<1>7. CASE op.op = "remove"
  BY <1>1, <1>4, <1>5, <1>6, <1>7, Removed
<1>8. CASE op.op = "add"
  BY <1>1, <1>2, <1>4, <1>8, AppendProperties
<1>9. CASE op.op = "update"
  <2>1. idx \in 1 .. Len(list)
    BY <1>5, <1>6, <1>9
  <2>2. [list EXCEPT ![idx] = op.value] \in Seq(Client)
    BY <1>1, <1>2, <2>1, ExceptSeq
  <2> QED BY <1>4, <1>9, <2>2
<1> QED BY <1>2, <1>7, <1>8, <1>9

\* Applying an operation makes a draft of a draft.
LEMMA ApplyNextTyped ==
    ASSUME NEW d \in Draft \cup {NoDoc}, NEW op \in Operation
    PROVE  applyNext(d, op) \in Draft \cup {NoDoc}
<1>1. CASE d = NoDoc \/ (op.kind = "client" /\ mutateListFails(d, op))
  BY <1>1 DEF applyNext
<1>2. CASE d # NoDoc /\ ~(op.kind = "client" /\ mutateListFails(d, op))
  <2>1. applyNext(d, op) = applyOne(d, op) /\ d \in Draft
    BY <1>2 DEF applyNext
  <2>2. CASE op.kind = "client"
    <3>1. mutateList(d.clients, op) \in Seq(Client)
      BY <1>2, <2>1, <2>2, MutateListTyped
    <3>2. applyOne(d, op) = [d EXCEPT !.clients = mutateList(d.clients, op)]
      BY <2>2 DEF applyOne, Singletons
    <3> QED BY <2>1, <3>1, <3>2 DEF Draft
  <2>3. CASE op.kind \in Singletons
    <3>1. mutateSingleton(op) \in [knob: Knobs \cup {NoKnob}, rest: Nat]
      <4>1. op.value \in Singleton
        BY <2>3 DEF Operation, Singletons
      <4> QED BY <4>1 DEF mutateSingleton, Empty, Singleton
    <3>2. applyOne(d, op) = [d EXCEPT !.single[op.kind] = mutateSingleton(op)]
      BY <2>3 DEF applyOne, Singletons
    <3> DEFINE single == [d.single EXCEPT ![op.kind] = mutateSingleton(op)]
    <3>3. single \in [Singletons -> [knob: Knobs \cup {NoKnob}, rest: Nat]]
      BY <2>1, <2>3, <3>1 DEF Draft
    <3>4. applyOne(d, op) = [d EXCEPT !.single = single]
      BY <3>2, Zenon
    <3> HIDE DEF single
    <3> QED BY <2>1, <3>3, <3>4 DEF Draft
  <2>4. CASE op.kind = "listeners"
    <3>1. op.value \in Addresses
      BY <2>4 DEF Operation, Singletons
    <3>2. applyOne(d, op) = [d EXCEPT !.listen = op.value]
      BY <2>4 DEF applyOne, Singletons
    <3> QED BY <2>1, <3>1, <3>2 DEF Draft
  <2> QED BY <2>1, <2>2, <2>3, <2>4 DEF Operation
<1> QED BY <1>1, <1>2

\* The documents after each operation.
IsRun(after, doc, ops, n) ==
    after = [i \in 0 .. n |-> IF i = 0 THEN doc ELSE applyNext(after[i - 1], ops[i])]

\* They exist, by induction over the number of operations.
LEMMA RunExists ==
    ASSUME NEW doc, NEW ops, NEW n \in Nat
    PROVE  \E g : IsRun(g, doc, ops, n)
<1> DEFINE S == {m \in Nat : \E g : IsRun(g, doc, ops, m)}
<1>1. 0 \in S
  <2>1. 0 .. 0 = {0}
    OBVIOUS
  <2> DEFINE g == [i \in 0 .. 0 |-> doc]
  <2>2. IsRun(g, doc, ops, 0)
    BY <2>1 DEF IsRun
  <2> HIDE DEF g
  <2> QED BY <2>2
<1>2. ASSUME NEW m \in Nat, m \in S PROVE m + 1 \in S
  <2>1. PICK g : IsRun(g, doc, ops, m)
    BY <1>2
  <2> DEFINE h == [i \in 0 .. m + 1 |-> IF i = m + 1 THEN applyNext(g[m], ops[m + 1]) ELSE g[i]]
  <2>2. \A i \in 0 .. m + 1 : h[i] = IF i = 0 THEN doc ELSE applyNext(h[i - 1], ops[i])
    <3> TAKE i \in 0 .. m + 1
    <3>1. CASE i = m + 1
      <4>1. h[i - 1] = g[m]
        BY <3>1
      <4> QED BY <3>1, <4>1
    <3>2. CASE i # m + 1
      <4>1. i \in 0 .. m
        BY <3>2
      <4>2. g[i] = IF i = 0 THEN doc ELSE applyNext(g[i - 1], ops[i])
        BY <2>1, <4>1 DEF IsRun
      <4>3. i # 0 => h[i - 1] = g[i - 1]
        BY <4>1
      <4> QED BY <4>1, <4>2, <4>3
    <3> QED BY <3>1, <3>2
  <2>3. IsRun(h, doc, ops, m + 1)
    BY <2>2 DEF IsRun
  <2> HIDE DEF h
  <2> QED BY <2>3
<1> HIDE DEF S
<1>3. Nat \subseteq S
  BY <1>1, <1>2, SetInduction
<1>4. n \in S
  BY <1>3
<1> QED BY <1>4 DEF S

\* applyOperations is the last of them.
LEMMA AppliesRun ==
    ASSUME NEW doc, NEW ops, Len(ops) \in Nat
    PROVE  \E g : IsRun(g, doc, ops, Len(ops)) /\ applyOperations(doc, ops) = g[Len(ops)]
<1> DEFINE after[i \in 0 .. Len(ops)] ==
               IF i = 0 THEN doc ELSE applyNext(after[i - 1], ops[i])
<1> HIDE DEF after
<1>1. \E g : IsRun(g, doc, ops, Len(ops))
  BY RunExists
<1>2. IsRun(after, doc, ops, Len(ops))
  BY <1>1, Zenon DEF after, IsRun
<1>3. applyOperations(doc, ops) = after[Len(ops)]
  BY Zenon DEF applyOperations, after
<1> QED BY <1>2, <1>3

\* A list of operations makes a draft of a draft, or fails.
LEMMA ApplyOperationsTyped ==
    ASSUME NEW d \in Draft, NEW ops \in Seq(Operation)
    PROVE  applyOperations(d, ops) \in Draft \cup {NoDoc}
<1>1. Len(ops) \in Nat /\ \A i \in 1 .. Len(ops) : ops[i] \in Operation
  OBVIOUS
<1>2. PICK g : IsRun(g, d, ops, Len(ops)) /\ applyOperations(d, ops) = g[Len(ops)]
  BY <1>1, AppliesRun
<1> DEFINE S == {n \in Nat : n <= Len(ops) => g[n] \in Draft \cup {NoDoc}}
<1>3. 0 \in S
  BY <1>1, <1>2 DEF IsRun
<1>4. ASSUME NEW n \in Nat, n \in S PROVE n + 1 \in S
  <2> SUFFICES ASSUME n + 1 <= Len(ops) PROVE g[n + 1] \in Draft \cup {NoDoc}
    OBVIOUS
  <2>1. g[n + 1] = applyNext(g[n], ops[n + 1])
    BY <1>1, <1>2 DEF IsRun
  <2>2. g[n] \in Draft \cup {NoDoc} /\ ops[n + 1] \in Operation
    BY <1>1, <1>4
  <2> QED BY <2>1, <2>2, ApplyNextTyped
<1> HIDE DEF S
<1>5. Len(ops) \in S
  BY <1>1, <1>3, <1>4, SetInduction
<1> QED BY <1>1, <1>2, <1>5 DEF S

\* A single operation is applied once.
LEMMA ApplyOne ==
    ASSUME NEW d, NEW op
    PROVE  applyOperations(d, <<op>>) = applyNext(d, op)
<1>1. Len(<<op>>) = 1 /\ <<op>>[1] = op
  OBVIOUS
<1>2. PICK g : IsRun(g, d, <<op>>, 1) /\ applyOperations(d, <<op>>) = g[1]
  BY <1>1, AppliesRun
<1>3. g[0] = d /\ g[1] = applyNext(g[0], <<op>>[1])
  BY <1>2 DEF IsRun
<1> QED BY <1>1, <1>2, <1>3

\* Normalising a draft makes a document.
LEMMA NormalizeTyped ==
    ASSUME NEW d \in Draft
    PROVE  Normalize(d) \in Document /\ Normalize(d) \in Draft
<1> DEFINE single == [s \in Singletons |->
               IF d.single[s].knob = NoKnob THEN [d.single[s] EXCEPT !.knob = Zero]
               ELSE d.single[s]]
<1>1. single \in [Singletons -> Singleton]
  BY KnobAssumption DEF Draft, Singleton
<1>2. Normalize(d) = [d EXCEPT !.single = single]
  BY Zenon DEF Normalize
<1> HIDE DEF single
<1>3. Normalize(d) \in Document
  BY <1>1, <1>2 DEF Draft, Document
<1> QED BY <1>3, DocumentIsDraft

-----------------------------------------------------------------------------
(* The invariant holds initially.                                          *)

\* The bounds, and the names that stand for nothing.
LEMMA Sizes ==
    /\ IdempCap \in Nat /\ IdempCap > 0 /\ RingCap \in Nat /\ RingCap > 0
    /\ NoDoc \notin Document /\ NoKey \notin Key /\ ScopedKey \ {NoKey} = Key
    /\ Boot \in Document
<1>1. NoKey \notin Capabilities \X Keys
  BY AbsentAssumption
<1>2. Key \subseteq Capabilities \X Keys
  BY CallAssumption DEF Key
<1>3. NoKey \notin Key
  BY <1>1, <1>2
<1> QED BY <1>3, SizeAssumption, AbsentAssumption, BootAssumption DEF ScopedKey, Key

\* Nothing is cached, recorded or applied yet.
LEMMA ManagementInit == Init => MInv
<1> SUFFICES ASSUME Init PROVE MInv
  OBVIOUS
<1>1. Documents
  BY Sizes DEF Init, Documents, Snapshot, BootstrapAgrees
<1>2. Len(<<>>) = 0 /\ DOMAIN <<>> = {} /\ \A S : <<>> \in Seq(S)
  OBVIOUS
<1>3. Cache /\ CacheSound
  <2>1. cache.order = <<>> /\ cache.m = <<>> /\ cache = [order |-> <<>>, m |-> <<>>]
    BY DEF Init
  <2> QED BY <1>2, <2>1, Sizes DEF Cache, CacheSound, IsInjective, ToSet
<1>4. Ring
  BY <1>2, Sizes DEF Init, Ring
<1>5. applied = <<>> /\ 1 .. Len(applied) = {}
  BY <1>2 DEF Init
<1>6. Chain
  BY <1>2, <1>5 DEF Chain
<1> QED BY <1>1, <1>3, <1>4, <1>5, <1>6 DEF MInv

-----------------------------------------------------------------------------
(* The kinds of steps.                                                     *)

TypedCalls == {"setMFA", "swapVendor", "setOverage"}

\* A refused call that leaves an event.
Refuses == \E cap \in Capabilities : Rejected(cap)

\* A retry.
Replays == \E k \in Key : Cached(k) /\ Replay(k)

\* What a mutation publishes: the active document with operations applied, or
\* what a reset read from the file.
Publishes(cap) ==
    \/ \E ops \in Seq(Operation) :
         /\ applyOperations(active.doc, ops) # NoDoc
         /\ active' = Candidate(ops)
         /\ bootstrap' = bootstrap
         /\ cap \in TypedCalls => \E kind \in Singletons, v \in Knobs : ops = Merged(kind, v)
    \/ /\ cap = "reset" /\ file # NoDoc
       /\ active' = compile(file, NoDoc, active.gen + 1)
       /\ bootstrap' = active'.doc

\* A mutation under a key that the cache does not hold.
Mutates ==
    \E cap \in Capabilities \ {"plan"}, k \in ScopedKey, fp \in Fingerprint :
        /\ k # NoKey => k[1] = cap
        /\ ~Cached(k)
        /\ Publishes(cap)
        /\ Commit(cap, k, fp, [previous |-> active.doc, candidate |-> active'.doc])

\* A plan that is cached.
Plans ==
    \E k \in ScopedKey, in \in Inputs, ops \in Changes :
        /\ k # NoKey => k[1] = "plan"
        /\ ~Cached(k)
        /\ in.expected = active.doc /\ applyOperations(active.doc, ops) # NoDoc
        /\ cache' = store(k, Entry(<<in, ops>>, planFrom(Candidate(ops)), 0))
        /\ applied' = Used(applied, k)
        /\ UNCHANGED <<active, bootstrap, file, ring, seq>>

\* An operator edits the bootstrap file.
EditsFile ==
    /\ file' \in Document \cup {NoDoc}
    /\ UNCHANGED <<active, bootstrap, cache, ring, seq, applied>>

Kinds == Refuses \/ Replays \/ Mutates \/ Plans \/ EditsFile \/ UNCHANGED vars

\* What a client sends.
LEMMA InputTyped ==
    ASSUME MInv, NEW in \in Input
    PROVE  in \in Inputs
<1>1. active.doc \in Document
  BY DEF MInv, Documents, Snapshot
<1>2. \A i \in DOMAIN applied : applied[i].previous \in Document
  <2>1. applied \in Seq(Mutation)
    BY DEF MInv, Chain
  <2>2. \A i \in DOMAIN applied : applied[i] \in Mutation
    BY <2>1
  <2> QED BY <2>2 DEF Mutation
<1>3. Revisions \subseteq Document \cup {NoDoc}
  BY <1>1, <1>2 DEF Revisions
<1> QED BY <1>3 DEF Input, Inputs

\* Fingerprints of what it sends.
LEMMA FingerprintTyped ==
    ASSUME NEW in \in Inputs, NEW arg,
           arg \in Changes \/ arg \in Knobs \/ arg \in Client \/ arg \in BOOLEAN
    PROVE  <<in, arg>> \in Fingerprint
<1>1. arg \in Arguments
  BY Zenon DEF Arguments
<1> QED BY <1>1 DEF Fingerprint

\* Keys are scoped by the capability.
LEMMA ScopedKeyTyped ==
    ASSUME NEW cap \in Calls, NEW key \in Keys \cup {NoKey}
    PROVE  /\ scopedKey(cap, key) \in ScopedKey
           /\ scopedKey(cap, key) # NoKey =>
                scopedKey(cap, key) \in Key /\ scopedKey(cap, key)[1] = cap
BY DEF scopedKey, ScopedKey, Key

\* The cache holds keys, and a hit is one of them.
LEMMA HitIsKey ==
    ASSUME NEW k \in ScopedKey, NEW fp, Hits(k, fp)
    PROVE  k \in Key /\ Cached(k)
BY DEF Hits, Cached, ScopedKey, Key

\* applyLocked refuses, replays, or applies operations.
LEMMA AppliesLocked ==
    ASSUME MInv, NEW cap \in Capabilities \ {"plan"}, cap \in Calls, NEW key \in Keys \cup {NoKey},
           NEW fp \in Fingerprint, NEW in, NEW ops \in Seq(Operation),
           cap \in TypedCalls => \E kind \in Singletons, v \in Knobs : ops = Merged(kind, v),
           applyLocked(cap, scopedKey(cap, key), fp, in, ops)
    PROVE  Kinds
<1> DEFINE k == scopedKey(cap, key)
<1>1. k \in ScopedKey /\ (k # NoKey => k[1] = cap)
  BY ScopedKeyTyped
<1> HIDE DEF k
<1>2. CASE Hits(k, fp) /\ Replay(k)
  BY <1>1, <1>2, HitIsKey DEF Kinds, Replays
<1>3. CASE Rejected(cap)
  BY <1>3 DEF Kinds, Refuses
<1>4. CASE /\ ~Cached(k) /\ Builds(in.expected, ops)
           /\ active' = Candidate(ops)
           /\ Commit(cap, k, fp, planFrom(active'))
           /\ UNCHANGED bootstrap
  <2>1. planFrom(active') = [previous |-> active.doc, candidate |-> active'.doc]
    BY DEF planFrom
  <2>2. applyOperations(active.doc, ops) # NoDoc
    BY <1>4 DEF Builds
  <2>3. Publishes(cap)
    BY <1>4, <2>2 DEF Publishes
  <2> QED BY <1>1, <1>4, <2>1, <2>3 DEF Kinds, Mutates
<1> QED BY <1>2, <1>3, <1>4 DEF applyLocked, k

\* So do the typed operations.
LEMMA AppliesTyped ==
    ASSUME MInv, NEW cap \in Capabilities \ {"plan"}, cap \in Calls, NEW key \in Keys \cup {NoKey},
           NEW in \in Input, NEW arg, arg \in Knobs \/ arg \in Client,
           NEW ops \in Seq(Operation),
           cap \in TypedCalls => \E kind \in Singletons, v \in Knobs : ops = Merged(kind, v),
           Typed(cap, key, in, arg, ops)
    PROVE  Kinds
<1>1. <<in, arg>> \in Fingerprint
  BY InputTyped, FingerprintTyped
<1>2. scopedKey(cap, key) \in ScopedKey
  BY ScopedKeyTyped
<1>3. CASE Refused
  BY <1>3 DEF Kinds, Refused
<1>4. CASE Hits(scopedKey(cap, key), <<in, arg>>) /\ Replay(scopedKey(cap, key))
  BY <1>2, <1>4, HitIsKey DEF Kinds, Replays
<1>5. CASE applyLocked(cap, scopedKey(cap, key), <<in, arg>>, in, ops)
  BY <1>1, <1>5, AppliesLocked
<1> QED BY <1>3, <1>4, <1>5 DEF Typed

\* A singleton with one field replaced is a singleton.
LEMMA MergedTyped ==
    ASSUME MInv, NEW kind \in Singletons, NEW v \in Knobs
    PROVE  Merged(kind, v) \in Seq(Operation)
<1>1. active.doc.single[kind] \in Singleton
  BY DEF MInv, Documents, Snapshot, Document
<1> DEFINE op == [op |-> "update", kind |-> kind,
                  value |-> [active.doc.single[kind] EXCEPT !.knob = v]]
<1>2. op \in Operation
  <2>1. [active.doc.single[kind] EXCEPT !.knob = v] \in Singleton
    BY <1>1 DEF Singleton
  <2> QED BY <2>1 DEF Operation
<1>3. Merged(kind, v) = <<op>>
  BY DEF Merged
<1> HIDE DEF op
<1> QED BY <1>2, <1>3

\* Every step is of one of the kinds.
LEMMA StepKinds == MInv /\ Next => Kinds
<1> SUFFICES ASSUME MInv, Next PROVE Kinds
  OBVIOUS
<1>1. ASSUME NEW key \in Keys \cup {NoKey}, NEW in \in Input, NEW ops \in Changes,
             Apply(key, in, ops)
      PROVE  Kinds
  <2>1. "apply" \in Calls /\ "apply" \in Capabilities \ {"plan"} /\ "apply" \notin TypedCalls
    BY <1>1 DEF Apply, Call, Capabilities, TypedCalls
  <2>2. <<in, ops>> \in Fingerprint
    BY InputTyped, FingerprintTyped
  <2>3. ops \in Seq(Operation)
    BY ChangeAssumption
  <2>4. applyLocked("apply", scopedKey("apply", key), <<in, ops>>, in, ops)
    BY <1>1 DEF Apply
  <2> QED BY <2>1, <2>2, <2>3, <2>4, AppliesLocked
<1>2. ASSUME NEW key \in Keys \cup {NoKey}, NEW in \in Input, NEW ops \in Changes,
             PlanChange(key, in, ops)
      PROVE  Kinds
  <2> DEFINE k == scopedKey("plan", key)
  <2>1. "plan" \in Calls
    BY <1>2 DEF PlanChange, Call
  <2>2. k \in ScopedKey /\ (k # NoKey => k[1] = "plan")
    BY <2>1, ScopedKeyTyped
  <2>3. in \in Inputs
    BY InputTyped
  <2> HIDE DEF k
  <2>4. CASE Hits(k, <<in, ops>>) /\ Replay(k)
    BY <2>2, <2>4, HitIsKey DEF Kinds, Replays
  <2>5. CASE Refused
    BY <2>5 DEF Kinds, Refused
  <2>6. CASE /\ ~Cached(k) /\ Builds(in.expected, ops)
             /\ cache' = store(k, Entry(<<in, ops>>, planFrom(Candidate(ops)), 0))
             /\ applied' = Used(applied, k)
             /\ UNCHANGED <<Configuration, file, ring, seq>>
    <3>1. in.expected = active.doc /\ applyOperations(active.doc, ops) # NoDoc
      BY <2>6 DEF Builds
    <3>2. UNCHANGED <<active, bootstrap, file, ring, seq>>
      BY <2>6 DEF Configuration
    <3>3. Plans
      BY <2>2, <2>3, <2>6, <3>1, <3>2 DEF Plans
    <3> QED BY <3>3 DEF Kinds
  <2> QED BY <1>2, <2>4, <2>5, <2>6 DEF PlanChange, k
<1>3. ASSUME NEW key \in Keys \cup {NoKey}, NEW in \in Input, NEW v \in Knobs,
             SetMFA(key, in, v) \/ SwapVendor(key, in, v) \/ SetOverage(key, in, v)
      PROVE  Kinds
  <2>1. ASSUME NEW cap \in TypedCalls, NEW kind \in Singletons, Call(cap),
               Typed(cap, key, in, v, Merged(kind, v))
        PROVE  Kinds
    <3>1. cap \in Capabilities \ {"plan"} /\ cap \in Calls
      BY <2>1 DEF TypedCalls, Capabilities, Call
    <3>2. Merged(kind, v) \in Seq(Operation)
      BY MergedTyped
    <3> QED BY <2>1, <3>1, <3>2, AppliesTyped
  <2>2. /\ "setMFA" \in TypedCalls /\ "swapVendor" \in TypedCalls /\ "setOverage" \in TypedCalls
        /\ "auth" \in Singletons /\ "profile" \in Singletons /\ "groupOverage" \in Singletons
    BY DEF TypedCalls, Singletons
  <2> QED BY <1>3, <2>1, <2>2 DEF SetMFA, SwapVendor, SetOverage
<1>4. ASSUME NEW key \in Keys \cup {NoKey}, NEW in \in Input, NEW c \in Client,
             RewriteRedirect(key, in, c)
      PROVE  Kinds
  <2> DEFINE ops == <<[op |-> "update", kind |-> "client", id |-> c.id, value |-> c]>>
  <2>1. "rewriteRedirect" \in Calls /\ "rewriteRedirect" \in Capabilities \ {"plan"}
        /\ "rewriteRedirect" \notin TypedCalls
    BY <1>4 DEF RewriteRedirect, Call, Capabilities, TypedCalls
  <2>2. ops \in Seq(Operation)
    BY DEF Operation, Client
  <2>3. Typed("rewriteRedirect", key, in, c, ops) \/ Refused
    BY <1>4 DEF RewriteRedirect
  <2> HIDE DEF ops
  <2>4. CASE Typed("rewriteRedirect", key, in, c, ops)
    BY <2>1, <2>2, <2>4, AppliesTyped
  <2> QED BY <2>3, <2>4 DEF Refused, Kinds
<1>5. ASSUME NEW key \in Keys \cup {NoKey}, NEW in \in Input, NEW c \in Client,
             ImportApply(key, in, c)
      PROVE  Kinds
  <2> DEFINE ops == <<[op |-> "add", kind |-> "client", id |-> c.id, value |-> c]>>
  <2>1. "importApply" \in Calls /\ "importApply" \in Capabilities \ {"plan"}
        /\ "importApply" \notin TypedCalls
    BY <1>5 DEF ImportApply, Call, Capabilities, TypedCalls
  <2>2. ops \in Seq(Operation)
    BY DEF Operation, Client
  <2>3. Typed("importApply", key, in, c, ops) \/ Rejected("importApply")
    BY <1>5 DEF ImportApply
  <2> HIDE DEF ops
  <2>4. CASE Typed("importApply", key, in, c, ops)
    BY <2>1, <2>2, <2>4, AppliesTyped
  <2> QED BY <2>1, <2>3, <2>4 DEF Refuses, Kinds
<1>6. ASSUME NEW key \in Keys \cup {NoKey}, NEW in \in Input, NEW dryRun \in BOOLEAN,
             Reset(key, in, dryRun)
      PROVE  Kinds
  <2> DEFINE k == scopedKey("reset", key)
             fp == <<in, dryRun>>
             next == compile(file, NoDoc, active.gen + 1)
  <2>1. "reset" \in Calls /\ "reset" \in Capabilities \ {"plan"}
    BY <1>6 DEF Reset, Call, Capabilities
  <2>2. k \in ScopedKey /\ (k # NoKey => k[1] = "reset")
    BY <2>1, ScopedKeyTyped
  <2>3. fp \in Fingerprint
    BY InputTyped, FingerprintTyped
  <2>4. \/ Hits(k, fp) /\ Replay(k)
        \/ Rejected("reset")
        \/ Refused
        \/ /\ ~Cached(k) /\ file # NoDoc /\ active' = next /\ bootstrap' = next.doc
           /\ Commit("reset", k, fp, planFrom(next))
    BY <1>6 DEF Reset
  <2> HIDE DEF k, fp
  <2>5. CASE Hits(k, fp) /\ Replay(k)
    BY <2>2, <2>5, HitIsKey DEF Kinds, Replays
  <2>6. CASE Rejected("reset")
    BY <2>1, <2>6 DEF Kinds, Refuses
  <2>7. CASE Refused
    BY <2>7 DEF Kinds, Refused
  <2>8. CASE /\ ~Cached(k) /\ file # NoDoc /\ active' = next /\ bootstrap' = next.doc
             /\ Commit("reset", k, fp, planFrom(next))
    <3>1. Publishes("reset")
      BY <2>8 DEF Publishes
    <3>2. planFrom(next) = [previous |-> active.doc, candidate |-> active'.doc]
      BY <2>8 DEF planFrom
    <3> QED BY <2>1, <2>2, <2>3, <2>8, <3>1, <3>2 DEF Kinds, Mutates
  <2> QED BY <2>4, <2>5, <2>6, <2>7, <2>8
<1>7. ASSUME NEW c \in Client, ImportPlan(c)
      PROVE  Kinds
  BY <1>7 DEF ImportPlan, Kinds, Refuses, Refused, Capabilities
<1>8. CASE EmitElsewhere
  BY <1>8 DEF EmitElsewhere, Kinds, Refuses, Capabilities
<1>9. CASE Validate
  BY <1>9 DEF Validate, Kinds
<1>10. ASSUME NEW d \in Edits \cup {Boot, NoDoc}, EditFile(d)
       PROVE  Kinds
  <2>1. d \in Document \cup {NoDoc}
    BY BootAssumption
  <2> QED BY <1>10, <2>1 DEF EditFile, Configuration, Kinds, EditsFile
<1> QED BY <1>1, <1>2, <1>3, <1>4, <1>5, <1>6, <1>7, <1>8, <1>9, <1>10 DEF Next

-----------------------------------------------------------------------------
(* The audit ring.                                                         *)

\* The ring with a new event: the last events, shifted by one when it is full.
LEMMA KeptLast ==
    ASSUME Ring, NEW e \in Event
    PROVE  LET q == KeepLast(Append(ring, e))
           IN  \E s \in {0, 1} :
                 /\ q \in Seq(Event) /\ Len(q) = Len(ring) + 1 - s /\ Len(q) <= RingCap
                 /\ Len(q) > 0 /\ q[Len(q)] = e
                 /\ \A n \in 1 .. Len(q) - 1 : q[n] = ring[n + s]
                 /\ s = 1 => Len(ring) = RingCap
<1> DEFINE n == Len(ring)
           a == Append(ring, e)
           q == KeepLast(a)
<1>1. ring \in Seq(Event) /\ n \in Nat /\ n <= RingCap /\ RingCap \in Nat /\ RingCap > 0
  BY Sizes DEF Ring
<1>2. /\ a \in Seq(Event) /\ Len(a) = n + 1 /\ a[n + 1] = e
      /\ \A j \in 1 .. n : a[j] = ring[j]
  BY <1>1, AppendProperties
<1>3. q = IF Len(a) > RingCap THEN SubSeq(a, Len(a) - RingCap + 1, Len(a)) ELSE a
  BY DEF KeepLast
<1> HIDE DEF n, a, q
<1>4. CASE n < RingCap
  <2>1. q = a
    BY <1>1, <1>2, <1>3, <1>4
  <2>2. /\ q \in Seq(Event) /\ Len(q) = n + 1 - 0 /\ Len(q) <= RingCap
        /\ Len(q) > 0 /\ q[Len(q)] = e
        /\ \A j \in 1 .. Len(q) - 1 : q[j] = ring[j + 0]
    BY <1>1, <1>2, <1>4, <2>1, SMTT(20)
  <2> QED BY <2>2 DEF n, a, q
<1>5. CASE n = RingCap
  <2>1. q = SubSeq(a, 2, n + 1)
    BY <1>1, <1>2, <1>3, <1>5
  <2>2. \A i \in 2 .. n + 1 : a[i] \in Event
    BY <1>1, <1>2
  <2>3. 2 \in Int /\ n + 1 \in Int /\ 2 <= n + 1
    BY <1>1, <1>5
  <2>4. /\ q \in Seq(Event) /\ Len(q) = n
        /\ \A j \in 1 .. n : q[j] = a[j + 1]
    BY <1>1, <2>1, <2>2, <2>3, SubSeqProperties
  <2>5. /\ Len(q) = n + 1 - 1 /\ Len(q) <= RingCap
        /\ Len(q) > 0 /\ q[Len(q)] = e
        /\ \A j \in 1 .. Len(q) - 1 : q[j] = ring[j + 1]
    BY <1>1, <1>2, <1>5, <2>4, SMTT(20)
  <2> QED BY <1>5, <2>4, <2>5 DEF n, a, q
<1> QED BY <1>1, <1>4, <1>5

\* An event is emitted: the ring keeps its numbering, and what was recorded.
LEMMA Emitted ==
    ASSUME Ring, NEW cap \in Capabilities, NEW p \in Document \cup {NoDoc},
           NEW r \in Document \cup {NoDoc}, Emit(cap, p, r)
    PROVE  /\ Ring' /\ seq' = seq + 1 /\ Len(ring') > 0
           /\ ring'[Len(ring')] = [id |-> seq', cap |-> cap, previous |-> p, revision |-> r]
           /\ \A x : x.event \in 1 .. seq /\ Recorded(ring, seq, x)
                       => Recorded(ring', seq', x)
<1> DEFINE e == [id |-> seq + 1, cap |-> cap, previous |-> p, revision |-> r]
           n == Len(ring)
<1>1. seq \in Nat /\ n \in Nat /\ n <= RingCap /\ RingCap \in Nat /\ n <= seq
      /\ \A j \in 1 .. n : ring[j].id = seq - n + j
  BY Sizes DEF Ring
<1>2. seq' = seq + 1 /\ ring' = KeepLast(Append(ring, e))
  BY DEF Emit
<1>3. e \in Event
  BY <1>1 DEF Event
<1>4. e.id = seq + 1
  OBVIOUS
<1> HIDE DEF e
<1>5. PICK s \in {0, 1} :
        /\ ring' \in Seq(Event) /\ Len(ring') = Len(ring) + 1 - s /\ Len(ring') <= RingCap
        /\ Len(ring') > 0 /\ ring'[Len(ring')] = e
        /\ \A j \in 1 .. Len(ring') - 1 : ring'[j] = ring[j + s]
        /\ s = 1 => Len(ring) = RingCap
  BY <1>2, <1>3, KeptLast
<1> DEFINE m == Len(ring')
<1>6. m = n + 1 - s /\ m > 0 /\ m <= RingCap /\ ring' \in Seq(Event) /\ ring'[m] = e
      /\ (\A j \in 1 .. m - 1 : ring'[j] = ring[j + s]) /\ (s = 1 => n = RingCap)
      /\ (s = 0 \/ s = 1) /\ m \in Nat
  BY <1>1, <1>5
<1> HIDE DEF n, m
<1>7. \A j \in 1 .. m : ring'[j].id = seq' - m + j
  <2> TAKE j \in 1 .. m
  <2>1. CASE j = m
    BY <1>1, <1>2, <1>4, <1>6, <2>1
  <2>2. CASE j # m
    <3>1. j \in 1 .. m - 1 /\ j + s \in 1 .. n
      BY <1>1, <1>6, <2>2
    <3>2. ring[j + s].id = seq - n + (j + s)
      BY <1>1, <3>1
    <3> QED BY <1>1, <1>2, <1>6, <3>1, <3>2
  <2> QED BY <2>1, <2>2
<1>8. Ring'
  BY <1>1, <1>2, <1>6, <1>7 DEF Ring, m
<1>9. ASSUME NEW x, x.event \in 1 .. seq, Recorded(ring, seq, x)
      PROVE  Recorded(ring', seq', x)
  <2> SUFFICES ASSUME seq' - x.event < RingCap
               PROVE  \E j \in 1 .. m : /\ ring'[j].id = x.event
                                        /\ ring'[j].previous = x.previous
                                        /\ ring'[j].revision = x.revision
    BY DEF Recorded, m
  <2>1. seq - x.event < RingCap
    BY <1>1, <1>2, <1>9
  <2>2. PICK j \in 1 .. n : /\ ring[j].id = x.event /\ ring[j].previous = x.previous
                            /\ ring[j].revision = x.revision
    BY <1>9, <2>1 DEF Recorded, n
  <2>3. x.event = seq - n + j
    BY <1>1, <2>2
  <2>4. j - s \in 1 .. m - 1
    BY <1>1, <1>2, <1>6, <1>9, <2>2, <2>3
  <2>5. ring'[j - s] = ring[j]
    <3>1. ring'[j - s] = ring[(j - s) + s]
      BY <1>6, <2>4
    <3>2. (j - s) + s = j
      BY <1>1, <1>6, <2>2
    <3> QED BY <3>1, <3>2
  <2>6. j - s \in 1 .. m
    BY <1>6, <2>4
  <2> QED BY <2>2, <2>5, <2>6
<1> QED BY <1>2, <1>5, <1>8, <1>9 DEF e

-----------------------------------------------------------------------------
(* The history.                                                            *)

\* The keys used since a mutation.
Since(r, k) == IF k = NoKey THEN r.others ELSE IF r.key = k THEN {} ELSE r.others \cup {k}

\* Using a key is recorded in every mutation, and changes nothing else of it.
LEMMA UsedKeeps ==
    ASSUME NEW records \in Seq(Mutation), NEW k \in ScopedKey, NEW u, u = Used(records, k)
    PROVE  /\ u \in Seq(Mutation) /\ Len(u) = Len(records)
           /\ \A i \in 1 .. Len(records) :
                /\ u[i].key = records[i].key /\ u[i].fp = records[i].fp
                /\ u[i].previous = records[i].previous /\ u[i].revision = records[i].revision
                /\ u[i].event = records[i].event /\ u[i].others = Since(records[i], k)
<1>1. CASE k = NoKey
  <2>1. u = records
    BY <1>1 DEF Used
  <2> QED BY <1>1, <2>1 DEF Since
<1>2. CASE k # NoKey
  <2> DEFINE n == Len(records)
             f(i) == [records[i] EXCEPT !.others = Since(records[i], k)]
  <2>1. n \in Nat /\ DOMAIN records = 1 .. n /\ \A i \in 1 .. n : records[i] \in Mutation
    OBVIOUS
  <2>2. u = [i \in 1 .. n |-> [records[i] EXCEPT !.others =
                 IF records[i].key = k THEN {} ELSE records[i].others \cup {k}]]
    BY <1>2, <2>1, Zenon DEF Used
  <2>3. u = [i \in 1 .. n |-> f(i)]
    BY <1>2, <2>2 DEF Since
  <2>4. \A i \in 1 .. n : Since(records[i], k) \in SUBSET Key
    <3> TAKE i \in 1 .. n
    <3>1. records[i].others \in SUBSET Key
      BY <2>1 DEF Mutation
    <3>2. k \in Key
      BY <1>2, Sizes
    <3> QED BY <3>1, <3>2 DEF Since
  <2>5. \A i \in 1 .. n : /\ f(i) \in Mutation
                          /\ f(i).key = records[i].key /\ f(i).fp = records[i].fp
                          /\ f(i).previous = records[i].previous
                          /\ f(i).revision = records[i].revision
                          /\ f(i).event = records[i].event
                          /\ f(i).others = Since(records[i], k)
    BY <2>1, <2>4 DEF Mutation
  <2> HIDE DEF f, n
  <2>6. u \in Seq(Mutation) /\ Len(u) = n
    BY <2>1, <2>3, <2>5
  <2> QED BY <2>3, <2>5, <2>6 DEF n
<1> QED BY <1>1, <1>2


-----------------------------------------------------------------------------
(* The cache.                                                              *)

\* A sequence without duplicates has as many entries as its length.
LEMMA Distinct ==
    ASSUME NEW S, NEW s \in Seq(S), IsInjective(s)
    PROVE  IsFiniteSet(ToSet(s)) /\ Cardinality(ToSet(s)) = Len(s)
<1>1. Len(s) \in Nat /\ DOMAIN s = 1 .. Len(s)
  OBVIOUS
<1>2. IsFiniteSet(1 .. Len(s)) /\ Cardinality(1 .. Len(s)) = Len(s)
  BY <1>1, FS_Interval
<1>3. s \in [1 .. Len(s) -> ToSet(s)]
  BY <1>1 DEF ToSet
<1>4. s \in Bijection(1 .. Len(s), ToSet(s))
  BY <1>1, <1>3 DEF Bijection, Injection, Surjection, ToSet
<1>5. ExistsBijection(1 .. Len(s), ToSet(s))
  BY <1>4 DEF ExistsBijection
<1> QED BY <1>2, <1>5, FS_Bijection

\* More keys used, no fewer to count.
LEMMA SinceFinite ==
    ASSUME NEW r, NEW k, IsFiniteSet(r.others)
    PROVE  /\ IsFiniteSet(Since(r, k))
           /\ r.key # k => r.others \subseteq Since(r, k)
           /\ r.key # k /\ Cardinality(r.others) >= IdempCap => Cardinality(Since(r, k)) >= IdempCap
<1>1. IsFiniteSet({})
  BY FS_EmptySet
<1>2. IsFiniteSet(r.others \cup {k})
  BY FS_AddElement
<1>3. Cardinality(r.others) \in Nat /\ Cardinality(r.others \cup {k}) \in Nat
  BY <1>2, FS_CardinalityType
<1>4. Cardinality(r.others) <= Cardinality(r.others \cup {k})
  BY <1>2, FS_Subset
<1>5. Cardinality(r.others) >= IdempCap => Cardinality(r.others \cup {k}) >= IdempCap
  BY <1>3, <1>4, Sizes
<1> QED BY <1>1, <1>2, <1>5 DEF Since

\* The record of a mutation after a key was used.
Carries(r, x, k) ==
    x.key = r.key /\ x.fp = r.fp /\ x.event = r.event /\ x.others = Since(r, k)

\* Storing an entry under a new key keeps the cache sound; an entry that is
\* evicted for it was the first of IdempCap others.
LEMMA Stored ==
    ASSUME Cache, CacheSound, NEW k \in Key, ~Cached(k), NEW e \in CacheEntry,
           k[1] = "plan" => Predicts(e), cache' = store(k, e)
    PROVE  /\ Cache' /\ CacheSound'
           /\ k \in DOMAIN cache'.m /\ cache'.m[k] = e /\ Follows(cache'.order, k) = {}
           /\ \A r, x : /\ r.key # k /\ IsFiniteSet(r.others) /\ Remembered(cache, r)
                        /\ Carries(r, x, k)
                        => Remembered(cache', x)
<1> DEFINE order == Append(cache.order, k)
           old == IF Len(order) > IdempCap THEN {Head(order)} ELSE {}
           kept == IF old = {} THEN order ELSE Tail(order)
           m == [j \in (DOMAIN cache.m \ old) \cup {k} |-> IF j = k THEN e ELSE cache.m[j]]
<1>1. k # NoKey /\ IdempCap \in Nat /\ IdempCap > 0 /\ ~(k \in DOMAIN cache.m)
  BY Sizes DEF Cached
<1>2. cache' = [order |-> kept, m |-> m]
  BY <1>1, Zenon DEF store, Cached
<1>3. /\ cache.order \in Seq(Key) /\ IsInjective(cache.order)
      /\ ToSet(cache.order) = DOMAIN cache.m /\ Len(cache.order) <= IdempCap
  BY DEF Cache, CacheSound
<1>4. /\ order \in Seq(Key) /\ Len(order) = Len(cache.order) + 1
      /\ IsInjective(order) /\ ToSet(order) = ToSet(cache.order) \cup {k}
      /\ Follows(order, k) = {}
      /\ \A h : Follows(order, h) \subseteq Follows(cache.order, h) \cup {k}
  <2>1. order = Append(cache.order, k) /\ k \notin ToSet(cache.order)
    BY <1>1, <1>3
  <2> HIDE DEF order, old, kept, m
  <2> QED BY <1>3, <2>1, Appended
<1>5. Head(order) = IF cache.order = <<>> THEN k ELSE Head(cache.order)
  BY <1>3
<1> HIDE DEF order
<1>6. order # <<>> /\ Len(order) \in Nat /\ Len(cache.order) \in Nat
  BY <1>3, <1>4
<1>7. /\ kept \in Seq(Key) /\ IsInjective(kept) /\ Len(kept) <= IdempCap
      /\ ToSet(kept) = ToSet(order) \ old
      /\ \A h : Follows(kept, h) \subseteq Follows(order, h)
      /\ \A h \in old : IsFiniteSet(Follows(order, h)) /\ Cardinality(Follows(order, h)) = IdempCap
  <2>1. CASE Len(order) > IdempCap
    <3>1. old = {Head(order)} /\ kept = Tail(order)
      BY <2>1
    <3> HIDE DEF old, kept
    <3>2. /\ kept \in Seq(Key) /\ Len(kept) = Len(order) - 1
          /\ IsInjective(kept) /\ ToSet(kept) = ToSet(order) \ {Head(order)}
          /\ Follows(order, Head(order)) = ToSet(kept)
          /\ \A h : Follows(kept, h) \subseteq Follows(order, h)
      BY <1>4, <1>6, <3>1, Tailed
    <3>3. Len(kept) = IdempCap
      BY <1>1, <1>3, <1>4, <1>6, <2>1, <3>2
    <3>4. IsFiniteSet(ToSet(kept)) /\ Cardinality(ToSet(kept)) = IdempCap
      BY <3>2, <3>3, Distinct
    <3> QED BY <1>1, <3>1, <3>2, <3>3, <3>4
  <2>2. CASE ~(Len(order) > IdempCap)
    <3>1. old = {} /\ kept = order
      BY <2>2
    <3> QED BY <1>1, <1>4, <1>6, <2>2, <3>1
  <2> QED BY <2>1, <2>2
<1>8. k \notin old
  <2>1. CASE Len(order) > IdempCap
    <3>1. cache.order # <<>> /\ Head(cache.order) \in ToSet(cache.order)
      BY <1>1, <1>3, <1>4, <2>1 DEF ToSet
    <3> QED BY <1>1, <1>3, <1>5, <3>1
  <2> QED BY <2>1
<1>9. DOMAIN m = (DOMAIN cache.m \ old) \cup {k} /\ m[k] = e
      /\ \A j \in DOMAIN m : j # k => j \in DOMAIN cache.m /\ m[j] = cache.m[j]
  OBVIOUS
<1> HIDE DEF old, kept, m
<1>10. cache'.order = kept /\ cache'.m = m
  BY <1>2
<1>11. CacheSound'
  <2>1. ToSet(kept) = DOMAIN m
    BY <1>3, <1>4, <1>7, <1>8, <1>9
  <2> QED BY <1>7, <1>10, <2>1 DEF CacheSound
<1>12. Cache'
  <2>1. \A j \in DOMAIN m : m[j] \in CacheEntry
    BY <1>9 DEF Cache
  <2>2. \A j \in DOMAIN m : j[1] = "plan" => Predicts(m[j])
    BY <1>9, Zenon DEF Cache
  <2>3. cache' = [order |-> cache'.order, m |-> cache'.m]
    BY <1>2, <1>10
  <2> QED BY <1>7, <1>10, <2>1, <2>2, <2>3 DEF Cache
<1>13. ASSUME NEW r, NEW x, r.key # k, IsFiniteSet(r.others), Remembered(cache, r),
              Carries(r, x, k)
       PROVE  Remembered(cache', x)
  <2>1. x.key = r.key /\ x.fp = r.fp /\ x.event = r.event /\ x.others = r.others \cup {k}
    BY <1>1, <1>13 DEF Carries, Since
  <2>2. Follows(order, r.key) \subseteq Follows(cache.order, r.key) \cup {k}
    BY <1>4
  <2>3. ASSUME r.key \in DOMAIN m
        PROVE  /\ m[r.key].fp = r.fp /\ m[r.key].event = r.event
               /\ Follows(kept, r.key) \subseteq r.others \cup {k}
    <3>1. r.key \in DOMAIN cache.m /\ m[r.key] = cache.m[r.key]
      BY <1>9, <1>13, <2>3
    <3>2. Follows(cache.order, r.key) \subseteq r.others
      BY <1>13, <3>1 DEF Remembered
    <3> QED BY <1>7, <1>13, <2>2, <3>1, <3>2 DEF Remembered
  <2>4. ASSUME r.key \notin DOMAIN m
        PROVE  Cardinality(r.others \cup {k}) >= IdempCap
    <3>1. CASE r.key \in DOMAIN cache.m
      <4>1. r.key \in old
        BY <1>9, <2>4, <3>1
      <4>2. Follows(order, r.key) \subseteq r.others \cup {k}
        BY <1>13, <2>2, <3>1 DEF Remembered
      <4>3. IsFiniteSet(r.others \cup {k})
        BY <1>13, FS_AddElement
      <4>4. Cardinality(Follows(order, r.key)) <= Cardinality(r.others \cup {k})
        BY <4>2, <4>3, FS_Subset
      <4>5. Cardinality(Follows(order, r.key)) = IdempCap
        BY <1>7, <4>1
      <4>6. Cardinality(r.others \cup {k}) \in Nat
        BY <4>3, FS_CardinalityType
      <4> QED BY <1>1, <4>4, <4>5, <4>6
    <3>2. CASE r.key \notin DOMAIN cache.m
      <4>1. Cardinality(r.others) >= IdempCap
        BY <1>13, <3>2 DEF Remembered
      <4>2. Cardinality(Since(r, k)) >= IdempCap
        BY <1>13, <4>1, SinceFinite
      <4> QED BY <1>13, <2>1, <4>2 DEF Carries
    <3> QED BY <3>1, <3>2
  <2> QED BY <1>10, <2>1, <2>3, <2>4 DEF Remembered
<1>14. Follows(kept, k) = {}
  BY <1>4, <1>7
<1> QED BY <1>9, <1>10, <1>11, <1>12, <1>13, <1>14

\* A hit moves its key to the end: everything else was used earlier.
LEMMA Replayed ==
    ASSUME Cache, CacheSound, NEW k \in Key, Cached(k), cache' = lookup(k)
    PROVE  /\ Cache' /\ CacheSound'
           /\ \A r, x : IsFiniteSet(r.others) /\ Remembered(cache, r) /\ Carries(r, x, k)
                        => Remembered(cache', x)
<1> DEFINE i == SelectInSeq(cache.order, LAMBDA j : j = k)
           order == Append(RemoveAt(cache.order, i), k)
           I == {j \in 1 .. Len(cache.order) : cache.order[j] = k}
<1>1. /\ cache.order \in Seq(Key) /\ IsInjective(cache.order)
      /\ ToSet(cache.order) = DOMAIN cache.m /\ Len(cache.order) <= IdempCap
      /\ k \in DOMAIN cache.m /\ k # NoKey
  BY Sizes DEF Cache, CacheSound, Cached
<1>2. Len(cache.order) \in Nat /\ I # {}
  BY <1>1 DEF ToSet
<1>3. i \in 1 .. Len(cache.order) /\ cache.order[i] = k
  <2> HIDE DEF I
  <2>1. I = {j \in 1 .. Len(cache.order) : cache.order[j] = k}
    BY DEF I
  <2> QED BY <1>2, <2>1, Selected, Zenon
<1>4. cache' = [cache EXCEPT !.order = order]
  BY Zenon DEF lookup
<1> HIDE DEF i
<1>5. /\ order \in Seq(Key) /\ Len(order) = Len(cache.order)
      /\ IsInjective(order) /\ ToSet(order) = ToSet(cache.order)
      /\ Follows(order, k) = {}
      /\ \A h : Follows(order, h) \subseteq Follows(cache.order, h) \cup {k}
  BY <1>1, <1>3, Moved, ZenonT(30)
<1> HIDE DEF order, I
<1>6. cache = [order |-> cache.order, m |-> cache.m]
  BY DEF Cache
<1>7. cache' = [order |-> order, m |-> cache.m]
  BY <1>4, <1>6
<1>8. cache'.order = order /\ cache'.m = cache.m
  BY <1>7
<1>9. CacheSound'
  BY <1>1, <1>5, <1>8 DEF CacheSound
<1>10. Cache'
  BY <1>5, <1>7, <1>8, Zenon DEF Cache
<1>11. ASSUME NEW r, NEW x, IsFiniteSet(r.others), Remembered(cache, r), Carries(r, x, k)
       PROVE  Remembered(cache', x)
  <2>1. x.key = r.key /\ x.fp = r.fp /\ x.event = r.event /\ x.others = Since(r, k)
    BY <1>11 DEF Carries
  <2>2. CASE r.key = k
    <3>1. Follows(order, r.key) = {}
      BY <1>5, <2>2
    <3> QED BY <1>1, <1>8, <1>11, <2>1, <2>2, <3>1 DEF Remembered
  <2>3. CASE r.key # k
    <3>1. Since(r, k) = r.others \cup {k}
      BY <1>1, <2>3 DEF Since
    <3>2. r.key \in DOMAIN cache.m => Follows(order, r.key) \subseteq Since(r, k)
      BY <1>5, <1>11, <3>1 DEF Remembered
    <3>3. r.key \notin DOMAIN cache.m => Cardinality(Since(r, k)) >= IdempCap
      BY <1>11, <2>3, SinceFinite DEF Remembered
    <3> QED BY <1>8, <1>11, <2>1, <3>2, <3>3 DEF Remembered
  <2> QED BY <2>2, <2>3
<1> QED BY <1>9, <1>10, <1>11


-----------------------------------------------------------------------------
(* The invariant is inductive.                                             *)

\* A record stays keyed when a key is used, if the cache remembers it.
LEMMA KeyedKept ==
    ASSUME NEW records \in Seq(Mutation), NEW k \in ScopedKey, NEW c, NEW d,
           NEW later \in Seq(Mutation), Len(later) >= Len(records),
           \A j \in 1 .. Len(records) : later[j] = Used(records, k)[j],
           Len(later) > Len(records) => later[Len(records) + 1].key = k,
           \A r, x : /\ r.key # NoKey /\ r.key[1] # "plan"
                     /\ r.key = k => Len(later) = Len(records)
                     /\ IsFiniteSet(r.others) /\ Remembered(c, r) /\ Carries(r, x, k)
                     => Remembered(d, x),
           NEW i \in 1 .. Len(records), Keyed(c, records, i)
    PROVE  Keyed(d, later, i)
<1> DEFINE n == Len(records)
<1>1. n \in Nat /\ Len(later) \in Nat /\ i \in 1 .. n /\ n <= Len(later)
  OBVIOUS
<1>2. \A j \in 1 .. n :
        /\ later[j].key = records[j].key /\ later[j].fp = records[j].fp
        /\ later[j].event = records[j].event /\ later[j].others = Since(records[j], k)
  BY UsedKeeps
<1>3. IsFiniteSet(records[i].others) /\ IsFiniteSet(later[i].others)
  BY <1>2, SinceFinite DEF Keyed
<1> SUFFICES ASSUME records[i].key # NoKey
             PROVE  /\ records[i].key[1] # "plan"
                    /\ Newest(later, i) => Remembered(d, later[i])
  BY <1>1, <1>2, <1>3 DEF Keyed
<1>4. records[i].key[1] # "plan"
  BY DEF Keyed
<1> SUFFICES ASSUME Newest(later, i) PROVE Remembered(d, later[i])
  BY <1>4
<1>5. Newest(records, i)
  <2> SUFFICES ASSUME NEW j \in 1 .. Len(records), j > i
               PROVE  records[j].key # records[i].key
    BY DEF Newest
  <2>1. j \in 1 .. Len(later)
    BY <1>1
  <2>2. later[j].key # later[i].key
    BY <2>1 DEF Newest
  <2> QED BY <1>1, <1>2, <2>2
<1>6. records[i].key = k => Len(later) = Len(records)
  <2> SUFFICES ASSUME records[i].key = k, Len(later) # Len(records) PROVE FALSE
    OBVIOUS
  <2>1. n + 1 \in 1 .. Len(later) /\ n + 1 > i /\ Len(later) > Len(records)
    BY <1>1
  <2>2. later[n + 1].key # later[i].key
    BY <2>1 DEF Newest
  <2> QED BY <1>1, <1>2, <2>1, <2>2
<1>7. Remembered(c, records[i])
  BY <1>5 DEF Keyed
<1>8. Carries(records[i], later[i], k)
  BY <1>1, <1>2 DEF Carries
<1> QED BY <1>3, <1>4, <1>6, <1>7, <1>8

\* Where no key is used, what the cache remembers stays as it is.
LEMMA NotUsed ==
    ASSUME NEW c, NEW r, NEW x, Remembered(c, r), Carries(r, x, NoKey)
    PROVE  Remembered(c, x)
BY DEF Remembered, Carries, Since

\* Using a key without a new event or document keeps the history right.
LEMMA HistoryKept ==
    ASSUME MInv, NEW k \in ScopedKey, applied' = Used(applied, k),
           UNCHANGED <<active, ring, seq>>,
           \A r, x : /\ r.key # NoKey /\ r.key[1] # "plan"
                     /\ IsFiniteSet(r.others) /\ Remembered(cache, r) /\ Carries(r, x, k)
                     => Remembered(cache', x)
    PROVE  /\ Chain'
           /\ \A i \in 1 .. Len(applied') :
                Recorded(ring', seq', applied'[i]) /\ Keyed(cache', applied', i)
<1>1. applied \in Seq(Mutation) /\ Len(applied) \in Nat
  BY DEF MInv, Chain
<1>2. /\ applied' \in Seq(Mutation) /\ Len(applied') = Len(applied)
      /\ \A i \in 1 .. Len(applied) :
           /\ applied'[i].key = applied[i].key /\ applied'[i].fp = applied[i].fp
           /\ applied'[i].previous = applied[i].previous
           /\ applied'[i].revision = applied[i].revision
           /\ applied'[i].event = applied[i].event
  BY <1>1, UsedKeeps
<1>3. Chain'
  <2> SUFFICES ASSUME NEW i \in 1 .. Len(applied')
               PROVE  /\ applied'[i].event \in 1 .. seq'
                      /\ applied'[i].revision = IF i = Len(applied') THEN active'.doc
                                                ELSE applied'[i + 1].previous
    BY <1>2 DEF Chain
  <2>1. i \in 1 .. Len(applied) /\ (i # Len(applied) => i + 1 \in 1 .. Len(applied))
    BY <1>1, <1>2
  <2>2. /\ applied[i].event \in 1 .. seq
        /\ applied[i].revision =
             IF i = Len(applied) THEN active.doc ELSE applied[i + 1].previous
    BY <2>1 DEF MInv, Chain
  <2> QED BY <1>2, <2>1, <2>2
<1>4. ASSUME NEW i \in 1 .. Len(applied')
      PROVE  Recorded(ring', seq', applied'[i]) /\ Keyed(cache', applied', i)
  <2>1. i \in 1 .. Len(applied)
    BY <1>2
  <2>2. Recorded(ring, seq, applied[i]) /\ Keyed(cache, applied, i)
    BY <2>1 DEF MInv
  <2>3. Recorded(ring', seq', applied'[i])
    BY <1>2, <2>1, <2>2 DEF Recorded
  <2>4. Keyed(cache', applied', i)
    BY <1>1, <1>2, <2>1, <2>2, KeyedKept
  <2> QED BY <2>3, <2>4
<1> QED BY <1>3, <1>4

\* A mutation publishes a snapshot of a document.
LEMMA Published ==
    ASSUME MInv, NEW cap, Publishes(cap)
    PROVE  active' \in Snapshot /\ active'.boot = bootstrap'
<1>1. /\ active.doc \in Document /\ active.boot \in Document /\ active.gen \in Nat
      /\ active.boot = bootstrap /\ file \in Document \cup {NoDoc}
  BY DEF MInv, Documents, Snapshot, BootstrapAgrees
<1>2. ASSUME NEW ops \in Seq(Operation), applyOperations(active.doc, ops) # NoDoc,
             active' = Candidate(ops), bootstrap' = bootstrap
      PROVE  active' \in Snapshot /\ active'.boot = bootstrap'
  <2> DEFINE next == applyOperations(active.doc, ops)
  <2>1. next \in Draft
    BY <1>1, <1>2, DocumentIsDraft, ApplyOperationsTyped
  <2>2. active' = [doc |-> Normalize(next), boot |-> active.boot, gen |-> active.gen + 1]
    BY <1>1, <1>2, Sizes DEF Candidate, compile
  <2> HIDE DEF next
  <2>3. Normalize(next) \in Document
    BY <2>1, NormalizeTyped
  <2> QED BY <1>1, <1>2, <2>2, <2>3 DEF Snapshot
<1>3. ASSUME file # NoDoc, active' = compile(file, NoDoc, active.gen + 1),
             bootstrap' = active'.doc
      PROVE  active' \in Snapshot /\ active'.boot = bootstrap'
  <2>1. active' = [doc |-> Normalize(file), boot |-> Normalize(file), gen |-> active.gen + 1]
    BY <1>3 DEF compile
  <2>2. Normalize(file) \in Document
    BY <1>1, <1>3, DocumentIsDraft, NormalizeTyped
  <2> QED BY <1>1, <1>3, <2>1, <2>2 DEF Snapshot
<1> QED BY <1>2, <1>3 DEF Publishes


\* A refused call leaves an event and nothing else.
LEMMA RefusesKeeps == MInv /\ Refuses => MInv'
<1> SUFFICES ASSUME MInv, NEW cap \in Capabilities, Rejected(cap) PROVE MInv'
  BY DEF Refuses
<1>1. UNCHANGED <<active, bootstrap, file, cache, applied>>
  BY DEF Rejected, Configuration
<1>2. /\ Ring' /\ seq' = seq + 1
      /\ \A x : x.event \in 1 .. seq /\ Recorded(ring, seq, x) => Recorded(ring', seq', x)
  <2>1. Ring /\ Emit(cap, NoDoc, NoDoc)
    BY DEF MInv, Rejected
  <2> QED BY <2>1, Emitted
<1>3. Documents' /\ Cache' /\ CacheSound'
  BY <1>1 DEF MInv, Documents, BootstrapAgrees, Cache, CacheSound
<1>4. applied \in Seq(Mutation) /\ seq \in Nat
  BY DEF MInv, Chain, Ring
<1>5. Chain'
  <2> SUFFICES ASSUME NEW i \in 1 .. Len(applied) PROVE applied[i].event \in 1 .. seq'
    BY <1>1 DEF MInv, Chain
  <2>1. applied[i].event \in 1 .. seq
    BY DEF MInv, Chain
  <2> QED BY <1>2, <1>4, <2>1
<1>6. ASSUME NEW i \in 1 .. Len(applied)
      PROVE  Recorded(ring', seq', applied[i]) /\ Keyed(cache, applied, i)
  <2>1. applied[i].event \in 1 .. seq
    BY DEF MInv, Chain
  <2> QED BY <1>2, <2>1 DEF MInv
<1> QED BY <1>1, <1>2, <1>3, <1>5, <1>6 DEF MInv

\* A retry moves its entry.
LEMMA ReplaysKeeps == MInv /\ Replays => MInv'
<1> SUFFICES ASSUME MInv, NEW k \in Key, Cached(k), Replay(k) PROVE MInv'
  BY DEF Replays
<1>1. /\ UNCHANGED <<active, bootstrap, file, ring, seq>>
      /\ cache' = lookup(k) /\ applied' = Used(applied, k)
  BY DEF Replay, Configuration
<1>2. /\ Cache' /\ CacheSound'
      /\ \A r, x : IsFiniteSet(r.others) /\ Remembered(cache, r) /\ Carries(r, x, k)
                   => Remembered(cache', x)
  <2>1. Cache /\ CacheSound
    BY DEF MInv
  <2> QED BY <1>1, <2>1, Replayed
<1>3. Documents' /\ Ring'
  BY <1>1 DEF MInv, Documents, BootstrapAgrees, Ring
<1>4. k \in ScopedKey
  BY DEF Key, ScopedKey
<1>5. /\ Chain'
      /\ \A i \in 1 .. Len(applied') :
           Recorded(ring', seq', applied'[i]) /\ Keyed(cache', applied', i)
  BY <1>1, <1>2, <1>4, HistoryKept
<1> QED BY <1>2, <1>3, <1>5 DEF MInv

\* A cached plan predicts what it was asked for.
LEMMA PlansKeeps == MInv /\ Plans => MInv'
<1> SUFFICES ASSUME MInv, NEW k \in ScopedKey, NEW in \in Inputs, NEW ops \in Changes,
                    k # NoKey => k[1] = "plan", ~Cached(k),
                    in.expected = active.doc, applyOperations(active.doc, ops) # NoDoc,
                    cache' = store(k, Entry(<<in, ops>>, planFrom(Candidate(ops)), 0)),
                    applied' = Used(applied, k),
                    UNCHANGED <<active, bootstrap, file, ring, seq>>
             PROVE  MInv'
  BY DEF Plans
<1> DEFINE next == applyOperations(active.doc, ops)
           e == Entry(<<in, ops>>, planFrom(Candidate(ops)), 0)
<1>1. active.doc \in Document
  BY DEF MInv, Documents, Snapshot
<1>2. next \in Draft
  BY <1>1, ChangeAssumption, DocumentIsDraft, ApplyOperationsTyped
<1>3. Candidate(ops).doc = Normalize(next)
  BY DEF Candidate, compile
<1>4. e = [fp |-> <<in, ops>>, event |-> 0,
           plan |-> [previous |-> active.doc, candidate |-> Normalize(next)]]
  BY <1>3 DEF Entry, planFrom
<1>5. Normalize(next) \in Document
  BY <1>2, NormalizeTyped
<1>6. <<in, ops>> \in Fingerprint
  BY FingerprintTyped
<1> HIDE DEF e
<1>7. e \in CacheEntry
  BY <1>1, <1>4, <1>5, <1>6 DEF CacheEntry, Plan
<1>8. Predicts(e)
  BY <1>4 DEF Predicts
<1>9. Documents' /\ Ring'
  BY DEF MInv, Documents, BootstrapAgrees, Ring
<1>10. Cache /\ CacheSound
  BY DEF MInv
<1>11. /\ Cache' /\ CacheSound'
       /\ \A r, x : /\ r.key # NoKey /\ r.key[1] # "plan"
                    /\ IsFiniteSet(r.others) /\ Remembered(cache, r) /\ Carries(r, x, k)
                    => Remembered(cache', x)
  <2>1. CASE k = NoKey
    <3>1. cache' = cache
      BY <2>1 DEF store
    <3> QED BY <1>10, <2>1, <3>1, NotUsed DEF Cache, CacheSound
  <2>2. CASE k # NoKey
    <3>1. k \in Key
      BY <2>2, Sizes
    <3>2. cache' = store(k, e)
      BY DEF e
    <3>3. /\ Cache' /\ CacheSound'
          /\ \A r, x : /\ r.key # k /\ IsFiniteSet(r.others) /\ Remembered(cache, r)
                       /\ Carries(r, x, k)
                       => Remembered(cache', x)
      BY <1>7, <1>8, <1>10, <3>1, <3>2, Stored
    <3>4. \A r : r.key[1] # "plan" => r.key # k
      BY <2>2
    <3> QED BY <3>3, <3>4
  <2> QED BY <2>1, <2>2
<1>12. /\ Chain'
       /\ \A i \in 1 .. Len(applied') :
            Recorded(ring', seq', applied'[i]) /\ Keyed(cache', applied', i)
  BY <1>11, HistoryKept
<1> QED BY <1>9, <1>11, <1>12 DEF MInv


\* A mutation is recorded in the ring, in the cache and in the history.
LEMMA MutatesKeeps == MInv /\ Mutates => MInv'
<1> SUFFICES ASSUME MInv, NEW cap \in Capabilities \ {"plan"}, NEW k \in ScopedKey,
                    NEW fp \in Fingerprint, k # NoKey => k[1] = cap, ~Cached(k),
                    Publishes(cap),
                    Commit(cap, k, fp, [previous |-> active.doc, candidate |-> active'.doc])
             PROVE  MInv'
  BY DEF Mutates
<1> DEFINE plan == [previous |-> active.doc, candidate |-> active'.doc]
           e == Entry(fp, plan, seq')
           rec == [key |-> k, fp |-> fp, previous |-> active.doc, revision |-> active'.doc,
                   event |-> seq', others |-> {}]
           n == Len(applied)
<1>1. /\ Emit(cap, active.doc, active'.doc)
      /\ cache' = store(k, e) /\ applied' = Append(Used(applied, k), rec) /\ file' = file
  BY DEF Commit
<1>2. active' \in Snapshot /\ active'.boot = bootstrap' /\ active.doc \in Document
      /\ active'.doc \in Document
  BY Published DEF MInv, Documents, Snapshot
<1>3. Documents'
  BY <1>1, <1>2 DEF MInv, Documents, BootstrapAgrees
<1>4. /\ Ring /\ Cache /\ CacheSound /\ applied \in Seq(Mutation) /\ n \in Nat /\ seq \in Nat
  BY DEF MInv, Chain, Ring
<1>5. /\ Ring' /\ seq' = seq + 1 /\ Len(ring') > 0
      /\ ring'[Len(ring')] = [id |-> seq', cap |-> cap, previous |-> active.doc,
                              revision |-> active'.doc]
      /\ \A x : x.event \in 1 .. seq /\ Recorded(ring, seq, x) => Recorded(ring', seq', x)
  BY <1>1, <1>2, <1>4, Emitted
<1>6. rec \in Mutation
  BY <1>2, <1>4, <1>5 DEF Mutation
<1>7. e = [fp |-> fp, plan |-> plan, event |-> seq'] /\ e \in CacheEntry
  BY <1>2, <1>4, <1>5 DEF Entry, CacheEntry, Plan
<1>8. /\ rec.key = k /\ rec.fp = fp /\ rec.event = seq' /\ rec.previous = active.doc
      /\ rec.revision = active'.doc /\ rec.others = {}
  OBVIOUS
<1> HIDE DEF rec
<1>9. /\ Used(applied, k) \in Seq(Mutation) /\ Len(Used(applied, k)) = n
      /\ \A i \in 1 .. n :
           LET u == Used(applied, k)[i]
           IN  /\ u.key = applied[i].key /\ u.fp = applied[i].fp
               /\ u.previous = applied[i].previous /\ u.revision = applied[i].revision
               /\ u.event = applied[i].event
  BY <1>4, UsedKeeps
<1>10. /\ applied' \in Seq(Mutation) /\ Len(applied') = n + 1 /\ applied'[n + 1] = rec
       /\ \A i \in 1 .. n : applied'[i] = Used(applied, k)[i]
  BY <1>1, <1>4, <1>6, <1>9, AppendProperties
<1>11. \A i \in 1 .. n + 1 : i = n + 1 \/ i \in 1 .. n
  BY <1>4
<1>12. \A i \in 1 .. n : applied[i].event \in 1 .. seq
  BY DEF MInv, Chain
<1>13. Chain'
  <2> SUFFICES ASSUME NEW i \in 1 .. n + 1
               PROVE  /\ applied'[i].event \in 1 .. seq'
                      /\ applied'[i].revision = IF i = n + 1 THEN active'.doc
                                                ELSE applied'[i + 1].previous
    BY <1>10 DEF Chain
  <2>1. CASE i = n + 1
    BY <1>4, <1>5, <1>8, <1>10, <2>1
  <2>2. CASE i \in 1 .. n
    <3>1. /\ applied[i].event \in 1 .. seq
          /\ applied[i].revision = IF i = n THEN active.doc ELSE applied[i + 1].previous
      BY <2>2 DEF MInv, Chain
    <3>2. applied'[i].event \in 1 .. seq'
      BY <1>4, <1>5, <1>9, <1>10, <2>2, <3>1, SMTT(20)
    <3>3. CASE i = n
      <4>1. applied'[i + 1].previous = active.doc
        BY <1>8, <1>10, <3>3
      <4> QED BY <1>4, <1>9, <1>10, <2>2, <3>1, <3>2, <3>3, <4>1
    <3>4. CASE i # n
      <4>1. i + 1 \in 1 .. n
        BY <1>4, <2>2, <3>4
      <4>2. applied'[i + 1].previous = applied[i + 1].previous
        BY <1>9, <1>10, <4>1
      <4> QED BY <1>4, <1>9, <1>10, <2>2, <3>1, <3>2, <3>4, <4>2
    <3> QED BY <3>3, <3>4
  <2> QED BY <1>11, <2>1, <2>2
<1>14. \A i \in 1 .. n + 1 : Recorded(ring', seq', applied'[i])
  <2>1. ASSUME NEW i \in 1 .. n PROVE Recorded(ring', seq', applied'[i])
    <3>1. Recorded(ring', seq', applied[i])
      BY <1>5, <1>12 DEF MInv
    <3> QED BY <1>9, <1>10, <3>1 DEF Recorded
  <2>2. Recorded(ring', seq', applied'[n + 1])
    <3>1. Len(ring') \in 1 .. Len(ring')
      BY <1>5 DEF Ring
    <3> QED BY <1>5, <1>8, <1>10, <3>1 DEF Recorded
  <2> QED BY <1>11, <2>1, <2>2
<1>15. /\ Cache' /\ CacheSound'
       /\ k # NoKey => /\ k \in DOMAIN cache'.m /\ cache'.m[k] = e
                       /\ Follows(cache'.order, k) = {}
       /\ \A r, x : /\ r.key # NoKey /\ r.key # k
                    /\ IsFiniteSet(r.others) /\ Remembered(cache, r) /\ Carries(r, x, k)
                    => Remembered(cache', x)
  <2>1. CASE k = NoKey
    <3>1. cache' = cache
      BY <1>1, <2>1 DEF store
    <3> QED BY <1>4, <2>1, <3>1, NotUsed DEF Cache, CacheSound
  <2>2. CASE k # NoKey
    <3>1. k \in Key /\ k[1] # "plan"
      BY <2>2, Sizes
    <3> HIDE DEF e
    <3> QED BY <1>1, <1>4, <1>7, <3>1, Stored
  <2> QED BY <2>1, <2>2
<1>16. \A i \in 1 .. n + 1 : Keyed(cache', applied', i)
  <2>1. ASSUME NEW i \in 1 .. n PROVE Keyed(cache', applied', i)
    <3>1. Keyed(cache, applied, i)
      BY DEF MInv
    <3>2. Len(applied') >= n /\ Len(applied') # n
      BY <1>4, <1>10
    <3>3. /\ Len(applied') >= Len(applied)
          /\ \A j \in 1 .. Len(applied) : applied'[j] = Used(applied, k)[j]
          /\ Len(applied') > Len(applied) => applied'[Len(applied) + 1].key = k
      BY <1>8, <1>10, <3>2
    <3>4. \A r, x : /\ r.key # NoKey /\ r.key[1] # "plan"
                    /\ r.key = k => Len(applied') = Len(applied)
                    /\ IsFiniteSet(r.others) /\ Remembered(cache, r) /\ Carries(r, x, k)
                    => Remembered(cache', x)
      BY <1>15, <3>2
    <3> QED BY <1>4, <1>10, <3>1, <3>3, <3>4, KeyedKept
  <2>2. Keyed(cache', applied', n + 1)
    <3>1. IsFiniteSet(rec.others)
      BY <1>8, FS_EmptySet
    <3>2. k # NoKey => k[1] # "plan"
      OBVIOUS
    <3>3. k # NoKey => Remembered(cache', rec)
      <4>1. e.fp = fp /\ e.event = seq'
        BY <1>7
      <4> QED BY <1>8, <1>15, <4>1 DEF Remembered
    <3> QED BY <1>8, <1>10, <3>1, <3>2, <3>3 DEF Keyed
  <2> QED BY <1>11, <2>1, <2>2
<1> QED BY <1>3, <1>5, <1>10, <1>13, <1>14, <1>15, <1>16 DEF MInv

\* Editing the file changes no snapshot.
LEMMA EditsFileKeeps == MInv /\ EditsFile => MInv'
<1> SUFFICES ASSUME MInv, EditsFile PROVE MInv'
  OBVIOUS
<1>1. Documents' /\ Cache' /\ CacheSound' /\ Ring' /\ Chain'
  BY DEF MInv, EditsFile, Documents, BootstrapAgrees, Cache, CacheSound, Ring, Chain
<1> QED BY <1>1 DEF MInv, EditsFile

\* Nothing happens.
LEMMA ManagementStutters == MInv /\ UNCHANGED vars => MInv'
<1> SUFFICES ASSUME MInv, UNCHANGED vars PROVE MInv'
  OBVIOUS
<1>1. Documents' /\ Cache' /\ CacheSound' /\ Ring' /\ Chain'
  BY DEF MInv, vars, Documents, BootstrapAgrees, Cache, CacheSound, Ring, Chain
<1> QED BY <1>1 DEF MInv, vars

\* MInv holds of every state of the control plane, for every size of the
\* idempotency cache and the audit ring.
THEOREM ManagementInvariance == Spec => []MInv
<1>1. Init => MInv
  BY ManagementInit
<1>2. MInv /\ [Next]_vars => MInv'
  BY StepKinds, RefusesKeeps, ReplaysKeeps, MutatesKeeps, PlansKeeps, EditsFileKeeps,
     ManagementStutters DEF Kinds
<1> QED BY <1>1, <1>2, PTL DEF Spec


-----------------------------------------------------------------------------
(* What follows.                                                           *)

\* The state of the control plane has its type.
THEOREM ManagementTypeCorrect == Spec => []TypeOK
<1> SUFFICES MInv => TypeOK
  BY ManagementInvariance, PTL
<1> SUFFICES ASSUME MInv PROVE TypeOK
  OBVIOUS
<1>1. active \in Snapshot /\ file \in Document \cup {NoDoc} /\ bootstrap \in Document
  BY DEF MInv, Documents, Snapshot, BootstrapAgrees
<1>2. cache.order \in Seq(ScopedKey \ {NoKey})
  BY Sizes DEF MInv, Cache
<1>3. ASSUME NEW k \in DOMAIN cache.m
      PROVE  k \in ScopedKey \ {NoKey} /\ cache.m[k].plan \in Plan /\ cache.m[k].event \in Nat
  <2>1. k \in ToSet(cache.order)
    BY DEF MInv, CacheSound
  <2>2. k \in ScopedKey \ {NoKey}
    BY <1>2, <2>1 DEF ToSet
  <2>3. cache.m[k] \in CacheEntry
    BY DEF MInv, Cache
  <2> QED BY <2>2, <2>3 DEF CacheEntry
<1>4. ring \in Seq(Event) /\ seq \in Nat
  BY DEF MInv, Ring
<1>5. ASSUME NEW i \in DOMAIN applied
      PROVE  /\ applied[i].key \in ScopedKey /\ applied[i].event \in 1 .. seq
             /\ {applied[i].previous, applied[i].revision} \subseteq Document
  <2>1. applied \in Seq(Mutation)
    BY DEF MInv, Chain
  <2>2. i \in 1 .. Len(applied) /\ applied[i] \in Mutation
    BY <2>1
  <2>3. applied[i].event \in 1 .. seq
    BY <2>2 DEF MInv, Chain
  <2> QED BY <2>2, <2>3 DEF Mutation
<1> QED BY <1>1, <1>2, <1>3, <1>4, <1>5 DEF TypeOK

\* The drift that a status reports is drift from what a reset last loaded.
THEOREM DriftIsTrue == Spec => []BootstrapAgrees
BY ManagementInvariance, PTL DEF MInv, Documents

\* The order and the map of the idempotency cache agree, within the bound.
THEOREM CacheStaysSound == Spec => []CacheSound
BY ManagementInvariance, PTL DEF MInv

\* The event of a mutation is in the ring until RingCap later events push it
\* out, and the mutations are a chain of revisions that ends in the active one.
THEOREM AuditHasNoGap == Spec => []AuditTrail
<1> SUFFICES MInv => AuditTrail
  BY ManagementInvariance, PTL
<1> SUFFICES ASSUME MInv, NEW i \in DOMAIN applied
             PROVE  /\ seq - applied[i].event < RingCap =>
                         \E n \in DOMAIN ring : /\ ring[n].id = applied[i].event
                                                /\ ring[n].previous = applied[i].previous
                                                /\ ring[n].revision = applied[i].revision
                    /\ applied[i].revision = IF i = Len(applied) THEN active.doc
                                             ELSE applied[i + 1].previous
  BY DEF AuditTrail
<1>1. applied \in Seq(Mutation) /\ ring \in Seq(Event)
  BY DEF MInv, Chain, Ring
<1>2. i \in 1 .. Len(applied) /\ DOMAIN ring = 1 .. Len(ring)
  BY <1>1
<1> QED BY <1>2 DEF MInv, Chain, Recorded

\* A plan that the cache would serve now predicts what applying it would do.
THEOREM ServedPlansAreCurrent == Spec => []CachedPlanCurrent
<1> SUFFICES MInv => CachedPlanCurrent
  BY ManagementInvariance, PTL
<1> SUFFICES ASSUME MInv, NEW k \in DOMAIN cache.m, k[1] = "plan",
                    cache.m[k].fp[1].expected = active.doc
             PROVE  /\ cache.m[k].plan.previous = active.doc
                    /\ cache.m[k].plan.candidate = Candidate(cache.m[k].fp[2]).doc
  BY DEF CachedPlanCurrent
<1>1. Predicts(cache.m[k])
  BY DEF MInv, Cache
<1> QED BY <1>1 DEF Predicts, Candidate, compile

\* A retry is answered with the result of the mutation it repeats, while fewer
\* than IdempCap other keys were used since.
THEOREM RetriesAreReplayed == Spec => []RetryReplayed
<1> SUFFICES MInv => RetryReplayed
  BY ManagementInvariance, PTL
<1> SUFFICES ASSUME MInv, NEW i \in DOMAIN applied, applied[i].key # NoKey,
                    Cardinality(applied[i].others) < IdempCap,
                    \A j \in DOMAIN applied : j > i => applied[j].key # applied[i].key
             PROVE  /\ applied[i].key \in DOMAIN cache.m
                    /\ cache.m[applied[i].key].fp = applied[i].fp
                    /\ cache.m[applied[i].key].event = applied[i].event
  BY DEF RetryReplayed
<1>1. applied \in Seq(Mutation)
  BY DEF MInv, Chain
<1>2. i \in 1 .. Len(applied) /\ Newest(applied, i)
  BY <1>1 DEF Newest
<1>3. IsFiniteSet(applied[i].others) /\ Remembered(cache, applied[i])
  BY <1>2 DEF MInv, Keyed
<1>4. ~(Cardinality(applied[i].others) >= IdempCap)
  BY <1>3, FS_CardinalityType, Sizes
<1> QED BY <1>3, <1>4 DEF Remembered

\* Updating a singleton with a merged value keeps the rest of every singleton.
LEMMA MergedKeepsRest ==
    ASSUME MInv, NEW at \in Singletons, NEW v \in Knobs, NEW kind \in Singletons
    PROVE  Candidate(Merged(at, v)).doc.single[kind].rest = active.doc.single[kind].rest
<1> DEFINE value == [active.doc.single[at] EXCEPT !.knob = v]
           op == [op |-> "update", kind |-> at, value |-> value]
           d == [active.doc EXCEPT !.single[at] = value]
<1>1. active.doc \in Document /\ active.doc # NoDoc
  BY Sizes DEF MInv, Documents, Snapshot
<1>2. active.doc.single \in [Singletons -> Singleton]
  BY <1>1 DEF Document
<1>3. value \in Singleton /\ value.rest = active.doc.single[at].rest
  BY <1>2 DEF Singleton
<1>4. Merged(at, v) = <<op>>
  BY DEF Merged
<1>5. op.kind = at /\ op.value = value /\ op.op = "update" /\ at # "client"
  BY DEF Singletons
<1> HIDE DEF op, value
<1>6. applyOperations(active.doc, Merged(at, v)) = applyOne(active.doc, op)
  BY <1>1, <1>4, <1>5, ApplyOne DEF applyNext
<1>7. applyOne(active.doc, op) = d
  <2>1. mutateSingleton(op) = value
    BY <1>5 DEF mutateSingleton
  <2>2. applyOne(active.doc, op) = [active.doc EXCEPT !.single[op.kind] = mutateSingleton(op)]
    <3>1. op.kind \in Singletons /\ op.kind # "client"
      BY <1>5
    <3> QED BY <3>1 DEF applyOne, Singletons
  <2> QED BY <1>5, <2>1, <2>2
<1>8. Candidate(Merged(at, v)).doc = Normalize(d)
  BY <1>6, <1>7 DEF Candidate, compile
<1> DEFINE single == [s \in Singletons |->
               IF d.single[s].knob = NoKnob THEN [d.single[s] EXCEPT !.knob = Zero]
               ELSE d.single[s]]
<1>9. Normalize(d) = [d EXCEPT !.single = single]
  BY Zenon DEF Normalize
<1>10. d.single = [active.doc.single EXCEPT ![at] = value] /\ "single" \in DOMAIN d
  BY <1>1 DEF Document
<1> HIDE DEF d
<1>11. d.single \in [Singletons -> Singleton]
       /\ d.single[kind].rest = active.doc.single[kind].rest
  BY <1>2, <1>3, <1>10
<1>12. single[kind].rest = d.single[kind].rest
  BY <1>11 DEF Singleton
<1> HIDE DEF single
<1>13. Normalize(d).single = single
  BY <1>9, <1>10
<1> QED BY <1>8, <1>11, <1>12, <1>13

\* A typed operation changes the field it names and keeps the rest of every
\* singleton of the document.
THEOREM TypedOperationsKeepRest == Spec => TypedKeepsRest
<1>1. ASSUME MInv, [Next]_vars, NEW kind \in Singletons, applied' # applied,
             ring'[Len(ring')].cap \in {"setMFA", "swapVendor", "setOverage"}
      PROVE  active'.doc.single[kind].rest = active.doc.single[kind].rest
  <2>1. CASE Refuses \/ EditsFile \/ UNCHANGED vars
    BY <1>1, <2>1 DEF Refuses, Rejected, EditsFile, vars
  <2>2. CASE Replays
    BY <2>2 DEF Replays, Replay, Configuration
  <2>3. CASE Plans
    BY <2>3 DEF Plans
  <2>4. CASE Mutates
    <3>1. PICK cap \in Capabilities \ {"plan"}, k \in ScopedKey, fp \in Fingerprint :
            Publishes(cap)
            /\ Commit(cap, k, fp, [previous |-> active.doc, candidate |-> active'.doc])
      BY <2>4 DEF Mutates
    <3>2. Ring /\ active.doc \in Document /\ active'.doc \in Document
      BY <1>1, <3>1, Published DEF MInv, Documents, Snapshot
    <3>3. ring'[Len(ring')] = [id |-> seq', cap |-> cap, previous |-> active.doc,
                               revision |-> active'.doc]
      <4>1. Emit(cap, active.doc, active'.doc)
        BY <3>1 DEF Commit
      <4> QED BY <3>2, <4>1, Emitted
    <3>4. cap \in TypedCalls /\ cap # "reset"
      BY <1>1, <3>3 DEF TypedCalls
    <3>5. PICK at \in Singletons, v \in Knobs : active' = Candidate(Merged(at, v))
      BY <3>1, <3>4 DEF Publishes
    <3> QED BY <1>1, <3>5, MergedKeepsRest
  <2> QED BY <1>1, <2>1, <2>2, <2>3, <2>4, StepKinds DEF Kinds
<1>2. MInv /\ [Next]_vars
      => [\A kind \in Singletons :
            /\ applied' # applied /\ ring'[Len(ring')].cap \in {"setMFA", "swapVendor", "setOverage"}
            => active'.doc.single[kind].rest = active.doc.single[kind].rest]_vars
  BY <1>1
<1> QED BY <1>2, ManagementInvariance, PTL DEF Spec, TypedKeepsRest


=============================================================================
