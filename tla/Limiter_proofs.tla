--------------------------- MODULE Limiter_proofs ---------------------------
(***************************************************************************)
(* What holds of the rate limiter for every limit, window and number of    *)
(* buckets.  The admissions of an address are in order, any Limit + 1 of   *)
(* them in a row span a window, and what its bucket has forgotten of them, *)
(* or the sweep with the bucket, is older than the window.                 *)
(***************************************************************************)
EXTENDS Limiter, SequenceTheorems, FiniteSetTheorems, WellFoundedInduction, TLAPS

-----------------------------------------------------------------------------
(* The invariant.                                                          *)

\* Later entries are not smaller.
Ordered(s) == \A i, j \in 1 .. Len(s) : i <= j => s[i] <= s[j]

\* Limit entries on, a window has gone by.
Spaced(s) == \A i \in 1 .. Len(s) : i + Limit <= Len(s) => s[i] + Window <= s[i + Limit]

\* One sequence is the end of another.
Ends(s, t) ==
    Len(s) <= Len(t) /\ \A j \in 1 .. Len(s) : s[j] = t[(Len(t) - Len(s)) + j]

\* Before the last m entries none is in the window that ends at t.
OldBefore(s, m, t) == \A i \in 1 .. Len(s) : i <= Len(s) - m => s[i] + Window <= t

\* What is remembered of an address.
Bucket(a) == IF a \in DOMAIN hits THEN hits[a] ELSE <<>>

Types ==
    /\ now \in Nat
    /\ DOMAIN hits \subseteq Addresses
    /\ IsFiniteSet(DOMAIN hits) /\ Cardinality(DOMAIN hits) <= Buckets
    /\ \A a \in DOMAIN hits : hits[a] \in Seq(0 .. now) /\ Len(hits[a]) <= Limit
    /\ admitted \in [Addresses -> Seq(0 .. now)]
    /\ verdict \in [address: Addresses, ok: BOOLEAN] \cup {<<>>}

LInv ==
    /\ Types
    /\ \A a \in Addresses :
         /\ Ordered(admitted[a]) /\ Spaced(admitted[a])
         /\ Ends(Bucket(a), admitted[a]) /\ OldBefore(admitted[a], Len(Bucket(a)), now)

-----------------------------------------------------------------------------
(* Induction.                                                              *)

Less == OpToRel(<, Nat)

\* The natural numbers are well founded.
LEMMA LessWellFounded ==
    IsWellFoundedOn(Less, Nat) /\ \A x, y \in Nat : y < x => <<y, x>> \in Less
<1>1. IsWellFoundedOn(Less, Nat)
  BY NatLessThanWellFounded DEF Less
<1>2. \A x, y \in Nat : y < x => <<y, x>> \in Less
  BY DEF Less, OpToRel
<1> QED BY <1>1, <1>2

\* A set of natural numbers that is not empty has a least element.
LEMMA LeastElement ==
    ASSUME NEW S \in SUBSET Nat, S # {}
    PROVE  \E x \in S : \A y \in S : x <= y
<1>1. PICK x \in S : \A y \in S : ~ (<<y, x>> \in Less)
  BY LessWellFounded, WFMin
<1>2. \A y \in S : y \in Nat /\ x \in Nat
  OBVIOUS
<1>3. \A y \in S : ~(y < x)
  BY <1>1, <1>2, LessWellFounded
<1> QED BY <1>2, <1>3

\* What holds of 0 and passes to the successor holds of all numbers.
LEMMA SetInduction ==
    ASSUME NEW S, 0 \in S, \A n \in Nat : n \in S => n + 1 \in S
    PROVE  Nat \subseteq S
<1> SUFFICES ASSUME Nat \ S # {} PROVE FALSE
  OBVIOUS
<1>1. PICK x \in Nat \ S : \A y \in Nat \ S : x <= y
  BY LeastElement
<1>2. x - 1 \in Nat /\ x - 1 < x
  OBVIOUS
<1>3. x - 1 \in S
  BY <1>1, <1>2
<1> QED BY <1>2, <1>3

-----------------------------------------------------------------------------
(* The times that are kept.                                                *)

\* The times kept of the first ones.
IsFilter(kept, times, n) ==
    kept = [m \in 0 .. n |->
              IF m = 0 THEN <<>>
              ELSE IF Recent(times[m]) THEN Append(kept[m - 1], times[m]) ELSE kept[m - 1]]

\* They exist, by induction over the number of times.
LEMMA FilterExists ==
    ASSUME NEW times, NEW n \in Nat
    PROVE  \E g : IsFilter(g, times, n)
<1> DEFINE S == {m \in Nat : \E g : IsFilter(g, times, m)}
           next(s, m) == IF Recent(times[m]) THEN Append(s, times[m]) ELSE s
<1>1. 0 \in S
  <2>1. 0 .. 0 = {0}
    OBVIOUS
  <2> DEFINE g == [i \in 0 .. 0 |-> <<>>]
  <2>2. IsFilter(g, times, 0)
    BY <2>1 DEF IsFilter
  <2> HIDE DEF g
  <2> QED BY <2>2
<1>2. ASSUME NEW m \in Nat, m \in S PROVE m + 1 \in S
  <2>1. PICK g : IsFilter(g, times, m)
    BY <1>2
  <2>2. \A i \in 0 .. m : g[i] = IF i = 0 THEN <<>> ELSE next(g[i - 1], i)
    BY <2>1 DEF IsFilter
  <2> HIDE DEF next
  <2> DEFINE h == [i \in 0 .. m + 1 |-> IF i = m + 1 THEN next(g[m], m + 1) ELSE g[i]]
  <2>3. \A i \in 0 .. m + 1 : h[i] = IF i = 0 THEN <<>> ELSE next(h[i - 1], i)
    <3> TAKE i \in 0 .. m + 1
    <3>1. CASE i = m + 1
      <4>1. h[i - 1] = g[m]
        BY <3>1
      <4> QED BY <3>1, <4>1
    <3>2. CASE i # m + 1
      <4>1. i \in 0 .. m /\ h[i] = g[i]
        BY <3>2
      <4>2. i # 0 => h[i - 1] = g[i - 1]
        BY <4>1
      <4> QED BY <2>2, <4>1, <4>2
    <3> QED BY <3>1, <3>2
  <2>4. h = [i \in 0 .. m + 1 |-> IF i = 0 THEN <<>> ELSE next(h[i - 1], i)]
    BY <2>3
  <2>5. IsFilter(h, times, m + 1)
    BY <2>4 DEF IsFilter, next
  <2> HIDE DEF h
  <2> QED BY <2>5
<1> HIDE DEF S
<1>3. n \in S
  BY <1>1, <1>2, SetInduction
<1> QED BY <1>3 DEF S

\* recentOf is the last of them.
LEMMA RecentOfRun ==
    ASSUME NEW times, Len(times) \in Nat
    PROVE  \E g : IsFilter(g, times, Len(times)) /\ recentOf(times) = g[Len(times)]
<1> DEFINE kept[n \in 0 .. Len(times)] ==
            IF n = 0 THEN <<>>
            ELSE IF Recent(times[n]) THEN Append(kept[n - 1], times[n]) ELSE kept[n - 1]
<1> HIDE DEF kept
<1>1. \E g : IsFilter(g, times, Len(times))
  BY FilterExists
<1>2. IsFilter(kept, times, Len(times))
  BY <1>1, Zenon DEF kept, IsFilter
<1>3. recentOf(times) = kept[Len(times)]
  BY Zenon DEF recentOf, kept
<1> QED BY <1>2, <1>3

\* Of ordered times those are kept, at the end, that are recent.
KeptOf(f, s, n) ==
    /\ f \in Seq(0 .. now) /\ Len(f) <= n
    /\ \A j \in 1 .. Len(f) : f[j] = s[(n - Len(f)) + j] /\ Recent(f[j])
    /\ \A i \in 1 .. n : i <= n - Len(f) => ~Recent(s[i])

\* The sizes are numbers, and none is zero.
LEMMA Bounds ==
    /\ Limit \in Nat /\ Limit > 0 /\ Window \in Nat /\ Window > 0
    /\ Buckets \in Nat /\ Buckets > 0
BY LimiterAssumption

\* Filtering ordered times keeps their recent end.
LEMMA RecentOfKeeps ==
    ASSUME now \in Nat, NEW s \in Seq(0 .. now), Ordered(s)
    PROVE  KeptOf(recentOf(s), s, Len(s))
<1>1. Len(s) \in Nat /\ \A i \in 1 .. Len(s) : s[i] \in 0 .. now
  OBVIOUS
<1>2. PICK g : IsFilter(g, s, Len(s)) /\ recentOf(s) = g[Len(s)]
  BY <1>1, RecentOfRun
<1> DEFINE S == {n \in Nat : n <= Len(s) => KeptOf(g[n], s, n)}
<1>3. 0 \in S
  <2>1. g[0] = <<>>
    BY <1>1, <1>2 DEF IsFilter
  <2>2. <<>> \in Seq(0 .. now) /\ Len(<<>>) = 0 /\ 1 .. 0 = {}
    OBVIOUS
  <2>3. KeptOf(<<>>, s, 0)
    BY <2>2 DEF KeptOf
  <2> QED BY <2>1, <2>3
<1>4. ASSUME NEW n \in Nat, n \in S PROVE n + 1 \in S
  <2> SUFFICES ASSUME n + 1 <= Len(s) PROVE KeptOf(g[n + 1], s, n + 1)
    OBVIOUS
  <2> DEFINE f == g[n]
             L == Len(f)
  <2>1. g[n + 1] = IF Recent(s[n + 1]) THEN Append(f, s[n + 1]) ELSE f
    <3>1. n + 1 \in 0 .. Len(s) /\ n + 1 # 0 /\ (n + 1) - 1 = n
      BY <1>1
    <3>2. \A m \in 0 .. Len(s) :
            g[m] = IF m = 0 THEN <<>>
                   ELSE IF Recent(s[m]) THEN Append(g[m - 1], s[m]) ELSE g[m - 1]
      BY <1>2, Zenon DEF IsFilter
    <3> QED BY <3>1, <3>2
  <2>2. KeptOf(f, s, n)
    BY <1>1, <1>4
  <2>3. f \in Seq(0 .. now) /\ L \in Nat /\ L <= n
    BY <2>2 DEF KeptOf
  <2>4. s[n + 1] \in 0 .. now
    BY <1>1
  <2> HIDE DEF f, L
  <2>5. CASE Recent(s[n + 1])
    <3> DEFINE h == Append(f, s[n + 1])
    <3>1. /\ h \in Seq(0 .. now) /\ Len(h) = L + 1 /\ h[L + 1] = s[n + 1]
          /\ \A j \in 1 .. L : h[j] = f[j]
      BY <2>3, <2>4, AppendProperties DEF L
    <3>2. g[n + 1] = h
      BY <2>1, <2>5
    <3> HIDE DEF h
    <3>3. (n + 1) - Len(h) = n - L
      BY <2>3, <3>1
    <3>4. ASSUME NEW j \in 1 .. Len(h)
          PROVE  h[j] = s[((n + 1) - Len(h)) + j] /\ Recent(h[j])
      <4>1. CASE j = L + 1
        <5>1. ((n + 1) - Len(h)) + j = n + 1
          BY <2>3, <3>3, <4>1
        <5> QED BY <2>5, <3>1, <4>1, <5>1
      <4>2. CASE j # L + 1
        <5>1. j \in 1 .. L
          BY <2>3, <3>1, <4>2
        <5>2. f[j] = s[(n - L) + j] /\ Recent(f[j])
          BY <2>2, <5>1 DEF KeptOf, L
        <5> QED BY <3>1, <3>3, <5>1, <5>2
      <4> QED BY <4>1, <4>2
    <3>5. ASSUME NEW i \in 1 .. n + 1, i <= (n + 1) - Len(h) PROVE ~Recent(s[i])
      <4>1. i \in 1 .. n /\ i <= n - L
        BY <2>3, <3>3, <3>5
      <4> QED BY <2>2, <4>1 DEF KeptOf, L
    <3>6. h \in Seq(0 .. now) /\ Len(h) <= n + 1
      BY <2>3, <3>1
    <3>7. KeptOf(h, s, n + 1)
      BY <3>4, <3>5, <3>6 DEF KeptOf
    <3> QED BY <3>2, <3>7
  <2>6. CASE ~Recent(s[n + 1])
    <3>1. g[n + 1] = f
      BY <2>1, <2>6
    <3>2. \A i \in 1 .. n + 1 : ~Recent(s[i])
      <4> TAKE i \in 1 .. n + 1
      <4>1. s[i] <= s[n + 1] /\ s[i] \in Nat /\ s[n + 1] \in Nat
        BY <1>1 DEF Ordered
      <4> QED BY <2>6, <4>1, Bounds, SMTT(20) DEF Recent
    <3>3. L = 0
      <4> SUFFICES ASSUME L > 0 PROVE FALSE
        BY <2>3
      <4>1. L \in 1 .. L /\ (n - L) + L = n /\ n \in 1 .. n + 1
        BY <2>3
      <4>2. f[L] = s[(n - L) + L] /\ Recent(f[L])
        BY <2>2, <4>1 DEF KeptOf, L
      <4> QED BY <3>2, <4>1, <4>2
    <3> QED BY <2>3, <3>1, <3>2, <3>3 DEF KeptOf, L
  <2> QED BY <2>5, <2>6
<1> HIDE DEF S
<1>5. Len(s) \in S
  BY <1>1, <1>3, <1>4, SetInduction
<1> QED BY <1>1, <1>2, <1>5 DEF S

-----------------------------------------------------------------------------
(* The invariant is inductive.                                             *)

\* Nobody was admitted yet.
LEMMA LimiterInit == Init => LInv
<1> SUFFICES ASSUME Init PROVE LInv
  OBVIOUS
<1>1. DOMAIN hits = {} /\ Len(<<>>) = 0 /\ \A S : <<>> \in Seq(S)
  BY DEF Init
<1>2. IsFiniteSet({}) /\ Cardinality({}) = 0
  BY FS_EmptySet
<1>3. Types
  BY <1>1, <1>2, Bounds DEF Init, Types
<1>4. \A a \in Addresses : admitted[a] = <<>> /\ Bucket(a) = <<>>
  BY <1>1 DEF Init, Bucket
<1> QED BY <1>1, <1>3, <1>4 DEF LInv, Ordered, Spaced, Ends, OldBefore

\* What the types say of one address.
LEMMA AddressTyped ==
    ASSUME LInv, NEW a \in Addresses
    PROVE  /\ now \in Nat
           /\ admitted[a] \in Seq(0 .. now) /\ Len(admitted[a]) \in Nat
           /\ \A i \in 1 .. Len(admitted[a]) : admitted[a][i] \in Nat /\ admitted[a][i] <= now
           /\ Bucket(a) \in Seq(0 .. now) /\ Len(Bucket(a)) \in Nat
           /\ Ordered(admitted[a]) /\ Spaced(admitted[a])
           /\ Ends(Bucket(a), admitted[a]) /\ OldBefore(admitted[a], Len(Bucket(a)), now)
<1>1. now \in Nat /\ admitted[a] \in Seq(0 .. now) /\ Bucket(a) \in Seq(0 .. now)
  <2>1. <<>> \in Seq(0 .. now)
    OBVIOUS
  <2>2. Bucket(a) \in Seq(0 .. now)
    BY <2>1 DEF LInv, Types, Bucket
  <2> QED BY <2>2 DEF LInv, Types
<1>2. \A i \in 1 .. Len(admitted[a]) : admitted[a][i] \in 0 .. now
  BY <1>1
<1> QED BY <1>1, <1>2 DEF LInv

\* An address that the sweep forgets has no recent admission.
LEMMA Forgotten ==
    ASSUME LInv, NEW a \in Addresses, a \notin Swept
    PROVE  OldBefore(admitted[a], 0, now)
<1> DEFINE A == admitted[a]
           B == Bucket(a)
<1>1. /\ now \in Nat /\ Len(A) \in Nat /\ Len(B) \in Nat /\ B \in Seq(0 .. now)
      /\ \A i \in 1 .. Len(A) : A[i] \in Nat
      /\ Ordered(A) /\ Ends(B, A) /\ OldBefore(A, Len(B), now)
  BY AddressTyped
<1> HIDE DEF A
<1>2. CASE Len(B) = 0
  BY <1>1, <1>2 DEF OldBefore, A
<1>3. CASE Len(B) > 0
  <2>1. a \in DOMAIN hits /\ B = hits[a] /\ hits[a] # <<>>
    BY <1>3 DEF Bucket
  <2> HIDE DEF B
  <2>2. ~(B[Len(B)] + Window > now)
    BY <2>1 DEF Swept, Recent
  <2>3. Len(A) \in 1 .. Len(A) /\ A[Len(A)] = B[Len(B)]
    <3>1. Len(B) \in 1 .. Len(B) /\ Len(B) <= Len(A) /\ (Len(A) - Len(B)) + Len(B) = Len(A)
      BY <1>1, <1>3 DEF Ends
    <3>2. B[Len(B)] = A[(Len(A) - Len(B)) + Len(B)]
      BY <1>1, <3>1 DEF Ends
    <3> QED BY <1>1, <1>3, <3>1, <3>2
  <2>4. \A i \in 1 .. Len(A) : A[i] + Window <= now
    <3> TAKE i \in 1 .. Len(A)
    <3>1. A[i] <= A[Len(A)] /\ A[i] \in Nat /\ A[Len(A)] \in Nat
      BY <1>1, <2>3 DEF Ordered
    <3> QED BY <1>1, <2>2, <2>3, <3>1, Bounds
  <2> QED BY <2>4 DEF OldBefore, A
<1> QED BY <1>1, <1>2, <1>3

\* Kept are, of the admissions of an address, the recent ones.
LEMMA KeptIsRecent ==
    ASSUME LInv, NEW a \in Addresses
    PROVE  /\ Kept(a) \in Seq(0 .. now) /\ Len(Kept(a)) \in Nat /\ Len(Kept(a)) <= Limit
           /\ Ends(Kept(a), admitted[a]) /\ OldBefore(admitted[a], Len(Kept(a)), now)
           /\ \A j \in 1 .. Len(Kept(a)) : Recent(Kept(a)[j])
<1> DEFINE A == admitted[a]
           B == Bucket(a)
           K == Kept(a)
<1>1. /\ now \in Nat /\ Len(A) \in Nat /\ Len(B) \in Nat /\ B \in Seq(0 .. now)
      /\ \A i \in 1 .. Len(A) : A[i] \in Nat
      /\ Ordered(A) /\ Ends(B, A) /\ OldBefore(A, Len(B), now)
  BY AddressTyped
<1> HIDE DEF A
<1>2. CASE a \notin Swept
  <2>1. K = <<>>
    BY <1>2 DEF Kept
  <2>2. OldBefore(A, 0, now)
    BY <1>2, Forgotten DEF A
  <2>3. Len(<<>>) = 0 /\ <<>> \in Seq(0 .. now)
    OBVIOUS
  <2> HIDE DEF K
  <2>4. K \in Seq(0 .. now) /\ Len(K) = 0 /\ Ends(K, A) /\ OldBefore(A, Len(K), now)
        /\ 1 .. Len(K) = {}
    BY <1>1, <2>1, <2>2, <2>3 DEF Ends
  <2>5. Len(K) \in Nat /\ Len(K) <= Limit
    BY <2>4, Bounds
  <2> QED BY <2>4, <2>5 DEF K, A
<1>3. CASE a \in Swept
  <2>1. B = hits[a] /\ K = recentOf(B)
    BY <1>3 DEF Swept, Bucket, Kept
  <2> HIDE DEF B, K
  <2>2. Len(B) <= Len(A) /\ \A j \in 1 .. Len(B) : B[j] = A[(Len(A) - Len(B)) + j]
    BY <1>1 DEF Ends
  <2>3. Ordered(B)
    <3> SUFFICES ASSUME NEW i \in 1 .. Len(B), NEW j \in 1 .. Len(B), i <= j
                 PROVE  B[i] <= B[j]
      BY DEF Ordered
    <3>1. /\ (Len(A) - Len(B)) + i \in 1 .. Len(A) /\ (Len(A) - Len(B)) + j \in 1 .. Len(A)
          /\ (Len(A) - Len(B)) + i <= (Len(A) - Len(B)) + j
      BY <1>1, <2>2
    <3>2. A[(Len(A) - Len(B)) + i] <= A[(Len(A) - Len(B)) + j]
      BY <1>1, <3>1 DEF Ordered
    <3> QED BY <2>2, <3>2
  <2>4. KeptOf(K, B, Len(B))
    BY <1>1, <2>1, <2>3, RecentOfKeeps
  <2>5. K \in Seq(0 .. now) /\ Len(K) \in Nat /\ Len(K) <= Len(B)
    BY <2>4 DEF KeptOf
  <2>6. Ends(K, A)
    <3> SUFFICES ASSUME NEW j \in 1 .. Len(K) PROVE K[j] = A[(Len(A) - Len(K)) + j]
      BY <1>1, <2>2, <2>5 DEF Ends
    <3> DEFINE h == (Len(B) - Len(K)) + j
    <3>1. h \in 1 .. Len(B) /\ (Len(A) - Len(B)) + h = (Len(A) - Len(K)) + j
      BY <1>1, <2>5
    <3>2. K[j] = B[h]
      BY <2>4 DEF KeptOf
    <3> HIDE DEF h
    <3>3. B[h] = A[(Len(A) - Len(B)) + h]
      BY <2>2, <3>1
    <3> QED BY <3>1, <3>2, <3>3
  <2>7. OldBefore(A, Len(K), now)
    <3> SUFFICES ASSUME NEW i \in 1 .. Len(A), i <= Len(A) - Len(K)
                 PROVE  A[i] + Window <= now
      BY DEF OldBefore
    <3>1. CASE i <= Len(A) - Len(B)
      BY <1>1, <3>1 DEF OldBefore
    <3>2. CASE i > Len(A) - Len(B)
      <4> DEFINE h == i - (Len(A) - Len(B))
      <4>1. h \in 1 .. Len(B) /\ h <= Len(B) - Len(K) /\ (Len(A) - Len(B)) + h = i
        BY <1>1, <2>2, <2>5, <3>2
      <4> HIDE DEF h
      <4>2. ~Recent(B[h]) /\ B[h] = A[(Len(A) - Len(B)) + h]
        BY <2>2, <2>4, <4>1 DEF KeptOf
      <4>3. ~Recent(A[i]) /\ A[i] \in Nat
        BY <1>1, <4>1, <4>2
      <4> QED BY <1>1, <4>3, Bounds DEF Recent
    <3> QED BY <1>1, <3>1, <3>2
  <2>8. \A j \in 1 .. Len(K) : Recent(K[j])
    BY <2>4 DEF KeptOf
  <2>9. Len(K) <= Limit
    <3>1. Len(B) <= Limit
      BY <1>3, <2>1 DEF LInv, Types, Swept
    <3> QED BY <1>1, <2>5, <3>1, Bounds
  <2> QED BY <2>5, <2>6, <2>7, <2>8, <2>9 DEF K, A
<1> QED BY <1>2, <1>3


\* Times up to now are times up to a later one.
LEMMA LongerTimes ==
    ASSUME NEW m \in Nat, NEW s \in Seq(0 .. m)
    PROVE  s \in Seq(0 .. m + 1)
<1>1. 0 .. m \subseteq 0 .. m + 1
  OBVIOUS
<1>2. \A i \in 1 .. Len(s) : s[i] \in 0 .. m + 1
  BY <1>1
<1> QED BY <1>2, SeqMonotonic

\* Time passes: nothing gets younger.
LEMMA TickKeeps == LInv /\ Tick => LInv'
<1> SUFFICES ASSUME LInv, Tick PROVE LInv'
  OBVIOUS
<1>1. now \in Nat /\ now' = now + 1 /\ UNCHANGED <<hits, admitted, verdict>>
  BY DEF LInv, Types, Tick
<1>2. \A s : s \in Seq(0 .. now) => s \in Seq(0 .. now')
  BY <1>1, LongerTimes
<1>3. Types'
  <2>1. \A a \in DOMAIN hits : hits[a] \in Seq(0 .. now')
    BY <1>2 DEF LInv, Types
  <2>2. admitted \in [Addresses -> Seq(0 .. now')]
    BY <1>2 DEF LInv, Types
  <2> QED BY <1>1, <2>1, <2>2 DEF LInv, Types
<1>4. ASSUME NEW a \in Addresses
      PROVE  /\ Ordered(admitted[a]) /\ Spaced(admitted[a])
             /\ Ends(Bucket(a), admitted[a])
             /\ OldBefore(admitted[a], Len(Bucket(a)), now')
  <2>1. /\ Ordered(admitted[a]) /\ Spaced(admitted[a])
        /\ Ends(Bucket(a), admitted[a]) /\ OldBefore(admitted[a], Len(Bucket(a)), now)
        /\ \A i \in 1 .. Len(admitted[a]) : admitted[a][i] \in Nat
    BY AddressTyped
  <2>2. OldBefore(admitted[a], Len(Bucket(a)), now')
    BY <1>1, <2>1, Bounds DEF OldBefore
  <2> QED BY <2>1, <2>2
<1>5. \A a : Bucket(a)' = Bucket(a)
  BY <1>1 DEF Bucket
<1> QED BY <1>1, <1>3, <1>4, <1>5 DEF LInv

\* A new admission, a window after the one Limit before it.
LEMMA AdmittedSpaced ==
    ASSUME NEW t \in Nat, NEW A \in Seq(0 .. t), NEW K \in Seq(0 .. t),
           Ordered(A), Spaced(A), Ends(K, A), OldBefore(A, Len(K), t), Len(K) < Limit
    PROVE  /\ Ordered(Append(A, t)) /\ Spaced(Append(A, t))
           /\ Ends(Append(K, t), Append(A, t))
           /\ OldBefore(Append(A, t), Len(Append(K, t)), t)
<1> DEFINE B == Append(A, t)
           J == Append(K, t)
           n == Len(A)
           m == Len(K)
<1>1. n \in Nat /\ m \in Nat /\ m <= n /\ (\A i \in 1 .. n : A[i] \in 0 .. t) /\ t \in 0 .. t
  BY DEF Ends
<1>2. Len(B) = n + 1 /\ B[n + 1] = t /\ \A i \in 1 .. n : B[i] = A[i]
  BY <1>1, AppendProperties
<1>3. Len(J) = m + 1 /\ J[m + 1] = t /\ \A i \in 1 .. m : J[i] = K[i]
  BY <1>1, AppendProperties
<1> HIDE DEF B, J
<1>4. \A i \in 1 .. n + 1 : i = n + 1 \/ i \in 1 .. n
  BY <1>1
<1>5. \A i \in 1 .. n + 1 : B[i] <= t /\ B[i] \in Nat
  <2> TAKE i \in 1 .. n + 1
  <2>1. CASE i = n + 1
    BY <1>2, <2>1
  <2>2. CASE i \in 1 .. n
    BY <1>1, <1>2, <2>2
  <2> QED BY <1>4, <2>1, <2>2
<1>6. Ordered(B)
  <2> SUFFICES ASSUME NEW i \in 1 .. n + 1, NEW j \in 1 .. n + 1, i <= j
               PROVE  B[i] <= B[j]
    BY <1>2 DEF Ordered
  <2>1. CASE j = n + 1
    BY <1>2, <1>5, <2>1
  <2>2. CASE j # n + 1
    <3>1. i \in 1 .. n /\ j \in 1 .. n
      BY <1>1, <2>2
    <3> QED BY <1>2, <3>1 DEF Ordered
  <2> QED BY <2>1, <2>2
<1>7. Spaced(B)
  <2> SUFFICES ASSUME NEW i \in 1 .. n + 1, i + Limit <= n + 1
               PROVE  B[i] + Window <= B[i + Limit]
    BY <1>2 DEF Spaced
  <2>1. i \in 1 .. n /\ i + Limit \in 1 .. n + 1
    BY <1>1, Bounds
  <2>2. CASE i + Limit = n + 1
    <3>1. i <= n - m
      BY <1>1, <2>2, Bounds
    <3>2. A[i] + Window <= t
      BY <2>1, <3>1 DEF OldBefore
    <3> QED BY <1>2, <2>1, <2>2, <3>2
  <2>3. CASE i + Limit # n + 1
    <3>1. i + Limit \in 1 .. n /\ i + Limit <= n
      BY <1>1, <2>1, <2>3, Bounds
    <3>2. A[i] + Window <= A[i + Limit]
      BY <2>1, <3>1 DEF Spaced
    <3> QED BY <1>2, <2>1, <3>1, <3>2
  <2> QED BY <2>2, <2>3
<1>8. Ends(J, B)
  <2>1. ASSUME NEW j \in 1 .. m + 1 PROVE J[j] = B[((n + 1) - (m + 1)) + j]
    <3>1. CASE j = m + 1
      <4>1. ((n + 1) - (m + 1)) + j = n + 1
        BY <1>1, <3>1
      <4> QED BY <1>2, <1>3, <3>1, <4>1
    <3>2. CASE j # m + 1
      <4>1. j \in 1 .. m /\ (n - m) + j \in 1 .. n /\ ((n + 1) - (m + 1)) + j = (n - m) + j
        BY <1>1, <3>2
      <4>2. K[j] = A[(n - m) + j]
        BY <4>1 DEF Ends
      <4>3. B[(n - m) + j] = A[(n - m) + j] /\ J[j] = K[j]
        BY <1>2, <1>3, <4>1
      <4> QED BY <4>1, <4>2, <4>3
    <3> QED BY <3>1, <3>2
  <2> QED BY <1>1, <1>2, <1>3, <2>1 DEF Ends
<1>9. OldBefore(B, Len(J), t)
  <2> SUFFICES ASSUME NEW i \in 1 .. n + 1, i <= (n + 1) - (m + 1)
               PROVE  B[i] + Window <= t
    BY <1>2, <1>3 DEF OldBefore
  <2>1. i \in 1 .. n /\ i <= n - m
    BY <1>1
  <2> QED BY <1>2, <2>1 DEF OldBefore
<1> QED BY <1>6, <1>7, <1>8, <1>9 DEF B, J

\* A request sweeps the buckets and, if it is admitted, is remembered.
LEMMA AllowKeeps == ASSUME LInv, NEW a \in Addresses, allow(a) PROVE LInv'
<1> DEFINE D == Swept \cup (IF HasBucket(a) THEN {a} ELSE {})
           ok == HasBucket(a) /\ Len(Kept(a)) < Limit
<1>1. /\ hits' = [b \in D |-> IF b = a THEN Recorded(a) ELSE hits[b]]
      /\ admitted' = IF ok THEN [admitted EXCEPT ![a] = Append(@, now)] ELSE admitted
      /\ verdict' = [address |-> a, ok |-> ok] /\ now' = now
  BY Zenon DEF allow
<1>2. /\ now \in Nat /\ DOMAIN hits \subseteq Addresses
      /\ IsFiniteSet(DOMAIN hits) /\ Cardinality(DOMAIN hits) <= Buckets
      /\ admitted \in [Addresses -> Seq(0 .. now)]
      /\ \A b \in DOMAIN hits : hits[b] \in Seq(0 .. now) /\ Len(hits[b]) <= Limit
  BY DEF LInv, Types
<1>3. Swept \subseteq DOMAIN hits
  BY DEF Swept
<1>4. /\ Kept(a) \in Seq(0 .. now) /\ Len(Kept(a)) \in Nat /\ Len(Kept(a)) <= Limit
      /\ Ends(Kept(a), admitted[a]) /\ OldBefore(admitted[a], Len(Kept(a)), now)
  BY KeptIsRecent
<1>5. now \in 0 .. now
  BY <1>2
<1>6. Recorded(a) \in Seq(0 .. now) /\ Len(Recorded(a)) <= Limit
  <2>1. /\ Append(Kept(a), now) \in Seq(0 .. now)
        /\ Len(Append(Kept(a), now)) = Len(Kept(a)) + 1
    BY <1>4, <1>5, AppendProperties
  <2>2. CASE Len(Kept(a)) < Limit
    <3>1. Recorded(a) = Append(Kept(a), now)
      BY <2>2 DEF Recorded
    <3>2. Len(Kept(a)) + 1 <= Limit
      BY <1>4, <2>2, Bounds
    <3> QED BY <2>1, <3>1, <3>2
  <2>3. CASE ~(Len(Kept(a)) < Limit)
    BY <1>4, <2>3 DEF Recorded
  <2> QED BY <2>2, <2>3
<1>7. IsFiniteSet(D) /\ Cardinality(D) <= Buckets /\ D \subseteq Addresses
  <2>1. IsFiniteSet(Swept) /\ Cardinality(Swept) <= Cardinality(DOMAIN hits)
    BY <1>2, <1>3, FS_Subset
  <2>2. Cardinality(Swept) \in Nat /\ Cardinality(DOMAIN hits) \in Nat
    BY <1>2, <2>1, FS_CardinalityType
  <2>3. Cardinality(Swept) <= Buckets
    BY <1>2, <2>1, <2>2, Bounds
  <2>4. CASE D = Swept
    BY <1>2, <1>3, <2>1, <2>3, <2>4
  <2>5. CASE D # Swept
    <3>1. D = Swept \cup {a} /\ a \notin Swept /\ HasBucket(a)
      BY <2>5
    <3>2. Cardinality(Swept) < Buckets
      BY <3>1 DEF HasBucket
    <3> HIDE DEF D
    <3>3. IsFiniteSet(D) /\ Cardinality(D) = Cardinality(Swept) + 1
      BY <2>1, <3>1, FS_AddElement
    <3> QED BY <1>2, <1>3, <2>2, <3>1, <3>2, <3>3, Bounds
  <2> QED BY <2>4, <2>5
<1>8. a \in D <=> HasBucket(a)
  BY DEF HasBucket
<1>9. \A b : b # a => (b \in D <=> b \in Swept)
  OBVIOUS
<1> HIDE DEF D
<1>10. DOMAIN hits' = D /\ \A b \in D : hits'[b] = IF b = a THEN Recorded(a) ELSE hits[b]
  BY <1>1
<1>11. ok \in BOOLEAN
  BY DEF HasBucket
<1>12. Types'
  <2>1. \A b \in D : hits'[b] \in Seq(0 .. now) /\ Len(hits'[b]) <= Limit
    BY <1>2, <1>3, <1>6, <1>9, <1>10
  <2>2. admitted' \in [Addresses -> Seq(0 .. now)]
    <3>1. Append(admitted[a], now) \in Seq(0 .. now)
      BY <1>2, <1>5, AppendProperties
    <3> HIDE DEF ok
    <3> QED BY <1>1, <1>2, <3>1
  <2>3. verdict' \in [address: Addresses, ok: BOOLEAN]
    <3> HIDE DEF ok
    <3> QED BY <1>1, <1>11
  <2> QED BY <1>1, <1>2, <1>7, <1>10, <2>1, <2>2, <2>3 DEF Types
<1>13. ASSUME NEW b \in Addresses
       PROVE  /\ Ordered(admitted'[b]) /\ Spaced(admitted'[b])
              /\ Ends(Bucket(b)', admitted'[b]) /\ OldBefore(admitted'[b], Len(Bucket(b)'), now)
  <2>1. /\ Ordered(admitted[b]) /\ Spaced(admitted[b])
        /\ Ends(Bucket(b), admitted[b]) /\ OldBefore(admitted[b], Len(Bucket(b)), now)
        /\ Len(admitted[b]) \in Nat /\ admitted[b] \in Seq(0 .. now)
    BY AddressTyped
  <2>2. Bucket(b)' = IF b \in D THEN IF b = a THEN Recorded(a) ELSE hits[b] ELSE <<>>
    BY <1>10 DEF Bucket
  <2>3. Len(<<>>) = 0 /\ 1 .. 0 = {}
    OBVIOUS
  <2>4. Ends(<<>>, admitted[b])
    BY <2>1, <2>3 DEF Ends
  <2>5. CASE b \notin Swept /\ ~(b = a /\ HasBucket(a))
    <3>1. Bucket(b)' = <<>>
      BY <1>8, <1>9, <2>2, <2>5
    <3>2. admitted'[b] = admitted[b]
      BY <1>1, <1>2, <2>5
    <3>3. OldBefore(admitted[b], 0, now)
      BY <2>5, Forgotten
    <3> QED BY <2>1, <2>3, <2>4, <3>1, <3>2, <3>3
  <2>6. CASE b \in Swept /\ b # a
    <3>1. Bucket(b)' = hits[b] /\ Bucket(b) = hits[b]
      BY <1>3, <1>9, <2>2, <2>6 DEF Bucket
    <3>2. admitted'[b] = admitted[b]
      BY <1>1, <1>2, <2>6
    <3> QED BY <2>1, <3>1, <3>2
  <2>7. CASE b = a /\ HasBucket(a)
    <3>1. Bucket(b)' = Recorded(a)
      BY <1>8, <2>2, <2>7
    <3>2. CASE Len(Kept(a)) < Limit
      <4>1. admitted'[b] = Append(admitted[b], now) /\ Bucket(b)' = Append(Kept(a), now)
        BY <1>1, <1>2, <2>7, <3>1, <3>2 DEF Recorded
      <4>2. /\ Ordered(Append(admitted[a], now)) /\ Spaced(Append(admitted[a], now))
            /\ Ends(Append(Kept(a), now), Append(admitted[a], now))
            /\ OldBefore(Append(admitted[a], now), Len(Append(Kept(a), now)), now)
        BY <1>2, <1>4, <2>1, <2>7, <3>2, AdmittedSpaced
      <4> QED BY <2>7, <4>1, <4>2
    <3>3. CASE ~(Len(Kept(a)) < Limit)
      <4>1. admitted'[b] = admitted[b] /\ Bucket(b)' = Kept(a)
        BY <1>1, <3>1, <3>3 DEF Recorded
      <4> QED BY <1>4, <2>1, <2>7, <4>1
    <3> QED BY <3>2, <3>3
  <2>8. b = a /\ b \in Swept => HasBucket(a)
    BY DEF HasBucket
  <2> QED BY <2>5, <2>6, <2>7, <2>8
<1> QED BY <1>1, <1>12, <1>13 DEF LInv


\* LInv holds of every state of the limiter, for every limit, window and
\* number of buckets.
THEOREM LimiterInvariance == Spec => []LInv
<1>1. LInv /\ UNCHANGED vars => LInv'
  <2> SUFFICES ASSUME LInv, UNCHANGED vars PROVE LInv'
    OBVIOUS
  <2>1. now' = now /\ hits' = hits /\ admitted' = admitted /\ verdict' = verdict
    BY DEF vars
  <2>2. Types' /\ \A a : Bucket(a)' = Bucket(a)
    BY <2>1 DEF LInv, Types, Bucket
  <2> QED BY <2>1, <2>2 DEF LInv
<1>2. LInv /\ [Next]_vars => LInv'
  BY <1>1, TickKeeps, AllowKeeps DEF Next
<1> QED BY <1>2, LimiterInit, PTL DEF Spec

-----------------------------------------------------------------------------
(* What follows.                                                           *)

\* The limiter's state has its type, and its memory is bounded: by the number
\* of buckets, and each bucket by the limit.
THEOREM LimiterTypeCorrect == Spec => []TypeOK
<1>1. LInv => TypeOK
  BY DEF LInv, Types, TypeOK
<1> QED BY <1>1, LimiterInvariance, PTL

\* The positions of the times in a window.
Positions(s, t) == {i \in DOMAIN s : s[i] <= t /\ s[i] + Window > t}

\* No window holds more than Limit of some spaced times.
LEMMA SpacedCount ==
    ASSUME NEW s \in Seq(Nat), Ordered(s), Spaced(s), NEW t \in Nat
    PROVE  IsFiniteSet(Positions(s, t)) /\ Cardinality(Positions(s, t)) <= Limit
<1> DEFINE P == Positions(s, t)
<1>1. /\ Len(s) \in Nat /\ DOMAIN s = 1 .. Len(s) /\ (\A i \in 1 .. Len(s) : s[i] \in Nat)
      /\ P \subseteq 1 .. Len(s) /\ \A i \in P : s[i] <= t /\ s[i] + Window > t
  BY DEF Positions
<1>2. \A i \in P : s[i] <= t /\ s[i] + Window > t
  BY <1>1
<1> HIDE DEF P
<1>3. CASE P = {}
  BY <1>3, FS_EmptySet, Bounds DEF P
<1>4. CASE P # {}
  <2>1. P \in SUBSET Nat
    BY <1>1
  <2>2. PICK m \in P : \A i \in P : m <= i
    BY <1>4, <2>1, LeastElement
  <2>3. P \subseteq m .. m + Limit - 1
    <3> SUFFICES ASSUME NEW i \in P, i >= m + Limit PROVE FALSE
      BY <1>1, <2>1, <2>2, Bounds
    <3>1. /\ m \in 1 .. Len(s) /\ i \in 1 .. Len(s) /\ m + Limit \in 1 .. Len(s)
          /\ m + Limit <= Len(s)
      BY <1>1, <2>2, Bounds
    <3>2. s[m] + Window <= s[m + Limit] /\ s[m + Limit] <= s[i]
      BY <3>1 DEF Spaced, Ordered
    <3>3. s[i] <= t
      BY <1>2
    <3>4. s[m] + Window > t
      BY <1>2, <2>2
    <3>5. s[m] \in Nat /\ s[i] \in Nat /\ s[m + Limit] \in Nat
      BY <1>1, <3>1
    <3>6. \A a, b, c \in Nat : a + Window <= b /\ b <= c /\ c <= t => ~(a + Window > t)
      BY Bounds
    <3> QED BY <3>2, <3>3, <3>4, <3>5, <3>6, Zenon
  <2>4. m \in Int /\ m + Limit - 1 \in Int /\ m <= m + Limit - 1
    BY <2>1, <2>2, Bounds
  <2>5. IsFiniteSet(m .. m + Limit - 1) /\ Cardinality(m .. m + Limit - 1) = Limit
    BY <2>4, FS_Interval, Bounds
  <2>6. IsFiniteSet(P) /\ Cardinality(P) <= Cardinality(m .. m + Limit - 1)
    BY <2>3, <2>5, FS_Subset
  <2> QED BY <2>5, <2>6 DEF P
<1> QED BY <1>3, <1>4

\* No window, wherever it starts, holds more than Limit admissions of an
\* address.
THEOREM RateIsBounded == Spec => []RateBounded
<1>1. LInv => RateBounded
  <2> SUFFICES ASSUME LInv, NEW a \in Addresses, NEW t \in 0 .. now
               PROVE  InWindow(a, t) <= Limit
    BY DEF RateBounded
  <2>1. InWindow(a, t) = Cardinality(Positions(admitted[a], t))
    BY DEF InWindow, Positions
  <2>2. /\ now \in Nat /\ admitted[a] \in Seq(0 .. now)
        /\ Ordered(admitted[a]) /\ Spaced(admitted[a])
    BY AddressTyped
  <2>3. admitted[a] \in Seq(Nat) /\ t \in Nat
    BY <2>2
  <2> QED BY <2>1, <2>2, <2>3, SpacedCount
<1> QED BY <1>1, LimiterInvariance, PTL

\* The admissions of an address in the window that ends now.
LEMMA CountTyped ==
    ASSUME LInv, NEW a \in Addresses
    PROVE  /\ InWindow(a, now) = Cardinality(Positions(admitted[a], now))
           /\ IsFiniteSet(Positions(admitted[a], now)) /\ InWindow(a, now) \in Nat
<1>1. InWindow(a, now) = Cardinality(Positions(admitted[a], now))
  BY DEF InWindow, Positions
<1>2. /\ now \in Nat /\ admitted[a] \in Seq(0 .. now)
      /\ Ordered(admitted[a]) /\ Spaced(admitted[a])
  BY AddressTyped
<1>3. admitted[a] \in Seq(Nat)
  BY <1>2
<1>4. IsFiniteSet(Positions(admitted[a], now))
  BY <1>2, <1>3, SpacedCount
<1> QED BY <1>1, <1>4, FS_CardinalityType

\* An address whose kept times reach the limit used up its window.
LEMMA FullCount ==
    ASSUME LInv, NEW a \in Addresses, Len(Kept(a)) >= Limit
    PROVE  InWindow(a, now) >= Limit
<1> DEFINE A == admitted[a]
           K == Kept(a)
           n == Len(A)
           m == Len(K)
           P == Positions(A, now)
<1>1. /\ now \in Nat /\ n \in Nat /\ DOMAIN A = 1 .. n
      /\ \A i \in 1 .. n : A[i] \in Nat /\ A[i] <= now
  BY AddressTyped
<1>2. m \in Nat /\ Ends(K, A) /\ \A j \in 1 .. m : Recent(K[j])
  BY KeptIsRecent
<1>3. IsFiniteSet(P) /\ InWindow(a, now) = Cardinality(P) /\ InWindow(a, now) \in Nat
  BY CountTyped
<1> HIDE DEF A, K
<1>4. m <= n /\ \A j \in 1 .. m : K[j] = A[(n - m) + j]
  BY <1>2 DEF Ends
<1>5. (n - m) + 1 .. n \subseteq P
  <2> SUFFICES ASSUME NEW i \in (n - m) + 1 .. n PROVE i \in P
    OBVIOUS
  <2>1. i \in 1 .. n /\ i - (n - m) \in 1 .. m /\ (n - m) + (i - (n - m)) = i
    BY <1>1, <1>2, <1>4
  <2>2. K[i - (n - m)] = A[(n - m) + (i - (n - m))] /\ Recent(K[i - (n - m)])
    BY <1>2, <1>4, <2>1
  <2>3. Recent(A[i])
    BY <2>1, <2>2
  <2> QED BY <1>1, <2>1, <2>3 DEF Positions, Recent
<1> HIDE DEF n, m, P
<1>6. Cardinality((n - m) + 1 .. n) = m
  <2>1. (n - m) + 1 \in Int /\ n \in Int
    BY <1>1, <1>2
  <2>2. Cardinality((n - m) + 1 .. n)
          = IF (n - m) + 1 > n THEN 0 ELSE n - ((n - m) + 1) + 1
    BY <2>1, FS_Interval
  <2> QED BY <1>1, <1>2, <2>2
<1>7. Cardinality((n - m) + 1 .. n) <= Cardinality(P)
  BY <1>3, <1>5, FS_Subset
<1>8. m >= Limit
  BY DEF m, K
<1> QED BY <1>2, <1>3, <1>6, <1>7, <1>8, Bounds

\* An address that survives the sweep has a recent admission, and only those
\* that are remembered have one.
LEMMA SweptCount ==
    ASSUME LInv, NEW b \in Addresses
    PROVE  /\ b \in Swept => InWindow(b, now) > 0
           /\ InWindow(b, now) > 0 => b \in DOMAIN hits
<1> DEFINE A == admitted[b]
           B == Bucket(b)
           P == Positions(A, now)
<1>1. /\ now \in Nat /\ Len(A) \in Nat /\ Len(B) \in Nat /\ B \in Seq(0 .. now)
      /\ DOMAIN A = 1 .. Len(A)
      /\ \A i \in 1 .. Len(A) : A[i] \in Nat /\ A[i] <= now
      /\ Ends(B, A) /\ OldBefore(A, Len(B), now)
  BY AddressTyped
<1>2. IsFiniteSet(P) /\ InWindow(b, now) = Cardinality(P) /\ InWindow(b, now) \in Nat
  BY CountTyped
<1> HIDE DEF A
<1>3. ASSUME b \in Swept PROVE InWindow(b, now) > 0
  <2>1. B = hits[b] /\ B # <<>> /\ Recent(B[Len(B)])
    BY <1>3 DEF Swept, Bucket
  <2> HIDE DEF B
  <2>2. Len(B) \in 1 .. Len(B) /\ Len(B) <= Len(A) /\ (Len(A) - Len(B)) + Len(B) = Len(A)
    BY <1>1, <2>1 DEF Ends
  <2>3. B[Len(B)] = A[(Len(A) - Len(B)) + Len(B)]
    BY <1>1, <2>2 DEF Ends
  <2>4. Len(A) \in 1 .. Len(A) /\ Recent(A[Len(A)])
    BY <1>1, <2>1, <2>2, <2>3
  <2>5. Len(A) \in P
    BY <1>1, <2>4 DEF Positions, Recent
  <2> HIDE DEF P
  <2>6. Cardinality(P) # 0
    BY <1>2, <2>5, FS_EmptySet
  <2> QED BY <1>2, <2>6
<1>4. ASSUME b \notin DOMAIN hits PROVE ~(InWindow(b, now) > 0)
  <2>1. Len(B) = 0
    BY <1>4 DEF Bucket
  <2>2. \A i \in 1 .. Len(A) : A[i] + Window <= now
    BY <1>1, <2>1 DEF OldBefore
  <2>3. P = {}
    <3> SUFFICES ASSUME NEW i \in P PROVE FALSE
      OBVIOUS
    <3>1. i \in 1 .. Len(A) /\ A[i] + Window > now
      BY <1>1 DEF Positions
    <3> QED BY <1>1, <2>2, <3>1, Bounds
  <2> HIDE DEF P
  <2> QED BY <1>2, <2>3, FS_EmptySet
<1> QED BY <1>3, <1>4

\* A refusal is deserved: the address used up its window, or the buckets are
\* taken by other addresses with an admission in theirs.
THEOREM RefusalsAreDeserved == Spec => RefusalDeserved
<1>1. ASSUME LInv, [Next]_vars, NEW a \in Addresses,
             verdict' = [address |-> a, ok |-> FALSE] /\ (verdict' # verdict \/ hits' # hits)
      PROVE  \/ InWindow(a, now) >= Limit
             \/ Cardinality({b \in Addresses \ {a} : InWindow(b, now) > 0}) >= Buckets
  <2>1. PICK b \in Addresses : allow(b)
    BY <1>1 DEF Next, Tick, vars
  <2>2. verdict' = [address |-> b, ok |-> HasBucket(b) /\ Len(Kept(b)) < Limit]
    BY <2>1, Zenon DEF allow
  <2>3. b = a /\ ~(HasBucket(b) /\ Len(Kept(b)) < Limit)
    <3> DEFINE ok == HasBucket(b) /\ Len(Kept(b)) < Limit
    <3>1. verdict' = [address |-> b, ok |-> ok]
      BY <2>2
    <3> HIDE DEF ok
    <3>2. verdict'.address = b /\ verdict'.ok = ok
      BY <3>1
    <3>3. verdict'.address = a /\ verdict'.ok = FALSE
      BY <1>1
    <3>4. ok = FALSE
      BY <3>2, <3>3
    <3>5. ~ok
      BY <3>4, Zenon
    <3> QED BY <3>2, <3>3, <3>5 DEF ok
  <2>4. Len(Kept(a)) \in Nat
    BY <1>1, KeptIsRecent
  <2>5. CASE ~(Len(Kept(a)) < Limit)
    BY <1>1, <2>4, <2>5, FullCount, Bounds
  <2>6. CASE ~HasBucket(a)
    <3> DEFINE X == {c \in Addresses \ {a} : InWindow(c, now) > 0}
    <3>1. a \notin Swept /\ ~(Cardinality(Swept) < Buckets)
      BY <2>6 DEF HasBucket
    <3>2. Swept \subseteq DOMAIN hits /\ DOMAIN hits \subseteq Addresses /\ IsFiniteSet(DOMAIN hits)
      BY <1>1 DEF LInv, Types, Swept
    <3>3. Swept \subseteq X /\ X \subseteq DOMAIN hits
      BY <1>1, <3>1, <3>2, SweptCount
    <3> HIDE DEF X
    <3>4. IsFiniteSet(X) /\ IsFiniteSet(Swept)
      BY <3>2, <3>3, FS_Subset
    <3>5. Cardinality(Swept) <= Cardinality(X)
      BY <3>3, <3>4, FS_Subset
    <3>6. Cardinality(Swept) \in Nat /\ Cardinality(X) \in Nat
      BY <3>4, FS_CardinalityType
    <3>7. Cardinality(X) >= Buckets
      BY <3>1, <3>5, <3>6, Bounds
    <3> QED BY <3>7 DEF X
  <2> QED BY <2>3, <2>5, <2>6
<1>2. LInv /\ [Next]_vars =>
        [\A a \in Addresses :
            verdict' = [address |-> a, ok |-> FALSE] /\ (verdict' # verdict \/ hits' # hits) =>
              \/ InWindow(a, now) >= Limit
              \/ Cardinality({b \in Addresses \ {a} : InWindow(b, now) > 0}) >= Buckets]_vars
  BY <1>1
<1> QED BY <1>2, LimiterInvariance, PTL DEF Spec, RefusalDeserved


=============================================================================
