---------------------------- MODULE Pager_proofs ----------------------------
(***************************************************************************)
(* What holds of pagination for every collection, limit and sequence of    *)
(* changes.  A collection is listed completely and in the order of its     *)
(* identifiers (SortedRight), which is proved by counting the identifiers  *)
(* below each.  What a walk has got is the beginning of the collection its *)
(* cursor was made for, up to the cursor's offset (Walked).                *)
(***************************************************************************)
EXTENDS Pager, FiniteSetTheorems, SequenceTheorems, TLAPS

-----------------------------------------------------------------------------
(* Sorting.                                                                *)

\* Each number of a finite set has a place of its own, and each place, from 0
\* on, is taken.
LEMMA Places ==
    ASSUME NEW S \in SUBSET Nat, IsFiniteSet(S)
    PROVE  /\ Cardinality(S) \in Nat
           /\ \A n \in 1 .. Cardinality(S) :
                /\ Nth(S, n) \in S
                /\ Cardinality({j \in S : j < Nth(S, n)}) = n - 1
           /\ \A m, n \in 1 .. Cardinality(S) : m < n => Nth(S, m) < Nth(S, n)
           /\ \A i \in S : \E n \in 1 .. Cardinality(S) : Nth(S, n) = i
<1> DEFINE N == Cardinality(S)
           A == 0 .. N - 1
           below(j) == {i \in S : i < j}
           place == [j \in S |-> Cardinality(below(j))]
<1>1. N \in Nat /\ IsFiniteSet(A) /\ Cardinality(A) = N
  <2>1. N \in Nat
    BY FS_CardinalityType
  <2> HIDE DEF N
  <2>2. 0 \in Int /\ N - 1 \in Int
    BY <2>1
  <2>3. IsFiniteSet(A) /\ Cardinality(A) = IF 0 > N - 1 THEN 0 ELSE (N - 1) - 0 + 1
    BY <2>2, FS_Interval
  <2> QED BY <2>1, <2>3
<1>2. \A j \in S : /\ below(j) \in SUBSET S /\ IsFiniteSet(below(j))
                   /\ Cardinality(below(j)) \in Nat /\ Cardinality(below(j)) < N
  <2> TAKE j \in S
  <2>1. below(j) \in SUBSET S /\ j \notin below(j)
    OBVIOUS
  <2> HIDE DEF below
  <2>2. IsFiniteSet(below(j)) /\ Cardinality(below(j)) <= N /\ Cardinality(below(j)) # N
    BY <2>1, FS_Subset
  <2>3. Cardinality(below(j)) \in Nat
    BY <2>2, FS_CardinalityType
  <2> QED BY <1>1, <2>1, <2>2, <2>3
<1>3. \A i, j \in S : i < j => place[i] < place[j]
  <2> SUFFICES ASSUME NEW i \in S, NEW j \in S, i < j
               PROVE  place[i] < place[j]
    OBVIOUS
  <2>1. below(i) \in SUBSET below(j)
    <3>1. \A x \in S : x < i => x < j
      OBVIOUS
    <3> QED BY <3>1
  <2>2. i \in below(j) /\ i \notin below(i)
    OBVIOUS
  <2> HIDE DEF below
  <2>3. Cardinality(below(i)) <= Cardinality(below(j))
        /\ Cardinality(below(i)) # Cardinality(below(j))
    BY <1>2, <2>1, <2>2, FS_Subset
  <2> QED BY <1>2, <2>3
<1>4. place \in [S -> A]
  <2> HIDE DEF below
  <2> QED BY <1>1, <1>2
<1>5. \A j \in S : place[j] = Cardinality({i \in S : i < j})
  OBVIOUS
<1> HIDE DEF below, place
<1>6. place \in Injection(S, A)
  <2>1. \A i, j \in S : place[i] = place[j] => i = j
    <3> SUFFICES ASSUME NEW i \in S, NEW j \in S, place[i] = place[j], i # j PROVE FALSE
      OBVIOUS
    <3>1. i < j \/ j < i
      OBVIOUS
    <3>2. place[i] < place[j] \/ place[j] < place[i]
      BY <1>3, <3>1
    <3>3. place[i] \in Int
      BY <1>4
    <3> QED BY <3>2, <3>3
  <2> QED BY <1>4, <2>1 DEF Injection, IsInjective
<1>7. place \in Surjection(S, A)
  BY <1>1, <1>6, FS_Injection
<1>8. \A n \in 1 .. N : Nth(S, n) \in S /\ place[Nth(S, n)] = n - 1
  <2> SUFFICES ASSUME NEW n \in 1 .. N PROVE Nth(S, n) \in S /\ place[Nth(S, n)] = n - 1
    OBVIOUS
  <2>1. \E i \in S : place[i] = n - 1
    BY <1>1, <1>7 DEF Surjection
  <2>2. \E i \in S : Cardinality({j \in S : j < i}) = n - 1
    BY <1>5, <2>1
  <2>3. Nth(S, n) \in S /\ Cardinality({j \in S : j < Nth(S, n)}) = n - 1
    BY <2>2, Zenon DEF Nth
  <2> QED BY <1>5, <2>3
<1>9. \A m, n \in 1 .. N : m < n => Nth(S, m) < Nth(S, n)
  <2> SUFFICES ASSUME NEW m \in 1 .. N, NEW n \in 1 .. N, m < n
               PROVE  Nth(S, m) < Nth(S, n)
    OBVIOUS
  <2>1. /\ Nth(S, m) \in S /\ Nth(S, n) \in S
        /\ place[Nth(S, m)] = m - 1 /\ place[Nth(S, n)] = n - 1
    BY <1>8
  <2>2. ~(place[Nth(S, n)] < place[Nth(S, m)]) /\ Nth(S, n) # Nth(S, m)
    BY <1>1, <2>1
  <2>3. ~(Nth(S, n) < Nth(S, m))
    BY <1>3, <2>1, <2>2
  <2>4. Nth(S, m) \in Nat /\ Nth(S, n) \in Nat
    BY <2>1
  <2> QED BY <2>2, <2>3, <2>4
<1>10. \A i \in S : \E n \in 1 .. N : Nth(S, n) = i
  <2> TAKE i \in S
  <2>1. place[i] + 1 \in 1 .. N
    BY <1>1, <1>4
  <2>2. Nth(S, place[i] + 1) \in S /\ place[Nth(S, place[i] + 1)] = place[i]
    BY <1>1, <1>4, <1>8, <2>1
  <2>3. Nth(S, place[i] + 1) = i
    BY <1>6, <2>2 DEF Injection, IsInjective
  <2> QED BY <2>1, <2>3
<1>11. \A n \in 1 .. N : Cardinality({j \in S : j < Nth(S, n)}) = n - 1
  BY <1>5, <1>8
<1> QED BY <1>1, <1>8, <1>9, <1>10, <1>11

\* What the constants are.
LEMMA Constants ==
    /\ Kinds # {} /\ IDs \subseteq Nat /\ IsFiniteSet(IDs)
    /\ MaxLimit \in Nat /\ DefaultLimit \in Nat /\ DefaultLimit > 0
BY PagerAssumption

\* The list of a collection with some contents.
Item == [kind: Kinds, id: IDs, value: Values]

Listing(k, contents) ==
    [n \in 1 .. Cardinality(DOMAIN contents) |->
        LET i == Nth(DOMAIN contents, n)
        IN  [kind |-> k, id |-> i, value |-> contents[i]]]

\* page lists each item of a collection once, by increasing identifier.
LEMMA SortedRight ==
    ASSUME NEW k \in Kinds, NEW contents \in Collection
    PROVE  LET s == Listing(k, contents)
           IN  /\ s \in Seq(Item) /\ Len(s) = Cardinality(DOMAIN contents) /\ Len(s) \in Nat
               /\ \A m, n \in 1 .. Len(s) : m < n => s[m].id < s[n].id
               /\ \A i \in DOMAIN contents : \E n \in 1 .. Len(s) :
                    s[n] = [kind |-> k, id |-> i, value |-> contents[i]]
<1> DEFINE D == DOMAIN contents
           N == Cardinality(D)
           s == Listing(k, contents)
<1>1. /\ D \in SUBSET IDs /\ \A i \in D : contents[i] \in Values
  BY DEF Collection
<1>2. D \in SUBSET Nat /\ IsFiniteSet(D)
  <2>1. IsFiniteSet(D)
    BY <1>1, Constants, FS_Subset
  <2> QED BY <1>1, <2>1, Constants
<1> HIDE DEF D
<1>3. /\ N \in Nat
      /\ \A n \in 1 .. N : Nth(D, n) \in D
      /\ \A m, n \in 1 .. N : m < n => Nth(D, m) < Nth(D, n)
      /\ \A i \in D : \E n \in 1 .. N : Nth(D, n) = i
  BY <1>2, Places
<1>4. /\ DOMAIN s = 1 .. N
      /\ \A n \in 1 .. N : s[n] = [kind |-> k, id |-> Nth(D, n), value |-> contents[Nth(D, n)]]
  BY DEF Listing, D
<1>5. s = [n \in 1 .. N |-> s[n]]
  BY DEF Listing, D
<1> HIDE DEF s, N
<1>6. \A n \in 1 .. N : s[n] \in Item
  BY <1>1, <1>3, <1>4 DEF Item
<1>7. s \in Seq(Item) /\ Len(s) = N
  BY <1>3, <1>4, <1>5, <1>6
<1>8. \A m, n \in 1 .. N : m < n => s[m].id < s[n].id
  BY <1>3, <1>4
<1>9. \A i \in D : \E n \in 1 .. N : s[n] = [kind |-> k, id |-> i, value |-> contents[i]]
  BY <1>3, <1>4
<1> QED BY <1>3, <1>7, <1>8, <1>9 DEF s, D, N

\* The list of a collection as it is now.
LEMMA SortedNow == \A k : Sorted(k) = Listing(k, items[k])
BY DEF Sorted, Listing

-----------------------------------------------------------------------------
(* The invariant.                                                          *)

\* What a walk has got is the beginning of what its cursor was made for.
Walked ==
    /\ walk = [state |-> walk.state, kind |-> walk.kind, next |-> walk.next,
               got |-> walk.got, pages |-> walk.pages]
    /\ walk.got \in Seq(Item)
    /\ walk.state = "walking" =>
         /\ walk.kind = walk.next.kind
         /\ walk.got = SubSeq(Listing(walk.next.kind, walk.next.contents), 1, walk.next.offset)
         /\ Len(walk.got) = walk.next.offset

PInv == TypeOK /\ Walked /\ WalkAdvances

\* A cursor that names a page is not the absence of one.
LEMMA RealCursor == \A k, o : Cursor(k, o) # NoCursor
<1> TAKE k, o
<1>1. "offset" \in DOMAIN Cursor(k, o)
  BY DEF Cursor
<1>2. "offset" \notin DOMAIN NoCursor
  BY DEF NoCursor
<1> QED BY <1>1, <1>2


\* The beginning of a list.
LEMMA Beginning ==
    ASSUME NEW s \in Seq(Item), NEW e \in 0 .. Len(s)
    PROVE  LET q == SubSeq(s, 1, e)
           IN  q \in Seq(Item) /\ Len(q) = e /\ IsPrefix(q, s) /\ (e = Len(s) => q = s)
<1> DEFINE q == SubSeq(s, 1, e)
<1>1. Len(s) \in Nat /\ e \in Int /\ 1 \in Int
  OBVIOUS
<1>2. \A i \in 1 .. e : s[i] \in Item
  BY <1>1
<1>3. q \in Seq(Item) /\ Len(q) = IF 1 <= e THEN e - 1 + 1 ELSE 0
  BY <1>1, <1>2, SubSeqProperties
<1> HIDE DEF q
<1>4. q \in Seq(Item) /\ Len(q) = e
  BY <1>1, <1>3
<1>5. SubSeq(q, 1, Len(q)) = q
  BY <1>4, SubSeqFull
<1>6. IsPrefix(q, s)
  BY <1>1, <1>4, <1>5 DEF IsPrefix, q
<1>7. e = Len(s) => q = s
  BY SubSeqFull DEF q
<1> QED BY <1>4, <1>6, <1>7 DEF q

\* A request that is accepted gets the part of the list that follows what the
\* client has, and something of it if there is any; nothing is sliced out of
\* bounds.
LEMMA NextPage ==
    ASSUME items \in [Kinds -> Collection], NEW k \in Kinds, NEW c, NEW limit, NEW got,
           \/ c = NoCursor /\ got = <<>>
           \/ c \in Cursors /\ got = SubSeq(Listing(c.kind, c.contents), 1, c.offset),
           Accepts(k, c, limit)
    PROVE  LET e == EndOf(k, c, limit)
               o == OffsetOf(c)
               s == Sorted(k)
           IN  /\ s \in Seq(Item) /\ Len(s) = Cardinality(DOMAIN items[k]) /\ Len(s) \in Nat
               /\ o \in 0 .. Len(s) /\ e \in o .. Len(s) /\ (o < Len(s) => o < e)
               /\ c # NoCursor => o < Len(s)
               /\ got \o PageItems(k, c, limit) = SubSeq(s, 1, e)
<1> DEFINE e == EndOf(k, c, limit)
           o == OffsetOf(c)
           s == Sorted(k)
           n == EffectiveLimit(limit)
<1>1. /\ s \in Seq(Item) /\ Len(s) = Cardinality(DOMAIN items[k]) /\ Len(s) \in Nat
      /\ s = Listing(k, items[k])
  BY SortedNow, SortedRight
<1>2. n \in Nat /\ n > 0
  BY Constants DEF Accepts, EffectiveLimit
<1>3. e = IF o + n < Len(s) THEN o + n ELSE Len(s)
  BY DEF EndOf
<1>4. PageItems(k, c, limit) = SubSeq(s, o + 1, e)
  BY DEF PageItems
<1>5. Accepts(k, c, limit) => c = NoCursor \/ (InScope(c, k) /\ c.offset \in 0 .. Len(s) - 1)
  BY Zenon DEF Accepts
<1> HIDE DEF e, s, n
<1>6. /\ o \in 0 .. Len(s) /\ (c # NoCursor => o < Len(s))
      /\ got = SubSeq(s, 1, o)
  <2>1. CASE c = NoCursor
    <3>1. c \notin Cursors
      <4>1. "offset" \notin DOMAIN c
        BY <2>1 DEF NoCursor
      <4>2. \A x \in Cursors : "offset" \in DOMAIN x
        BY DEF Cursors
      <4> QED BY <4>1, <4>2
    <3>2. o = 0 /\ got = <<>>
      BY <2>1, <3>1 DEF OffsetOf
    <3>3. SubSeq(s, 1, 0) = <<>>
      BY SubSeqEmpty
    <3> QED BY <1>1, <2>1, <3>2, <3>3
  <2>2. CASE c # NoCursor
    <3>1. InScope(c, k) /\ o = c.offset /\ o \in 0 .. Len(s) - 1
      BY <1>5, <2>2 DEF OffsetOf
    <3>2. c.kind = k /\ c.contents = items[k]
      BY <3>1 DEF InScope, Scope
    <3> QED BY <1>1, <2>2, <3>1, <3>2
  <2> QED BY <2>1, <2>2
<1> HIDE DEF o
<1>7. e \in o .. Len(s) /\ (o < Len(s) => o < e)
  BY <1>1, <1>2, <1>3, <1>6
<1>8. got \o PageItems(k, c, limit) = SubSeq(s, 1, e)
  <2>1. 1 \in 1 .. Len(s) + 1 /\ o \in 1 - 1 .. Len(s) /\ e \in o .. Len(s)
    BY <1>1, <1>6, <1>7
  <2>2. SubSeq(s, 1, o) \o SubSeq(s, o + 1, e) = SubSeq(s, 1, e)
    BY <1>1, <2>1, ConcatAdjacentSubSeq
  <2> QED BY <1>4, <1>6, <2>2
<1> QED BY <1>1, <1>6, <1>7, <1>8 DEF e, s, o


\* A page that is answered: the walk goes on behind it, or is complete.
LEMMA Answered ==
    ASSUME PInv, NEW k \in Kinds, NEW c, NEW limit, NEW got, NEW pages \in Nat,
           \/ c = NoCursor /\ got = <<>>
           \/ c \in Cursors /\ got = SubSeq(Listing(c.kind, c.contents), 1, c.offset),
           got \in Seq(Item), Len(got) = OffsetOf(c), pages <= Len(got),
           Accepts(k, c, limit), items' = items,
           walk' = [Answer(k, c, limit, got, pages) EXCEPT !.kind = k],
           reply' = ReplyTo(k, c, limit)
    PROVE  /\ PInv'
           /\ IsPrefix(walk'.got, Sorted(walk'.kind))
           /\ walk'.state = "done" => walk'.got = Sorted(walk'.kind)
<1> DEFINE e == EndOf(k, c, limit)
           o == OffsetOf(c)
           s == Sorted(k)
           next == NextCursor(k, c, limit)
<1>1. items \in [Kinds -> Collection] /\ items[k] \in Collection
  BY DEF PInv, TypeOK
<1>2. /\ s \in Seq(Item) /\ Len(s) = Cardinality(DOMAIN items[k]) /\ Len(s) \in Nat
      /\ o \in 0 .. Len(s) /\ e \in o .. Len(s) /\ (o < Len(s) => o < e)
      /\ got \o PageItems(k, c, limit) = SubSeq(s, 1, e)
  BY <1>1, NextPage
<1>3. s = Listing(k, items[k])
  BY SortedNow
<1>4. next = IF e < Len(s) THEN Cursor(k, e) ELSE NoCursor
  BY DEF NextCursor
<1>5. InBounds(k, c, limit)
  BY <1>2 DEF InBounds
<1>6. walk' = [state |-> IF next = NoCursor THEN "done" ELSE "walking", kind |-> k,
               next |-> next, got |-> SubSeq(s, 1, e), pages |-> pages + 1]
  BY <1>2, <1>5 DEF Answer
<1>7. reply' = "page"
  BY <1>5 DEF ReplyTo
<1>8. Len(got) = o /\ (o < Len(s) \/ Len(s) = 0)
  <2>1. c # NoCursor => o < Len(s)
    BY <1>1, NextPage
  <2>2. c = NoCursor => o = 0
    BY DEF OffsetOf
  <2> HIDE DEF s, o
  <2> QED BY <1>2, <2>1, <2>2 DEF o
<1> HIDE DEF e, o, s, next
<1>9. LET q == SubSeq(s, 1, e)
      IN  q \in Seq(Item) /\ Len(q) = e /\ IsPrefix(q, s) /\ (e = Len(s) => q = s)
  <2>1. e \in 0 .. Len(s)
    BY <1>2
  <2> QED BY <1>2, <2>1, Beginning
<1>10. walk'.kind = k /\ walk'.got = SubSeq(s, 1, e) /\ walk'.next = next
       /\ walk'.pages = pages + 1
       /\ walk'.state = (IF next = NoCursor THEN "done" ELSE "walking")
  BY <1>6
<1>11. CASE e < Len(s)
  <2>1. next = Cursor(k, e) /\ next # NoCursor
    BY <1>4, <1>11, RealCursor
  <2>2. next.kind = k /\ next.contents = items[k] /\ next.offset = e /\ next \in Cursors
    BY <1>1, <1>2, <2>1 DEF Cursor, Cursors
  <2>3. e \in 1 .. Cardinality(DOMAIN next.contents) - 1
    BY <1>2, <1>11, <2>2
  <2>4. walk'.state = "walking"
    BY <1>10, <2>1
  <2>5. TypeOK'
    BY <1>1, <1>7, <1>10, <2>2, <2>3, <2>4 DEF TypeOK
  <2>6. Walked'
    BY <1>3, <1>6, <1>9, <1>10, <2>2 DEF Walked
  <2>7. WalkAdvances'
    BY <1>2, <1>8, <1>9, <1>10, <1>11 DEF WalkAdvances
  <2> QED BY <1>9, <1>10, <2>4, <2>5, <2>6, <2>7 DEF PInv, s
<1>12. CASE ~(e < Len(s))
  <2>1. next = NoCursor /\ e = Len(s)
    BY <1>2, <1>4, <1>12
  <2>2. walk'.state = "done"
    BY <1>10, <2>1
  <2>3. TypeOK'
    BY <1>1, <1>7, <1>10, <2>1, <2>2 DEF TypeOK
  <2>4. Walked'
    BY <1>6, <1>9, <1>10, <2>2 DEF Walked
  <2>5. WalkAdvances'
    <3>1. CASE Len(s) = 0
      BY <1>2, <1>8, <1>9, <1>10, <2>1, <3>1 DEF WalkAdvances
    <3>2. CASE Len(s) # 0
      BY <1>2, <1>8, <1>9, <1>10, <2>1, <3>2 DEF WalkAdvances
    <3> QED BY <3>1, <3>2
  <2> QED BY <1>9, <1>10, <2>1, <2>3, <2>4, <2>5 DEF PInv, s
<1> QED BY <1>11, <1>12


\* A page that is refused: the walk ends with what it has got.
LEMMA NotAnswered ==
    ASSUME PInv, NEW k \in Kinds, NEW c, NEW limit, NEW got, NEW pages,
           ~Accepts(k, c, limit), items' = items,
           walk' = [Answer(k, c, limit, got, pages) EXCEPT !.kind = k],
           reply' = ReplyTo(k, c, limit)
    PROVE  PInv' /\ walk'.state = "refused"
<1>1. walk' = [state |-> "refused", kind |-> k, next |-> NoCursor, got |-> walk.got,
               pages |-> walk.pages]
  <2>1. walk' = [[walk EXCEPT !.state = "refused", !.next = NoCursor] EXCEPT !.kind = k]
    BY Zenon DEF Answer
  <2>2. walk = [state |-> walk.state, kind |-> walk.kind, next |-> walk.next,
                got |-> walk.got, pages |-> walk.pages]
    BY Zenon DEF PInv, Walked
  <2> QED BY <2>1, <2>2
<1>2. reply' = "refused"
  BY DEF ReplyTo
<1>3. /\ walk'.state = "refused" /\ walk'.kind = k /\ walk'.next = NoCursor
      /\ walk'.got = walk.got /\ walk'.pages = walk.pages
  BY <1>1
<1>4. TypeOK'
  BY <1>2, <1>3 DEF PInv, TypeOK
<1>5. Walked'
  BY <1>1, <1>3 DEF PInv, Walked
<1>6. WalkAdvances'
  BY <1>3 DEF PInv, WalkAdvances
<1> QED BY <1>3, <1>4, <1>5, <1>6 DEF PInv

\* What a continued walk gets is a prefix of the list, and complete at its end.
Exact ==
    walk' # walk /\ walk'.state \in {"walking", "done"} =>
        /\ IsPrefix(walk'.got, Sorted(walk'.kind))
        /\ walk'.state = "done" => walk'.got = Sorted(walk'.kind)

\* The first page of a walk.
LEMMA StartStep ==
    ASSUME PInv, NEW k \in Kinds, NEW limit, Start(k, limit)
    PROVE  PInv' /\ Exact
<1>1. /\ walk' = [Answer(k, NoCursor, limit, <<>>, 0) EXCEPT !.kind = k]
      /\ reply' = ReplyTo(k, NoCursor, limit) /\ items' = items
  BY DEF Start
<1>2. CASE Accepts(k, NoCursor, limit)
  <2>1. <<>> \in Seq(Item) /\ Len(<<>>) = OffsetOf(NoCursor) /\ 0 <= Len(<<>>) /\ 0 \in Nat
    BY DEF OffsetOf
  <2> QED BY <1>1, <1>2, <2>1, Answered DEF Exact
<1>3. CASE ~Accepts(k, NoCursor, limit)
  BY <1>1, <1>3, NotAnswered DEF Exact
<1> QED BY <1>2, <1>3

\* The next page of a walk, asked of any collection.
LEMMA FollowStep ==
    ASSUME PInv, NEW k \in Kinds, NEW limit, Follow(k, limit)
    PROVE  PInv' /\ Exact
<1> DEFINE c == walk.next
<1>1. /\ walk.state = "walking"
      /\ walk' = Answer(k, c, limit, walk.got, walk.pages)
      /\ reply' = ReplyTo(k, c, limit) /\ items' = items
  BY DEF Follow
<1>2. /\ c \in Cursors /\ c.offset \in Nat /\ c.offset >= 1
      /\ walk.pages \in Nat /\ walk.got \in Seq(Item) /\ Len(walk.got) = c.offset
      /\ walk.kind = c.kind
      /\ walk.got = SubSeq(Listing(c.kind, c.contents), 1, c.offset)
  <2>2. c \in Cursors /\ c.offset \in 1 .. Cardinality(DOMAIN c.contents) - 1
    <3>1. \/ walk.next = NoCursor /\ walk.state # "walking"
          \/ /\ walk.state = "walking" /\ walk.next \in Cursors
             /\ walk.next.offset \in 1 .. Cardinality(DOMAIN walk.next.contents) - 1
      BY DEF PInv, TypeOK
    <3> QED BY <1>1, <3>1
  <2>3. c.offset \in Nat /\ c.offset >= 1
    BY <2>2 DEF Cursors
  <2>4. walk.pages \in Nat
    BY DEF PInv, TypeOK
  <2> HIDE DEF c
  <2> QED BY <1>1, <2>2, <2>3, <2>4 DEF PInv, Walked, c
<1>3. c # NoCursor
  <2>1. "offset" \in DOMAIN c
    BY <1>2 DEF Cursors
  <2>2. "offset" \notin DOMAIN NoCursor
    BY DEF NoCursor
  <2> QED BY <2>1, <2>2
<1>4. CASE Accepts(k, c, limit)
  <2>1. c.kind = k
    BY <1>3, <1>4 DEF Accepts, InScope, Scope
  <2>2. Answer(k, c, limit, walk.got, walk.pages).kind = k
    BY <1>2, <2>1 DEF Answer
  <2>3. walk' = [Answer(k, c, limit, walk.got, walk.pages) EXCEPT !.kind = k]
    BY <1>1, <1>2, <2>1, <2>2 DEF Answer, PInv, Walked
  <2>4. Len(walk.got) = OffsetOf(c) /\ walk.pages <= Len(walk.got)
    BY <1>2, <1>3 DEF OffsetOf, PInv, WalkAdvances
  <2> QED BY <1>1, <1>2, <1>4, <2>3, <2>4, Answered DEF Exact
<1>5. CASE ~Accepts(k, c, limit)
  <2>1. walk' = [state |-> "refused", kind |-> walk.kind, next |-> NoCursor,
                 got |-> walk.got, pages |-> walk.pages]
    BY <1>1, <1>5 DEF PInv, Walked, Answer
  <2>2. reply' = "refused"
    BY <1>1, <1>5 DEF ReplyTo
  <2>3. TypeOK'
    BY <1>1, <2>1, <2>2 DEF PInv, TypeOK
  <2>4. Walked' /\ WalkAdvances' /\ Exact
    BY <2>1 DEF PInv, Walked, WalkAdvances, Exact
  <2> QED BY <2>3, <2>4 DEF PInv
<1> QED BY <1>4, <1>5

\* A made-up cursor is answered or refused, and nothing else changes.
LEMMA ProbeStep ==
    ASSUME PInv, NEW k \in Kinds, NEW offset \in Int, NEW limit, Probe(k, offset, limit)
    PROVE  PInv' /\ Exact
<1> DEFINE c == Cursor(k, offset)
<1>1. reply' = ReplyTo(k, c, limit) /\ items' = items /\ walk' = walk
  BY DEF Probe
<1>2. items \in [Kinds -> Collection]
  BY DEF PInv, TypeOK
<1>3. reply' \in {"page", "refused"}
  <2>1. CASE Accepts(k, c, limit)
    <3>1. c \in Cursors
      BY <1>2 DEF Cursor, Cursors
    <3> HIDE DEF c
    <3>2. PICK got : got = SubSeq(Listing(c.kind, c.contents), 1, c.offset)
      OBVIOUS
    <3>3. LET e == EndOf(k, c, limit)
              o == OffsetOf(c)
              s == Sorted(k)
          IN  Len(s) \in Nat /\ o \in 0 .. Len(s) /\ e \in o .. Len(s)
      BY <1>2, <2>1, <3>1, <3>2, NextPage
    <3>4. InBounds(k, c, limit)
      BY <3>3 DEF InBounds
    <3> QED BY <1>1, <2>1, <3>4 DEF ReplyTo
  <2>2. CASE ~Accepts(k, c, limit)
    BY <1>1, <2>2 DEF ReplyTo
  <2> QED BY <2>1, <2>2
<1> QED BY <1>1, <1>3 DEF PInv, TypeOK, Walked, WalkAdvances, Exact

\* A collection changes under the walk.
LEMMA ChangeStep ==
    ASSUME PInv, NEW k \in Kinds, Change(k)
    PROVE  PInv' /\ Exact
<1>1. walk' = walk /\ reply' = reply
  BY DEF Change
<1>2. items \in [Kinds -> Collection] /\ items[k] \in Collection
  BY DEF PInv, TypeOK
<1>3. \E g \in Collection : items' = [items EXCEPT ![k] = g]
  <2> DEFINE f == items[k]
  <2>1. /\ DOMAIN f \in SUBSET IDs /\ \A j \in DOMAIN f : f[j] \in Values
    BY <1>2 DEF Collection
  <2>2. ASSUME NEW i \in IDs, NEW v \in Values
        PROVE  [j \in DOMAIN f \cup {i} |-> IF j = i THEN v ELSE f[j]] \in Collection
    <3>1. DOMAIN f \cup {i} \in SUBSET IDs
      BY <2>1
    <3>2. [j \in DOMAIN f \cup {i} |-> IF j = i THEN v ELSE f[j]] \in [DOMAIN f \cup {i} -> Values]
      BY <2>1
    <3> QED BY <3>1, <3>2 DEF Collection
  <2>3. ASSUME NEW i \in IDs
        PROVE  [j \in DOMAIN f \ {i} |-> f[j]] \in Collection
    <3>1. DOMAIN f \ {i} \in SUBSET IDs
      BY <2>1
    <3>2. [j \in DOMAIN f \ {i} |-> f[j]] \in [DOMAIN f \ {i} -> Values]
      BY <2>1
    <3> QED BY <3>1, <3>2 DEF Collection
  <2>4. \E i \in IDs :
          \/ \E v \in Values :
               items' = [items EXCEPT ![k] =
                           [j \in DOMAIN f \cup {i} |-> IF j = i THEN v ELSE f[j]]]
          \/ items' = [items EXCEPT ![k] = [j \in DOMAIN f \ {i} |-> f[j]]]
    BY <1>2 DEF Change
  <2> QED BY <2>2, <2>3, <2>4
<1>4. items' \in [Kinds -> Collection]
  BY <1>2, <1>3
<1> QED BY <1>1, <1>4 DEF PInv, TypeOK, Walked, WalkAdvances, Exact


-----------------------------------------------------------------------------
(* What follows.                                                           *)

\* Nobody walks at first.
LEMMA PagerInit == Init => PInv
<1> SUFFICES ASSUME Init PROVE PInv
  OBVIOUS
<1> DEFINE first == CHOOSE k \in Kinds : TRUE
<1>1. first \in Kinds
  BY Constants, Zenon
<1> HIDE DEF first
<1>2. /\ items \in [Kinds -> Collection] /\ reply = "page"
      /\ walk = [state |-> "idle", kind |-> first, next |-> NoCursor, got |-> <<>>,
                 pages |-> 0]
  BY DEF Init, first
<1>3. TypeOK
  BY <1>1, <1>2 DEF TypeOK
<1>4. Walked /\ WalkAdvances
  BY <1>2 DEF Walked, WalkAdvances
<1> QED BY <1>3, <1>4 DEF PInv

\* Every step keeps the invariant, and pages are exact.
LEMMA PagerStep == PInv /\ [Next]_vars => PInv' /\ [Exact]_vars
<1>1. PInv /\ Next => PInv' /\ Exact
  <2> SUFFICES ASSUME PInv, Next PROVE PInv' /\ Exact
    OBVIOUS
  <2>1. PICK k \in Kinds :
          \/ \E limit \in -1 .. MaxLimit + 1 :
               \/ Start(k, limit)
               \/ Follow(k, limit)
               \/ \E offset \in -1 .. Cardinality(IDs) + 1 : Probe(k, offset, limit)
          \/ Change(k)
    BY DEF Next
  <2>2. CASE Change(k)
    BY <2>2, ChangeStep
  <2>3. ASSUME NEW limit, Start(k, limit) PROVE PInv' /\ Exact
    BY <2>3, StartStep
  <2>4. ASSUME NEW limit, Follow(k, limit) PROVE PInv' /\ Exact
    BY <2>4, FollowStep
  <2>5. ASSUME NEW limit, NEW offset \in -1 .. Cardinality(IDs) + 1, Probe(k, offset, limit)
        PROVE  PInv' /\ Exact
    <3>1. offset \in Int
      OBVIOUS
    <3> QED BY <2>5, <3>1, ProbeStep
  <2> QED BY <2>1, <2>2, <2>3, <2>4, <2>5
<1>2. PInv /\ UNCHANGED vars => PInv'
  BY DEF vars, PInv, TypeOK, Walked, WalkAdvances
<1> QED BY <1>1, <1>2

\* The invariant of a walk.
THEOREM PagerInvariance == Spec => []PInv
BY PagerInit, PagerStep, PTL DEF Spec

\* A cursor that was issued points inside the list it was made for, and none,
\* issued or made up, makes page slice out of bounds.
THEOREM PagerTypeCorrect == Spec => []TypeOK
<1>1. PInv => TypeOK
  BY DEF PInv
<1> QED BY <1>1, PagerInvariance, PTL

\* Every page brings an item, so that a walk comes to its end.
THEOREM WalkAlwaysAdvances == Spec => []WalkAdvances
<1>1. PInv => WalkAdvances
  BY DEF PInv
<1> QED BY <1>1, PagerInvariance, PTL

\* The pages of a walk are the list as it is now, from its beginning, with
\* nothing left out, repeated or mixed.
THEOREM WalkStaysExact == Spec => WalkExact
<1>1. [Exact]_vars => [walk' # walk /\ walk'.state \in {"walking", "done"} =>
                         /\ IsPrefix(walk'.got, Sorted(walk'.kind))
                         /\ walk'.state = "done" => walk'.got = Sorted(walk'.kind)]_vars
  BY DEF Exact
<1> QED BY <1>1, PagerInvariance, PagerStep, PTL DEF Spec, WalkExact

=============================================================================
