-------------------------------- MODULE Pager --------------------------------
(***************************************************************************)
(* Cursor pagination of the list operations (app/page.go): clients, users, *)
(* groups, sessions and audit events share the function page.  A cursor    *)
(* carries the kind of the collection, a digest of its sorted contents and *)
(* an offset; the digest is taken to be injective, so a cursor holds the   *)
(* contents themselves.  A client walks a collection page by page, with a  *)
(* limit of its choice each time, while mutations change it; it may also   *)
(* send a cursor to another collection or make one up.                     *)
(***************************************************************************)
EXTENDS Integers, Sequences, FiniteSets, SequencesExt

CONSTANTS
    Kinds,         \* collections
    IDs,           \* identifiers of items
    Values,        \* what an item can hold besides its identifier
    DefaultLimit,  \* 100 in the code
    MaxLimit       \* 1000 in the code

ASSUME PagerAssumption ==
    /\ Kinds # {}
    /\ IDs \subseteq Nat /\ IsFiniteSet(IDs)
    /\ DefaultLimit \in 1 .. MaxLimit /\ MaxLimit \in Nat

VARIABLES
    items,      \* the contents of each collection, by identifier
    walk,       \* the client: its collection, the items and pages it has
                \* got, its next cursor
    reply       \* how the last request ended

vars == <<items, walk, reply>>

NoCursor == [kind |-> "none"]

Collection == UNION {[S -> Values] : S \in SUBSET IDs}

\* What page sees of a collection: its items, sorted by identifier.  The n-th
\* identifier is the one with n - 1 below it.
Nth(ids, n) == CHOOSE i \in ids : Cardinality({j \in ids : j < i}) = n - 1

Sorted(k) ==
    [n \in 1 .. Cardinality(DOMAIN items[k]) |->
        LET i == Nth(DOMAIN items[k], n)
        IN  [kind |-> k, id |-> i, value |-> items[k][i]]]

\* The scope of a cursor: kind and digest of the contents.
Scope(k) == [kind |-> k, contents |-> items[k]]

Cursor(k, offset) == [kind |-> k, contents |-> items[k], offset |-> offset]

Cursors == [kind: Kinds, contents: Collection, offset: Int]

\* The types; a cursor that was issued always points inside its collection, and
\* no cursor, made up or issued, makes page slice out of bounds.
TypeOK ==
    /\ items \in [Kinds -> Collection]
    /\ walk.state \in {"idle", "walking", "done", "refused"}
    /\ walk.kind \in Kinds
    /\ \/ walk.next = NoCursor /\ walk.state # "walking"
       \/ /\ walk.state = "walking"
          /\ walk.next \in Cursors
          /\ walk.next.offset \in 1 .. Cardinality(DOMAIN walk.next.contents) - 1
    /\ walk.pages \in Nat
    /\ reply \in {"page", "refused"}

Init ==
    /\ items \in [Kinds -> Collection]
    /\ walk = [state |-> "idle", kind |-> CHOOSE k \in Kinds : TRUE,
               next |-> NoCursor, got |-> <<>>, pages |-> 0]
    /\ reply = "page"

-----------------------------------------------------------------------------
(* page.                                                                   *)

\* Mutant: the default is forgotten.
LimitAsGiven(limit) == limit

\* The limit that counts.
EffectiveLimit(limit) == IF limit = 0 THEN DefaultLimit ELSE limit

\* Mutant: a cursor names its collection, not the contents.
InScopeOfKind(c, k) == c.kind = k

\* Mutant: a cursor names the contents, not the collection.
InScopeOfContents(c, k) == c.contents = items[k]

InScope(c, k) == [kind |-> c.kind, contents |-> c.contents] = Scope(k)

\* Mutant: the offset is not compared with the length.
AcceptsAnyOffset(k, c, limit) ==
    /\ limit \in 0 .. MaxLimit
    /\ c = NoCursor \/ (InScope(c, k) /\ c.offset >= 0)

Accepts(k, c, limit) ==
    /\ limit \in 0 .. MaxLimit
    /\ c = NoCursor \/ (InScope(c, k) /\ c.offset \in 0 .. Len(Sorted(k)) - 1)

OffsetOf(c) == IF c = NoCursor THEN 0 ELSE c.offset

EndOf(k, c, limit) ==
    LET end == OffsetOf(c) + EffectiveLimit(limit)
    IN  IF end < Len(Sorted(k)) THEN end ELSE Len(Sorted(k))

\* Slicing beyond the list is a panic in the code.
InBounds(k, c, limit) == OffsetOf(c) <= EndOf(k, c, limit)

PageItems(k, c, limit) == SubSeq(Sorted(k), OffsetOf(c) + 1, EndOf(k, c, limit))

NextCursor(k, c, limit) ==
    IF EndOf(k, c, limit) < Len(Sorted(k)) THEN Cursor(k, EndOf(k, c, limit)) ELSE NoCursor

-----------------------------------------------------------------------------
(* The client.                                                             *)

\* The answer to a request that is part of the walk.
Answer(k, c, limit, got, pages) ==
    IF Accepts(k, c, limit) /\ InBounds(k, c, limit)
    THEN LET next == NextCursor(k, c, limit)
         IN  [state |-> IF next = NoCursor THEN "done" ELSE "walking", kind |-> walk.kind,
              next |-> next, got |-> got \o PageItems(k, c, limit), pages |-> pages + 1]
    ELSE [walk EXCEPT !.state = "refused", !.next = NoCursor]

ReplyTo(k, c, limit) ==
    IF ~Accepts(k, c, limit) THEN "refused"
    ELSE IF InBounds(k, c, limit) THEN "page" ELSE "panic"

\* The first page of a collection.
Start(k, limit) ==
    /\ walk.state # "walking"
    /\ walk' = [Answer(k, NoCursor, limit, <<>>, 0) EXCEPT !.kind = k]
    /\ reply' = ReplyTo(k, NoCursor, limit)
    /\ UNCHANGED items

\* The cursor of the last page, sent to collection k with any valid limit.
Follow(k, limit) ==
    /\ walk.state = "walking"
    /\ walk' = Answer(k, walk.next, limit, walk.got, walk.pages)
    /\ reply' = ReplyTo(k, walk.next, limit)
    /\ UNCHANGED items

\* A made-up cursor with the right scope and any offset.  page keeps no
\* state, so it is enough to try one before the walk.
Probe(k, offset, limit) ==
    /\ walk.state = "idle"
    /\ reply' = ReplyTo(k, Cursor(k, offset), limit)
    /\ UNCHANGED <<items, walk>>

\* A mutation, or a login or audit event, adds, changes or removes an item.
Change(k) ==
    /\ \E i \in IDs :
         \/ \E v \in Values :
              items' = [items EXCEPT ![k] = [j \in DOMAIN @ \cup {i} |-> IF j = i THEN v ELSE @[j]]]
         \/ items' = [items EXCEPT ![k] = [j \in DOMAIN @ \ {i} |-> @[j]]]
    /\ UNCHANGED <<walk, reply>>

Next ==
    \E k \in Kinds :
      \/ \E limit \in -1 .. MaxLimit + 1 :
           \/ Start(k, limit)
           \/ Follow(k, limit)
           \/ \E offset \in -1 .. Cardinality(IDs) + 1 : Probe(k, offset, limit)
      \/ Change(k)

Spec == Init /\ [][Next]_vars

-----------------------------------------------------------------------------
(* Properties.                                                             *)

\* A page that continues a walk makes what the client has got a prefix of
\* the collection as it is now, and the last page completes it: nothing is
\* skipped, repeated or mixed, although limits vary and the collection may
\* have changed, and changed back, between the pages.
WalkExact ==
    [][walk' # walk /\ walk'.state \in {"walking", "done"} =>
         /\ IsPrefix(walk'.got, Sorted(walk'.kind))
         /\ walk'.state = "done" => walk'.got = Sorted(walk'.kind)]_vars

\* A walk makes progress: every page brings an item, so a client that
\* follows the cursors needs at most as many requests as there are items
\* (one for an empty collection) and cannot be sent in circles.
WalkAdvances == walk.pages <= (IF walk.got = <<>> THEN 1 ELSE Len(walk.got))


=============================================================================
