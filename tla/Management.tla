----------------------------- MODULE Management -----------------------------
(***************************************************************************)
(* The control plane of LabSSO (internal/app): the mutations of the        *)
(* desired state with their revision check, the idempotency cache that     *)
(* answers retries, the audit ring and the bootstrap document that reset   *)
(* returns to.  Every operation holds App.mu from its cache lookup to its  *)
(* end, so one call is one action; what a change does to the data plane    *)
(* meanwhile is in modules DataPlane and Totp.                             *)
(*                                                                         *)
(* Abstractions.  A revision is the content hash of the canonical          *)
(* document, so the document itself stands for it: equal contents have     *)
(* equal revisions, whenever they were active.  The lists of the document  *)
(* (clients, users, groups) are the one list clients; its singletons are   *)
(* records of the field a typed operation sets and the rest it must keep.  *)
(* A fingerprint is the input it is computed from.                         *)
(***************************************************************************)
EXTENDS Naturals, Sequences, FiniteSets, SequencesExt

CONSTANTS
    ClientIDs,      \* client IDs
    Uris,           \* redirect URI lists
    Knobs,          \* values a typed operation sets
    Zero,           \* the knob value Normalize gives to an empty singleton
    NoKnob,         \* the knob of an empty singleton
    Addresses,      \* listener addresses
    Keys,           \* idempotency keys, each with the actor that uses it
    NoKey,          \* the empty key
    NoDoc,          \* no revision, an unreadable file
    Boot,           \* the document of the bootstrap file at start
    Edits,          \* documents an operator writes to the bootstrap file
    Changes,        \* operation lists that clients send
    Calls,          \* the capabilities that are exercised
    IdempCap,       \* entries of the idempotency cache (256 in the code)
    RingCap,        \* events of the audit ring (256 in the code)
    MaxGen,         \* bound on the snapshot generation
    MaxSeq          \* bound on the number of audit events

Singletons == {"auth", "profile", "groupOverage"}
Capabilities == {"plan", "apply", "setMFA", "swapVendor", "setOverage",
                 "rewriteRedirect", "importPlan", "importApply", "reset", "other"}

Client == [id: ClientIDs, uris: Uris]
Singleton == [knob: Knobs, rest: Nat]
Document == [clients: Seq(Client), single: [Singletons -> Singleton],
             listen: Addresses]

Operation ==
         [op: {"add", "update", "remove"}, kind: {"client"}, id: ClientIDs, value: Client]
    \cup [op: {"add", "update", "remove"}, kind: Singletons, value: Singleton]
    \cup [op: {"add", "update"}, kind: {"listeners"}, value: Addresses]

ASSUME BootAssumption == {Boot} \cup Edits \subseteq Document
ASSUME ChangeAssumption == Changes \subseteq Seq(Operation)
ASSUME KnobAssumption == Zero \in Knobs /\ NoKnob \notin Knobs
ASSUME CallAssumption == Calls \subseteq Capabilities
ASSUME AbsentAssumption ==
    NoKey \notin Keys \cup (Capabilities \X Keys) /\ NoDoc \notin Document
ASSUME SizeAssumption == {IdempCap, RingCap} \subseteq Nat \ {0} /\ {MaxGen, MaxSeq} \subseteq Nat

VARIABLES
    active,     \* the published snapshot: document, bootstrap revision, generation
    bootstrap,  \* the document of the store's bootstrap pointer
    file,       \* the contents of the bootstrap file
    cache,      \* the idempotency cache
    ring,       \* the audit ring
    seq,        \* the number of audit events so far
    applied     \* history: the applied mutations, in order

vars == <<active, bootstrap, file, cache, ring, seq, applied>>

ScopedKey == (Calls \X Keys) \cup {NoKey}

Snapshot == [doc: Document, boot: Document, gen: Nat]
Plan == [previous: Document, candidate: Document]
Event == [id: Nat, cap: Capabilities, previous: Document \cup {NoDoc},
          revision: Document \cup {NoDoc}]

TypeOK ==
    /\ active \in Snapshot
    /\ bootstrap \in Document
    /\ file \in Document \cup {NoDoc}
    /\ cache.order \in Seq(ScopedKey \ {NoKey})
    /\ \A k \in DOMAIN cache.m :
         k \in ScopedKey \ {NoKey} /\ cache.m[k].plan \in Plan /\ cache.m[k].event \in Nat
    /\ ring \in Seq(Event)
    /\ seq \in Nat
    /\ \A i \in DOMAIN applied :
         /\ applied[i].key \in ScopedKey /\ applied[i].event \in 1 .. seq
         /\ {applied[i].previous, applied[i].revision} \subseteq Document

Init ==
    /\ active = [doc |-> Boot, boot |-> Boot, gen |-> 1]    \* InstallBootstrapFile
    /\ bootstrap = Boot
    /\ file = Boot
    /\ cache = [order |-> <<>>, m |-> <<>>]
    /\ ring = <<>>
    /\ seq = 0
    /\ applied = <<>>

-----------------------------------------------------------------------------
(* Operations on a document.                                               *)

Defines(doc, id) == \E i \in DOMAIN doc.clients : doc.clients[i].id = id

\* Whether the operation is refused: not found, already there, or a value
\* whose ID is not the target's.
mutateListFails(doc, op) ==
    \/ op.op = "add" /\ Defines(doc, op.id)
    \/ op.op # "add" /\ ~Defines(doc, op.id)
    \/ op.op # "remove" /\ op.value.id # op.id

\* The first entry of an ID counts.
mutateList(list, op) ==
    LET idx == SelectInSeq(list, LAMBDA c : c.id = op.id)
    IN  CASE op.op = "remove" -> RemoveAt(list, idx)
          [] op.op = "add" -> Append(list, op.value)
          [] op.op = "update" -> [list EXCEPT ![idx] = op.value]

\* A removed singleton is emptied; compiling the candidate normalises it.
Empty == [knob |-> NoKnob, rest |-> 0]

mutateSingleton(op) == IF op.op = "remove" THEN Empty ELSE op.value

applyOne(doc, op) ==
    CASE op.kind = "client" -> [doc EXCEPT !.clients = mutateList(@, op)]
      [] op.kind \in Singletons -> [doc EXCEPT !.single[op.kind] = mutateSingleton(op)]
      [] op.kind = "listeners" -> [doc EXCEPT !.listen = op.value]

\* An operation after others of which none has failed.
applyNext(doc, op) ==
    IF doc = NoDoc \/ (op.kind = "client" /\ mutateListFails(doc, op))
    THEN NoDoc ELSE applyOne(doc, op)

\* Operations apply in order to a copy; the first that fails ends it all.
applyOperations(doc, ops) ==
    LET after[i \in 0 .. Len(ops)] ==
            IF i = 0 THEN doc ELSE applyNext(after[i - 1], ops[i])
    IN  after[Len(ops)]

\* Mutant: the emptied singleton is not given its default.
NormalizeNothing(doc) == doc

Normalize(doc) ==
    [doc EXCEPT !.single = [s \in Singletons |->
        IF @[s].knob = NoKnob THEN [@[s] EXCEPT !.knob = Zero] ELSE @[s]]]

\* Mutant: an empty bootstrap revision is kept.
compileUnbased(doc, boot, gen) ==
    [doc |-> Normalize(doc), boot |-> IF boot = NoDoc THEN bootstrap ELSE boot, gen |-> gen]

\* The snapshot of a document.  Without a bootstrap revision it is its own.
compile(doc, boot, gen) ==
    [doc |-> Normalize(doc), boot |-> IF boot = NoDoc THEN Normalize(doc) ELSE boot,
     gen |-> gen]

\* Listener changes need a restart.
validateLiveListeners(next) == next.doc.listen = active.doc.listen

\* The snapshot that the operations make of the active document.
Candidate(ops) == compile(applyOperations(active.doc, ops), active.boot, active.gen + 1)

\* Mutant: the expected revision is not compared.
BuildsUnchecked(expected, ops) ==
    applyOperations(active.doc, ops) # NoDoc /\ validateLiveListeners(Candidate(ops))

\* buildCandidate succeeds, if the secret files can be read.
Builds(expected, ops) ==
    /\ expected = active.doc
    /\ applyOperations(active.doc, ops) # NoDoc
    /\ validateLiveListeners(Candidate(ops))

planFrom(next) ==
    [previous |-> active.doc, candidate |-> next.doc]

-----------------------------------------------------------------------------
(* The idempotency cache: least recently used goes first.                  *)

\* Two actors never share a key: a member of Keys stands for both.
scopedKey(cap, key) == IF key = NoKey THEN NoKey ELSE <<cap, key>>

Cached(k) == k # NoKey /\ k \in DOMAIN cache.m
Hits(k, fp) == Cached(k) /\ cache.m[k].fp = fp
Conflicts(k, fp) == Cached(k) /\ cache.m[k].fp # fp

\* Mutant: a hit does not refresh the entry.
lookupOnly(k) == cache

\* A hit moves the key to the end of the order.
lookup(k) ==
    LET i == SelectInSeq(cache.order, LAMBDA j : j = k)
    IN  [cache EXCEPT !.order = Append(RemoveAt(@, i), k)]

\* Mutant: eviction forgets the entry of the map.
storeLeaky(k, entry) ==
    LET order == IF Cached(k) THEN cache.order ELSE Append(cache.order, k)
    IN  IF k = NoKey THEN cache
        ELSE [order |-> IF Len(order) > IdempCap THEN Tail(order) ELSE order,
              m |-> [j \in DOMAIN cache.m \cup {k} |->
                       IF j = k THEN entry ELSE cache.m[j]]]

store(k, entry) ==
    LET order == IF Cached(k) THEN cache.order ELSE Append(cache.order, k)
        old == IF Len(order) > IdempCap THEN {Head(order)} ELSE {}
    IN  IF k = NoKey THEN cache
        ELSE [order |-> IF old = {} THEN order ELSE Tail(order),
              m |-> [j \in (DOMAIN cache.m \ old) \cup {k} |->
                       IF j = k THEN entry ELSE cache.m[j]]]

\* History: the keys used since each applied mutation's own key was used.
Used(records, k) ==
    IF k = NoKey THEN records
    ELSE [i \in DOMAIN records |->
            [records[i] EXCEPT !.others = IF records[i].key = k THEN {} ELSE @ \cup {k}]]

-----------------------------------------------------------------------------
(* The audit ring.                                                         *)

\* Mutant: the ring drops the event it has just been given.
KeepFirst(events) ==
    IF Len(events) > RingCap THEN SubSeq(events, 1, RingCap) ELSE events

KeepLast(events) ==
    IF Len(events) > RingCap
    THEN SubSeq(events, Len(events) - RingCap + 1, Len(events)) ELSE events

Emit(cap, previous, revision) ==
    /\ seq < MaxSeq
    /\ seq' = seq + 1
    /\ ring' = KeepLast(Append(ring, [id |-> seq', cap |-> cap, previous |-> previous,
                                      revision |-> revision]))

Configuration == <<active, bootstrap>>

\* A refused call that leaves an error or denial in the ring, and no more.
Rejected(cap) ==
    /\ Emit(cap, NoDoc, NoDoc)
    /\ UNCHANGED <<Configuration, file, cache, applied>>

Refused == UNCHANGED vars

-----------------------------------------------------------------------------
(* Mutations.  fp is the fingerprint, the input without its key.           *)

Call(cap) == cap \in Calls

\* The caller knows revisions that were once active, or sends none.
Revisions == {applied[i].previous : i \in DOMAIN applied} \cup {active.doc, NoDoc}

Entry(fp, plan, event) == [fp |-> fp, plan |-> plan, event |-> event]

\* A retry is answered with the stored result.
Replay(k) ==
    /\ cache' = lookup(k)
    /\ applied' = Used(applied, k)
    /\ UNCHANGED <<Configuration, file, ring, seq>>

\* Publication, audit event and cache entry of a change that succeeded.
Commit(cap, k, fp, plan) ==
    /\ active.gen < MaxGen
    /\ Emit(cap, plan.previous, plan.candidate)
    /\ cache' = store(k, Entry(fp, plan, seq'))
    /\ applied' = Append(Used(applied, k),
                    [key |-> k, fp |-> fp, previous |-> plan.previous,
                     revision |-> plan.candidate, event |-> seq', others |-> {}])
    /\ UNCHANGED file

\* Compiling reads the secret files again and may fail at any time.
applyLocked(cap, k, fp, in, ops) ==
    \/ in.reason /\ Hits(k, fp) /\ Replay(k)
    \/ ~in.reason /\ Rejected(cap)
    \/ in.reason /\ ~Hits(k, fp) /\ Rejected(cap)
    \/ /\ in.reason /\ ~Cached(k) /\ Builds(in.expected, ops)
       /\ active' = Candidate(ops)
       /\ Commit(cap, k, fp, planFrom(active'))
       /\ UNCHANGED bootstrap

Input == [expected: Revisions, reason: BOOLEAN]

Apply(key, in, ops) ==
    /\ Call("apply")
    /\ applyLocked("apply", scopedKey("apply", key), <<in, ops>>, in, ops)

\* The typed operations look for a replay before they merge their input
\* into the active document; a conflicting key or a missing target leaves
\* no audit event.
Typed(cap, key, in, arg, ops) ==
    LET k == scopedKey(cap, key)
        fp == <<in, arg>>
    IN  \/ Conflicts(k, fp) /\ Refused
        \/ Hits(k, fp) /\ Replay(k)
        \/ ~Cached(k) /\ applyLocked(cap, k, fp, in, ops)

\* Mutant: the merge overwrites what the input does not mention.
MergedOver(kind, v) ==
    <<[op |-> "update", kind |-> kind, value |-> [knob |-> v, rest |-> 0]]>>

\* The full singleton with one field replaced.
Merged(kind, v) ==
    <<[op |-> "update", kind |-> kind,
       value |-> [active.doc.single[kind] EXCEPT !.knob = v]]>>

SetMFA(key, in, v) ==
    Call("setMFA") /\ Typed("setMFA", key, in, v, Merged("auth", v))
SwapVendor(key, in, v) ==
    Call("swapVendor") /\ Typed("swapVendor", key, in, v, Merged("profile", v))
SetOverage(key, in, v) ==
    Call("setOverage") /\ Typed("setOverage", key, in, v, Merged("groupOverage", v))

RewriteRedirect(key, in, c) ==
    LET k == scopedKey("rewriteRedirect", key)
    IN  /\ Call("rewriteRedirect")
        /\ IF Cached(k) \/ Defines(active.doc, c.id)
           THEN Typed("rewriteRedirect", key, in, c,
                      <<[op |-> "update", kind |-> "client", id |-> c.id, value |-> c]>>)
           ELSE Refused

\* Here a conflicting key, and a document the rewriter cannot read, leave an
\* audit event.
ImportApply(key, in, c) ==
    LET k == scopedKey("importApply", key)
    IN  /\ Call("importApply")
        /\ \/ ~Hits(k, <<in, c>>) /\ Rejected("importApply")
           \/ /\ ~Conflicts(k, <<in, c>>)
              /\ Typed("importApply", key, in, c,
                       <<[op |-> "add", kind |-> "client", id |-> c.id, value |-> c]>>)

\* A plan is cached under a key of its own.  A cached plan is served while
\* the expected revision is the active one; asking for it refreshes it.
PlanChange(key, in, ops) ==
    LET k == scopedKey("plan", key)
        fp == <<in, ops>>
    IN  /\ Call("plan")
        /\ \/ Hits(k, fp) /\ Replay(k)
           \/ ~Hits(k, fp) /\ Refused
           \/ /\ ~Cached(k) /\ Builds(in.expected, ops)
              /\ cache' = store(k, Entry(fp, planFrom(Candidate(ops)), 0))
              /\ applied' = Used(applied, k)
              /\ UNCHANGED <<Configuration, file, ring, seq>>

\* An import plan is never cached; a client that exists is a conflict.
ImportPlan(c) ==
    /\ Call("importPlan")
    /\ IF Defines(active.doc, c.id) THEN Rejected("importPlan")
       ELSE Rejected("importPlan") \/ Refused

\* Mutant: the store keeps the bootstrap document of the start.
ResetKeepsPointer(key, in, dryRun) ==
    LET k == scopedKey("reset", key)
        fp == <<in, dryRun>>
        next == compile(file, NoDoc, active.gen + 1)
    IN  /\ Call("reset")
        /\ \/ in.reason /\ Hits(k, fp) /\ Replay(k)
           \/ ~(in.reason /\ Hits(k, fp)) /\ Rejected("reset")
           \/ /\ in.reason /\ ~Cached(k) /\ in.expected = active.doc
              /\ file # NoDoc /\ validateLiveListeners(next)
              /\ \/ dryRun /\ Refused
                 \/ /\ ~dryRun
                    /\ active' = next
                    /\ UNCHANGED bootstrap
                    /\ Commit("reset", k, fp, planFrom(next))

\* The file is read and compiled afresh and becomes the new bootstrap.  (The
\* serve command insists on a path, so that the process has a file to read.)
Reset(key, in, dryRun) ==
    LET k == scopedKey("reset", key)
        fp == <<in, dryRun>>
        next == compile(file, NoDoc, active.gen + 1)
    IN  /\ Call("reset")
        /\ \/ in.reason /\ Hits(k, fp) /\ Replay(k)
           \/ ~(in.reason /\ Hits(k, fp)) /\ Rejected("reset")
           \/ /\ in.reason /\ ~Cached(k) /\ in.expected = active.doc
              /\ file # NoDoc /\ validateLiveListeners(next)
              /\ \/ dryRun /\ Refused
                 \/ /\ ~dryRun
                    /\ active' = next
                    /\ bootstrap' = next.doc
                    /\ Commit("reset", k, fp, planFrom(next))

-----------------------------------------------------------------------------
(* The surroundings.                                                       *)

\* Events of the data plane, the tunables and the operator sessions, denied
\* calls and malformed inputs share the ring.
EmitElsewhere == Call("other") /\ Rejected("other")

\* Validation, export and the queries change nothing.
Validate == UNCHANGED vars

EditFile(d) ==
    /\ "reset" \in Calls /\ file # d
    /\ file' = d
    /\ UNCHANGED <<Configuration, cache, ring, seq, applied>>

Next ==
    \/ \E key \in Keys \cup {NoKey}, in \in Input :
         \/ \E ops \in Changes : Apply(key, in, ops) \/ PlanChange(key, in, ops)
         \/ \E v \in Knobs :
              SetMFA(key, in, v) \/ SwapVendor(key, in, v) \/ SetOverage(key, in, v)
         \/ \E c \in Client : RewriteRedirect(key, in, c) \/ ImportApply(key, in, c)
         \/ \E dryRun \in BOOLEAN : Reset(key, in, dryRun)
    \/ \E c \in Client : ImportPlan(c)
    \/ EmitElsewhere \/ Validate
    \/ \E d \in Edits \cup {Boot, NoDoc} : EditFile(d)

Spec == Init /\ [][Next]_vars

-----------------------------------------------------------------------------
(* Properties.                                                             *)

\* The order and the map of the cache hold the same keys, each once, and no
\* more than the bound.
CacheSound ==
    /\ IsInjective(cache.order)
    /\ ToSet(cache.order) = DOMAIN cache.m
    /\ Len(cache.order) <= IdempCap

\* A retry does not become a new mutation, whatever changed in between: as
\* long as fewer than IdempCap other keys were used since, the entry of an
\* applied mutation is there, with its fingerprint and its result.
RetryReplayed ==
    \A i \in DOMAIN applied :
        LET r == applied[i]
        IN  r.key # NoKey /\ Cardinality(r.others) < IdempCap
            /\ (\A j \in DOMAIN applied : j > i => applied[j].key # r.key)
            => /\ r.key \in DOMAIN cache.m
               /\ cache.m[r.key].fp = r.fp /\ cache.m[r.key].event = r.event

\* The audit trail has no gap: the event of a mutation is in the ring until
\* RingCap later events push it out, and each mutation started from the
\* revision the one before it published, the last being the active one.
AuditTrail ==
    \A i \in DOMAIN applied :
        LET r == applied[i]
        IN  /\ seq - r.event < RingCap =>
                 \E n \in DOMAIN ring : /\ ring[n].id = r.event
                                        /\ ring[n].previous = r.previous
                                        /\ ring[n].revision = r.revision
            /\ r.revision = IF i = Len(applied) THEN active.doc ELSE applied[i + 1].previous

\* The drift a status reports is drift from the document that a reset last
\* loaded: the snapshot's bootstrap revision survives every change.
BootstrapAgrees == active.boot = bootstrap

\* A plan that the cache would serve now predicts what applying it would do.
CachedPlanCurrent ==
    \A k \in DOMAIN cache.m :
        LET e == cache.m[k]
        IN  k[1] = "plan" /\ e.fp[1].expected = active.doc =>
              /\ e.plan.previous = active.doc
              /\ e.plan.candidate = Candidate(e.fp[2]).doc

\* A typed operation changes the field it names and keeps the rest of its
\* singleton, although it writes the whole of it.
TypedKeepsRest ==
    [][\A kind \in Singletons :
          /\ applied' # applied /\ ring'[Len(ring')].cap \in {"setMFA", "swapVendor", "setOverage"}
          => active'.doc.single[kind].rest = active.doc.single[kind].rest]_vars

=============================================================================
