---------------------------- MODULE Totp_proofs ----------------------------
(***************************************************************************)
(* What holds of the second factor for every set of users, secrets,        *)
(* documents and concurrent logins.                                        *)
(*                                                                         *)
(* A login carries its snapshot and the secret it read across every other  *)
(* operation.  The invariant says what such a frame may still do: as long  *)
(* as the generation of its snapshot is admissible, that snapshot holds    *)
(* the seeds of the active one, and the secret it read was in force since  *)
(* it arrived (FrameOK).  For the overlay and the ledger it says under     *)
(* which snapshot they were made at each stage of a management operation   *)
(* (Credentials), where the new generation is admissible alone before they *)
(* are touched (Stages).                                                   *)
(***************************************************************************)
EXTENDS Totp, FiniteSetTheorems, TLAPS

\* A user's overlay and ledger entry were made under the seed of a snapshot.
MadeUnder(u, snap) ==
    /\ totpOverlay[u] # 0 => u \in DOMAIN snap.seed /\ basis[u].overlay = TOTP(snap, u)
    /\ totpLastStep[u] # 0 => u \in DOMAIN snap.seed /\ basis[u].ledger = TOTP(snap, u)

\* The stages of a management operation.
Stages ==
    /\ mgr.pc # "idle" => mgr.cand.gen = active.gen + 1
    /\ mgr.pc = "invalidate" => Replaced(active.seed, mgr.cand.seed) \subseteq mgr.todo
    /\ mgr.pc = "sync" => minimumGeneration = mgr.cand.gen \/ mgr.cand.seed = active.seed
    /\ mgr.pc \in {"r_reset", "r_swap"} => minimumGeneration = mgr.cand.gen

\* Under which snapshot overlays and ledger entries were made, at each stage.
Credentials ==
    /\ mgr.pc \in {"idle", "invalidate", "r_invalidate"} =>
         \A u \in Users : MadeUnder(u, active)
    /\ mgr.pc = "sync" => \A u \in Users \ mgr.todo : MadeUnder(u, mgr.cand)
    /\ mgr.pc = "r_swap" => \A u \in Users : MadeUnder(u, mgr.cand)

\* What a login under way relies on.
FrameOK(f) ==
    f.pc # "idle" =>
        /\ f.user \in DOMAIN f.snap.seed
        /\ f.snap.gen <= active.gen
        /\ minimumGeneration <= f.snap.gen => f.snap.seed = active.seed
        /\ SecretOf(totpOverlay, active, f.user) \in f.seen
        /\ f.pc \in {"verify", "record"} /\ minimumGeneration <= f.snap.gen =>
             f.secret \in f.seen

\* The ledger remembers the greatest step since it was last dropped.
Ledger ==
    /\ IsFiniteSet(admitted)
    /\ \A a \in admitted :
         /\ a.epoch < a.n /\ a.n <= Cardinality(admitted)
         /\ a.epoch = epoch[a.user] => a.code.step <= totpLastStep[a.user]
    /\ \A u \in Users : epoch[u] <= Cardinality(admitted)

TInv ==
    /\ TypeOK
    /\ Stages
    /\ Credentials
    /\ \A p \in Requests : FrameOK(req[p])
    /\ Ledger /\ StepsIncrease

-----------------------------------------------------------------------------
(* Seeds and secrets.                                                      *)

\* A seed, or its absence, is a number.
LEMMA SeedsTyped == \A s \in Seeds \cup {0} : s \in Nat
<1>1. Seeds \subseteq Nat
  BY SeedsAssumption, Zenon
<1> QED BY <1>1

\* The seeds a document gives its users.
LEMMA DocumentTyped ==
    ASSUME NEW d \in Document
    PROVE  DOMAIN d \subseteq Users /\ \A u \in DOMAIN d : d[u] \in Nat
<1>1. PICK S \in SUBSET Users : d \in [S -> Seeds \cup {0}]
  BY DEF Document
<1>2. DOMAIN d = S /\ \A u \in S : d[u] \in Seeds \cup {0}
  BY <1>1
<1> QED BY <1>2, SeedsTyped

\* A compiled seed is a number.
LEMMA TOTPTyped ==
    ASSUME NEW snap \in Snapshot, NEW u
    PROVE  TOTP(snap, u) \in Nat
BY DocumentTyped DEF TOTP, Snapshot

\* So is the first enrolled secret.
LEMMA FirstEnrolledTyped == FirstEnrolled \in Nat /\ FirstEnrolled > 0
<1> DEFINE top == CHOOSE s \in Seeds \cup {0} : \A t \in Seeds : t <= s
<1>1. top \in Seeds \cup {0}
  BY SeedsAssumption
<1>2. top \in Nat
  BY <1>1, SeedsTyped
<1>3. FirstEnrolled = 1 + top
  BY DEF FirstEnrolled
<1> HIDE DEF top
<1> QED BY <1>2, <1>3

\* The snapshot of the bootstrap document, and the frame of an idle request.
LEMMA IdleTyped == BootSnapshot \in Snapshot /\ Idle \in Frame /\ Idle.pc = "idle"
<1>1. BootSnapshot \in Snapshot
  BY DocumentAssumption DEF BootSnapshot, Snapshot
<1> DEFINE user == CHOOSE u \in Users : TRUE
<1>2. user \in Users
  BY UsersAssumption
<1>3. Idle = [pc |-> "idle", snap |-> BootSnapshot, user |-> user,
              code |-> [secret |-> 0, step |-> 0], secret |-> 0, seen |-> {}]
  BY DEF Idle
<1> HIDE DEF user
<1> QED BY <1>1, <1>2, <1>3 DEF Frame, Code

\* The codes a client may present are numbers.
LEMMA KnownTyped ==
    ASSUME enrolled \in Nat
    PROVE  Known \subseteq Nat
<1>1. 0 .. (enrolled - 1) \subseteq Nat
  OBVIOUS
<1>2. \A i \in 0 .. (enrolled - 1) : FirstEnrolled + i \in Nat
  BY FirstEnrolledTyped
<1> QED BY <1>2, SeedsTyped DEF Known

\* A document replaces nothing of itself.
LEMMA ReplacedNothing ==
    ASSUME NEW d
    PROVE  Replaced(d, d) = {}
BY DEF Replaced

\* A user whose entries are not to be dropped keeps the seed they were made
\* under.
LEMMA KeptSeed ==
    ASSUME NEW old, NEW new, NEW u, u \notin Replaced(old.seed, new.seed),
           MadeUnder(u, old)
    PROVE  MadeUnder(u, new)
BY DEF Replaced, MadeUnder, TOTP

-----------------------------------------------------------------------------
(* The initial state.                                                      *)

\* The invariant holds when nobody has enrolled and nobody logs in.
LEMMA TotpInit == Init => TInv
<1> SUFFICES ASSUME Init PROVE TInv
  OBVIOUS
<1>1. TypeOK
  BY IdleTyped DEF Init, TypeOK, MgrLabels
<1>2. Stages /\ Credentials
  BY DEF Init, Stages, Credentials, MadeUnder
<1>3. \A p \in Requests : FrameOK(req[p])
  BY IdleTyped DEF Init, FrameOK
<1>4. Ledger /\ StepsIncrease
  BY FS_EmptySet DEF Init, Ledger, StepsIncrease
<1> QED BY <1>1, <1>2, <1>3, <1>4 DEF TInv

-----------------------------------------------------------------------------
(* Login requests.                                                         *)

\* The components of a frame.
LEMMA FrameTyped ==
    ASSUME NEW f \in Frame
    PROVE  /\ f.snap \in Snapshot /\ f.snap.gen \in Nat /\ f.snap.seed \in Document
           /\ f.user \in Users /\ f.code.step \in Nat /\ f.secret \in Nat
           /\ f.seen \subseteq Nat
BY DEF Frame, Snapshot, Code

\* A step that changes the frame of one request alone.
LEMMA OneFrame ==
    ASSUME TInv, NEW p \in Requests, NEW f \in Frame, Become(p, f), FrameOK(f),
           UNCHANGED <<management, ledger>>
    PROVE  TInv'
<1>1. UNCHANGED <<minimumGeneration, totpOverlay, active, now, mgr, enrolled,
                  totpLastStep, basis, epoch, admitted>>
  BY DEF management, ledger
<1>2. TypeOK'
  BY <1>1 DEF TInv, TypeOK, Become
<1>3. \A q \in Requests : FrameOK(req'[q])
  BY DEF TInv, TypeOK, Become
<1>4. \A q \in Requests : FrameOK(req[q])'
  BY <1>1, <1>3 DEF FrameOK, SecretOf, TOTP
<1>5. Stages' /\ Credentials' /\ Ledger' /\ StepsIncrease'
  BY <1>1 DEF TInv, Stages, Credentials, MadeUnder, TOTP, Ledger, StepsIncrease
<1> QED BY <1>2, <1>4, <1>5 DEF TInv

\* A login captures the snapshot; the secret in force is noted.
LEMMA LoginStep ==
    ASSUME TInv, NEW p \in Requests, Login(p)
    PROVE  TInv'
<1>1. PICK u \in DOMAIN active.seed, s \in Known, t \in 1 .. (MaxNow + 1) :
        Become(p, [pc |-> "read", snap |-> active, user |-> u,
                   code |-> [secret |-> s, step |-> t],
                   secret |-> 0, seen |-> {SecretOf(totpOverlay, active, u)}])
  BY DEF Login
<1> DEFINE f == [pc |-> "read", snap |-> active, user |-> u,
                 code |-> [secret |-> s, step |-> t],
                 secret |-> 0, seen |-> {SecretOf(totpOverlay, active, u)}]
<1>2. active \in Snapshot /\ active.seed \in Document /\ active.gen \in Nat
      /\ totpOverlay \in [Users -> Nat] /\ enrolled \in Nat
  BY DEF TInv, TypeOK, Snapshot
<1>3. u \in Users
  BY <1>2, DocumentTyped
<1>4. SecretOf(totpOverlay, active, u) \in Nat
  BY <1>2, <1>3, TOTPTyped DEF SecretOf
<1>5. s \in Nat /\ t \in Nat
  <2>1. t \in Nat
    OBVIOUS
  <2> QED BY <1>2, <2>1, KnownTyped
<1>6. f \in Frame
  BY <1>2, <1>3, <1>4, <1>5 DEF Frame, Code
<1>7. FrameOK(f)
  BY <1>2 DEF FrameOK
<1> QED BY <1>1, <1>6, <1>7, OneFrame DEF Login

\* The secret that is read is the overlay in force or, without one, the seed
\* of the snapshot, which is in force as long as its generation is admissible.
LEMMA ReadStep ==
    ASSUME TInv, NEW p \in Requests, totpSecret(p)
    PROVE  TInv'
<1> DEFINE f == req[p]
           secret == SecretOf(totpOverlay, f.snap, f.user)
           g == IF secret = 0 THEN Idle ELSE [f EXCEPT !.pc = "verify", !.secret = secret]
<1>1. f \in Frame /\ FrameOK(f) /\ f.pc = "read" /\ totpOverlay \in [Users -> Nat]
  BY DEF TInv, TypeOK, totpSecret, At
<1>2. secret \in Nat
  BY <1>1, FrameTyped, TOTPTyped DEF SecretOf
<1>3. g \in Frame
  BY <1>1, <1>2, IdleTyped DEF Frame
<1>4. minimumGeneration <= f.snap.gen => secret \in f.seen
  BY <1>1 DEF FrameOK, SecretOf, TOTP
<1>5. FrameOK(g)
  <2>1. CASE secret = 0
    BY <2>1, IdleTyped DEF FrameOK
  <2>2. CASE secret # 0
    <3>1. g = [f EXCEPT !.pc = "verify", !.secret = secret]
      BY <2>2
    <3>2. /\ g.pc = "verify" /\ g.secret = secret
          /\ g.snap = f.snap /\ g.user = f.user /\ g.seen = f.seen
      BY <1>1, <3>1 DEF Frame
    <3> HIDE DEF g, secret
    <3> QED BY <1>1, <1>4, <3>2 DEF FrameOK
  <2> QED BY <2>1, <2>2
<1>6. Become(p, g) /\ UNCHANGED <<management, ledger>>
  BY DEF totpSecret
<1> HIDE DEF g
<1> QED BY <1>3, <1>5, <1>6, OneFrame

\* Verifying a code changes no more than where the login is.
LEMMA VerifyStep ==
    ASSUME TInv, NEW p \in Requests, Verify(p)
    PROVE  TInv'
<1> DEFINE f == req[p]
<1>1. f \in Frame /\ FrameOK(f) /\ f.pc = "verify"
  BY DEF TInv, TypeOK, Verify, At
<1>2. UNCHANGED <<management, ledger>>
  BY DEF Verify
<1>3. CASE Become(p, Idle)
  BY <1>2, <1>3, IdleTyped, OneFrame DEF FrameOK
<1>4. CASE Become(p, [f EXCEPT !.pc = "record"])
  <2>1. [f EXCEPT !.pc = "record"] \in Frame
    BY <1>1 DEF Frame
  <2>2. FrameOK([f EXCEPT !.pc = "record"])
    BY <1>1 DEF FrameOK, Frame
  <2> QED BY <1>2, <1>4, <2>1, <2>2, OneFrame
<1> QED BY <1>3, <1>4 DEF Verify


\* The number of admissions.
LEMMA AdmissionsCounted ==
    ASSUME IsFiniteSet(admitted)
    PROVE  Cardinality(admitted) \in Nat
BY FS_CardinalityType

\* The steps of an admission: it is recorded as the newest of its user and
\* moves the user's ledger entry to its step.
LEMMA AdmitStep ==
    ASSUME TInv, NEW p \in Requests, VerifyAndRecordTOTPGeneration(p), Admissible(req[p])
    PROVE  TInv'
<1> DEFINE f == req[p]
           n == Cardinality(admitted)
           adm == [n |-> n + 1, user |-> f.user, code |-> f.code, epoch |-> epoch[f.user]]
<1>1. f \in Frame /\ FrameOK(f) /\ f.pc = "record"
  BY DEF TInv, TypeOK, VerifyAndRecordTOTPGeneration, At
<1>2. /\ Become(p, Idle)
      /\ totpLastStep' = [totpLastStep EXCEPT ![f.user] = f.code.step]
      /\ basis' = [basis EXCEPT ![f.user].ledger = TOTP(f.snap, f.user)]
      /\ admitted' = admitted \cup {adm}
      /\ UNCHANGED <<minimumGeneration, totpOverlay, active, now, mgr, enrolled, epoch>>
  BY DEF VerifyAndRecordTOTPGeneration, management
<1>3. /\ f.snap \in Snapshot /\ f.user \in Users /\ f.code \in Code /\ f.code.step \in Nat
      /\ f.snap.gen \in Nat /\ TOTP(f.snap, f.user) \in Nat
  BY <1>1, FrameTyped, TOTPTyped DEF Frame
<1>4. minimumGeneration <= f.snap.gen /\ f.code.step > totpLastStep[f.user]
  BY <1>3 DEF Admissible, TInv, TypeOK
<1>5. n \in Nat /\ n + 1 \in Nat /\ n + 1 > n
  BY AdmissionsCounted DEF TInv, Ledger
<1>6. epoch[f.user] \in Nat /\ epoch[f.user] <= n
  BY <1>3 DEF TInv, TypeOK, Ledger
<1>7. /\ adm \in Admission
      /\ adm.n = n + 1 /\ adm.user = f.user /\ adm.code.step = f.code.step
      /\ adm.epoch = epoch[f.user]
  BY <1>3, <1>5, <1>6 DEF Admission
<1>8. \A a \in admitted : /\ a \in Admission /\ a.epoch < a.n /\ a.n <= n
                          /\ a.epoch = epoch[a.user] => a.code.step <= totpLastStep[a.user]
  BY DEF TInv, TypeOK, Ledger
<1>9. \A a \in admitted : a.n \in Nat /\ a.epoch \in Nat /\ a.user \in Users
                          /\ a.code.step \in Nat
  BY <1>8 DEF Admission, Code
<1>10. adm \notin admitted
  BY <1>5, <1>7, <1>8, <1>9
<1>11. IsFiniteSet(admitted') /\ Cardinality(admitted') = n + 1
  BY <1>2, <1>10, FS_AddElement DEF TInv, Ledger
<1> HIDE DEF adm, n
<1>12. totpLastStep \in [Users -> Nat] /\ totpLastStep' \in [Users -> Nat]
  BY <1>2, <1>3 DEF TInv, TypeOK
<1>13. TypeOK'
  <2>1. req' \in [Requests -> Frame]
    BY <1>2, IdleTyped DEF TInv, TypeOK, Become
  <2>2. basis' \in [Users -> [overlay: Nat, ledger: Nat]]
    BY <1>2, <1>3 DEF TInv, TypeOK
  <2>3. admitted' \subseteq Admission
    BY <1>2, <1>7 DEF TInv, TypeOK
  <2> QED BY <1>2, <1>12, <2>1, <2>2, <2>3 DEF TInv, TypeOK
<1>14. Stages'
  BY <1>2 DEF TInv, Stages
<1>15. Credentials'
  <2>1. f.user \in DOMAIN active.seed /\ TOTP(f.snap, f.user) = TOTP(active, f.user)
    BY <1>1, <1>4 DEF FrameOK, TOTP
  <2>2. \A u \in Users : MadeUnder(u, active) => MadeUnder(u, active)'
    <3> TAKE u \in Users
    <3> HAVE MadeUnder(u, active)
    <3>1. basis \in [Users -> [overlay: Nat, ledger: Nat]]
      BY DEF TInv, TypeOK
    <3>2. basis'[u].overlay = basis[u].overlay
      BY <1>2, <1>3, <3>1
    <3>3. CASE u # f.user
      BY <1>2, <1>3, <1>12, <3>1, <3>3 DEF MadeUnder, TOTP
    <3>4. CASE u = f.user
      <4>1. basis'[u].ledger = TOTP(active, u)
        BY <1>2, <1>3, <2>1, <3>1, <3>4
      <4> QED BY <1>2, <2>1, <3>2, <3>4, <4>1 DEF MadeUnder, TOTP
    <3> QED BY <3>3, <3>4
  <2>3. mgr.pc \notin {"r_reset", "r_swap"}
    <3>1. mgr.pc # "idle" => mgr.cand.gen = active.gen + 1
      BY DEF TInv, Stages
    <3>2. f.snap.gen <= active.gen /\ active.gen \in Nat
      BY <1>1 DEF FrameOK, TInv, TypeOK, Snapshot
    <3> QED BY <1>3, <1>4, <3>1, <3>2 DEF TInv, Stages
  <2>4. mgr.pc = "sync" => mgr.cand.seed = active.seed
    <3>1. mgr.pc # "idle" => mgr.cand.gen = active.gen + 1
      BY DEF TInv, Stages
    <3>2. f.snap.gen <= active.gen /\ active.gen \in Nat
      BY <1>1 DEF FrameOK, TInv, TypeOK, Snapshot
    <3> QED BY <1>3, <1>4, <3>1, <3>2 DEF TInv, Stages
  <2>5. mgr.pc = "sync" =>
          \A u \in Users : /\ MadeUnder(u, mgr.cand) <=> MadeUnder(u, active)
                           /\ MadeUnder(u, mgr.cand)' <=> MadeUnder(u, active)'
    BY <1>2, <2>4 DEF MadeUnder, TOTP
  <2> QED BY <1>2, <2>2, <2>3, <2>5 DEF TInv, Credentials
<1>16. \A q \in Requests : FrameOK(req[q])'
  <2>1. \A q \in Requests : req'[q] = req[q] \/ req'[q] = Idle
    BY <1>2 DEF TInv, TypeOK, Become
  <2>2. \A q \in Requests : FrameOK(req'[q])
    BY <2>1, IdleTyped DEF TInv, FrameOK
  <2> QED BY <1>2, <2>2 DEF FrameOK, SecretOf, TOTP
<1>17. Ledger'
  <2>1. \A a \in admitted' :
           /\ a.epoch < a.n /\ a.n <= n + 1
           /\ a.epoch = epoch[a.user] => a.code.step <= totpLastStep'[a.user]
    <3> TAKE a \in admitted'
    <3>1. CASE a = adm
      BY <1>2, <1>3, <1>5, <1>6, <1>7, <1>12, <3>1
    <3>2. CASE a \in admitted
      <4>1. totpLastStep[a.user] <= totpLastStep'[a.user]
        BY <1>2, <1>3, <1>4, <1>9, <1>12, <3>2
      <4>2. totpLastStep[a.user] \in Nat /\ totpLastStep'[a.user] \in Nat
        BY <1>9, <1>12, <3>2
      <4> QED BY <1>5, <1>8, <1>9, <3>2, <4>1, <4>2
    <3> QED BY <1>2, <3>1, <3>2
  <2>2. \A u \in Users : epoch[u] <= n + 1
    BY <1>5 DEF TInv, TypeOK, Ledger, n
  <2> QED BY <1>2, <1>11, <2>1, <2>2 DEF Ledger
<1>18. StepsIncrease'
  <2> SUFFICES ASSUME NEW a \in admitted', NEW b \in admitted', a.user = b.user,
                      a.epoch = b.epoch, a.n < b.n
               PROVE  a.code.step < b.code.step
    BY DEF StepsIncrease
  <2>1. CASE a \in admitted /\ b \in admitted
    BY <2>1 DEF TInv, StepsIncrease
  <2>2. CASE a = adm
    BY <1>2, <1>5, <1>7, <1>8, <1>9, <2>2
  <2>3. CASE a \in admitted /\ b = adm
    <3>1. a.code.step <= totpLastStep[f.user] /\ totpLastStep[f.user] \in Nat
      BY <1>3, <1>7, <1>8, <1>12, <2>3
    <3> QED BY <1>3, <1>4, <1>7, <1>9, <2>3, <3>1
  <2> QED BY <1>2, <2>1, <2>2, <2>3
<1> QED BY <1>13, <1>14, <1>15, <1>16, <1>17, <1>18 DEF TInv

\* Recording a code that is not admissible changes nothing.
LEMMA RecordStep ==
    ASSUME TInv, NEW p \in Requests, VerifyAndRecordTOTPGeneration(p)
    PROVE  TInv'
<1>1. CASE Admissible(req[p])
  BY <1>1, AdmitStep
<1>2. CASE ~Admissible(req[p])
  <2>1. Become(p, Idle) /\ UNCHANGED <<management, ledger>>
    BY <1>2 DEF VerifyAndRecordTOTPGeneration, ledger
  <2>2. Idle \in Frame /\ FrameOK(Idle)
    BY IdleTyped DEF FrameOK
  <2> QED BY <2>1, <2>2, OneFrame
<1> QED BY <1>1, <1>2


-----------------------------------------------------------------------------
(* Management.                                                             *)

\* Whatever comes into force is noted by the logins under way: they keep what
\* they rely on if their snapshot, where admissible, agrees with the active one.
LEMMA NotedFrames ==
    ASSUME TInv, NoteSecrets, minimumGeneration' = minimumGeneration,
           totpOverlay' \in [Users -> Nat], active' \in Snapshot,
           active.gen <= active'.gen,
           \A p \in Requests :
             req[p].pc # "idle" /\ minimumGeneration <= req[p].snap.gen =>
               active'.seed = active.seed
    PROVE  req' \in [Requests -> Frame] /\ \A p \in Requests : FrameOK(req[p])'
<1> SUFFICES ASSUME NEW p \in Requests
             PROVE  req'[p] \in Frame /\ FrameOK(req[p])'
  BY DEF NoteSecrets
<1> DEFINE f == req[p]
           s == SecretOf(totpOverlay', active', f.user)
<1>1. f \in Frame /\ FrameOK(f)
  BY DEF TInv, TypeOK
<1>2. s \in Nat
  BY <1>1, FrameTyped, TOTPTyped DEF SecretOf
<1>3. CASE f.pc = "idle"
  <2>1. req'[p] = f
    BY <1>3 DEF NoteSecrets
  <2> QED BY <1>1, <1>3, <2>1 DEF FrameOK
<1>4. CASE f.pc # "idle"
  <2> DEFINE g == [f EXCEPT !.seen = @ \cup {s}]
  <2>1. req'[p] = g
    BY <1>4 DEF NoteSecrets
  <2>2. /\ g.pc = f.pc /\ g.snap = f.snap /\ g.user = f.user /\ g.secret = f.secret
        /\ g.seen = f.seen \cup {s}
    BY <1>1 DEF Frame
  <2>3. g \in Frame
    BY <1>1, <1>2 DEF Frame
  <2>4. f.snap.gen <= active'.gen
    <3>1. f.snap.gen \in Nat /\ active.gen \in Nat /\ active'.gen \in Nat
      BY <1>1, FrameTyped DEF TInv, TypeOK, Snapshot
    <3> QED BY <1>1, <1>4, <3>1 DEF FrameOK
  <2> HIDE DEF g
  <2>5. SecretOf(totpOverlay', active', req'[p].user) = s
    BY <2>1, <2>2
  <2> QED BY <1>1, <1>4, <2>1, <2>2, <2>3, <2>4, <2>5 DEF FrameOK
<1> QED BY <1>3, <1>4

\* While the snapshot stays, nothing else is asked.
LEMMA NotedInPlace ==
    ASSUME TInv, NoteSecrets, UNCHANGED <<minimumGeneration, active>>,
           totpOverlay' \in [Users -> Nat]
    PROVE  req' \in [Requests -> Frame] /\ \A p \in Requests : FrameOK(req[p])'
<1>1. active' \in Snapshot /\ active.gen \in Nat /\ active.gen <= active'.gen
  BY DEF TInv, TypeOK, Snapshot
<1> QED BY <1>1, NotedFrames

\* A ledger entry is dropped: no admission so far belongs to the new epoch.
LEMMA LedgerDropped ==
    ASSUME TInv, NEW U \in SUBSET Users, UNCHANGED admitted,
           totpLastStep' = [u \in Users |-> IF u \in U THEN 0 ELSE totpLastStep[u]],
           epoch' = [u \in Users |-> IF u \in U THEN Cardinality(admitted) ELSE epoch[u]]
    PROVE  /\ Ledger' /\ StepsIncrease'
           /\ totpLastStep' \in [Users -> Nat] /\ epoch' \in [Users -> Nat]
           /\ admitted' \subseteq Admission
<1>1. Cardinality(admitted) \in Nat
  BY AdmissionsCounted DEF TInv, Ledger
<1>2. \A a \in admitted : a.user \in Users /\ a.epoch \in Nat /\ a.n \in Nat
  BY DEF TInv, TypeOK, Admission
<1>3. totpLastStep' \in [Users -> Nat] /\ epoch' \in [Users -> Nat]
  BY <1>1 DEF TInv, TypeOK
<1>4. \A a \in admitted :
        /\ a.epoch < a.n /\ a.n <= Cardinality(admitted)
        /\ a.epoch = epoch'[a.user] => a.code.step <= totpLastStep'[a.user]
  <2> TAKE a \in admitted
  <2>1. a.epoch < a.n /\ a.n <= Cardinality(admitted)
    BY DEF TInv, Ledger
  <2>2. CASE a.user \in U
    BY <1>1, <1>2, <2>1, <2>2
  <2>3. CASE a.user \notin U
    BY <1>2, <2>1, <2>3 DEF TInv, Ledger
  <2> QED BY <2>2, <2>3
<1>5. \A u \in Users : epoch'[u] <= Cardinality(admitted)
  BY <1>1 DEF TInv, Ledger
<1>6. Ledger'
  BY <1>4, <1>5 DEF TInv, Ledger
<1>7. StepsIncrease' /\ admitted' \subseteq Admission
  BY DEF TInv, TypeOK, StepsIncrease
<1> QED BY <1>3, <1>6, <1>7

\* An enrollment replaces the overlay and drops the ledger entry.
LEMMA EnrollStep ==
    ASSUME TInv, NEW u \in Users, EnrollTOTP(u)
    PROVE  TInv'
<1>1. /\ mgr.pc = "idle" /\ u \in DOMAIN active.seed
      /\ totpOverlay' = [totpOverlay EXCEPT ![u] = FirstEnrolled + enrolled]
      /\ totpLastStep' = [totpLastStep EXCEPT ![u] = 0]
      /\ enrolled' = enrolled + 1
      /\ basis' = [basis EXCEPT ![u].overlay = TOTP(active, u)]
      /\ epoch' = [epoch EXCEPT ![u] = Cardinality(admitted)]
      /\ UNCHANGED <<minimumGeneration, active, now, admitted, mgr>>
      /\ NoteSecrets
  BY DEF EnrollTOTP, unrelated
<1>2. /\ totpOverlay \in [Users -> Nat] /\ totpLastStep \in [Users -> Nat]
      /\ epoch \in [Users -> Nat] /\ enrolled \in Nat /\ active \in Snapshot
      /\ basis \in [Users -> [overlay: Nat, ledger: Nat]]
  BY DEF TInv, TypeOK
<1>3. FirstEnrolled + enrolled \in Nat /\ TOTP(active, u) \in Nat
  BY <1>2, FirstEnrolledTyped, TOTPTyped
<1>4. totpOverlay' \in [Users -> Nat] /\ basis' \in [Users -> [overlay: Nat, ledger: Nat]]
  BY <1>1, <1>2, <1>3
<1>5. /\ totpLastStep' = [v \in Users |-> IF v \in {u} THEN 0 ELSE totpLastStep[v]]
      /\ epoch' = [v \in Users |-> IF v \in {u} THEN Cardinality(admitted) ELSE epoch[v]]
  BY <1>1, <1>2
<1>6. /\ Ledger' /\ StepsIncrease'
      /\ totpLastStep' \in [Users -> Nat] /\ epoch' \in [Users -> Nat]
      /\ admitted' \subseteq Admission
  BY <1>1, <1>5, LedgerDropped, ZenonT(30)
<1>7. req' \in [Requests -> Frame] /\ \A p \in Requests : FrameOK(req[p])'
  BY <1>1, <1>4, NotedInPlace
<1>8. TypeOK'
  BY <1>1, <1>2, <1>4, <1>6, <1>7 DEF TInv, TypeOK
<1>9. Stages'
  BY <1>1 DEF TInv, Stages
<1>10. Credentials'
  <2>1. \A v \in Users : MadeUnder(v, active)'
    <3> TAKE v \in Users
    <3>1. MadeUnder(v, active)
      BY <1>1 DEF TInv, Credentials
    <3>2. CASE v = u
      <4>1. basis'[u].overlay = TOTP(active, u) /\ totpLastStep'[u] = 0
        BY <1>1, <1>2, <1>3
      <4> QED BY <1>1, <3>2, <4>1 DEF MadeUnder, TOTP
    <3>3. CASE v # u
      BY <1>1, <1>2, <3>1, <3>3 DEF MadeUnder, TOTP
    <3> QED BY <3>2, <3>3
  <2> QED BY <1>1, <2>1 DEF Credentials
<1> QED BY <1>6, <1>7, <1>8, <1>9, <1>10 DEF TInv

\* Clearing drops overlay and ledger entry of a user; the others keep theirs.
LEMMA ClearOverlay ==
    ASSUME TInv, NEW u \in Users, ClearTOTPOverlay(u), mgr' \in [pc: MgrLabels, cand: Snapshot, todo: SUBSET Users]
    PROVE  /\ TypeOK' /\ Ledger' /\ StepsIncrease'
           /\ \A p \in Requests : FrameOK(req[p])'
           /\ UNCHANGED <<minimumGeneration, active>>
           /\ \A v \in Users : \A snap : v = u \/ MadeUnder(v, snap) =>
                /\ totpOverlay'[v] # 0 => v \in DOMAIN snap.seed /\ basis'[v].overlay = TOTP(snap, v)
                /\ totpLastStep'[v] # 0 => v \in DOMAIN snap.seed /\ basis'[v].ledger = TOTP(snap, v)
<1>1. /\ totpOverlay' = [totpOverlay EXCEPT ![u] = 0]
      /\ totpLastStep' = [totpLastStep EXCEPT ![u] = 0]
      /\ epoch' = [epoch EXCEPT ![u] = Cardinality(admitted)]
      /\ UNCHANGED <<minimumGeneration, active, now, admitted, enrolled, basis>>
      /\ NoteSecrets
  BY DEF ClearTOTPOverlay, unrelated
<1>2. /\ totpOverlay \in [Users -> Nat] /\ totpLastStep \in [Users -> Nat]
      /\ epoch \in [Users -> Nat]
  BY DEF TInv, TypeOK
<1>3. totpOverlay' \in [Users -> Nat]
  BY <1>1, <1>2
<1>4. /\ totpLastStep' = [v \in Users |-> IF v \in {u} THEN 0 ELSE totpLastStep[v]]
      /\ epoch' = [v \in Users |-> IF v \in {u} THEN Cardinality(admitted) ELSE epoch[v]]
  BY <1>1, <1>2
<1>5. /\ Ledger' /\ StepsIncrease'
      /\ totpLastStep' \in [Users -> Nat] /\ epoch' \in [Users -> Nat]
      /\ admitted' \subseteq Admission
  BY <1>1, <1>4, LedgerDropped, ZenonT(30)
<1>6. req' \in [Requests -> Frame] /\ \A p \in Requests : FrameOK(req[p])'
  BY <1>1, <1>3, NotedInPlace
<1>7. TypeOK'
  BY <1>1, <1>3, <1>5, <1>6 DEF TInv, TypeOK
<1>8. \A v \in Users : \A snap : v = u \/ MadeUnder(v, snap) =>
        /\ totpOverlay'[v] # 0 => v \in DOMAIN snap.seed /\ basis'[v].overlay = TOTP(snap, v)
        /\ totpLastStep'[v] # 0 => v \in DOMAIN snap.seed /\ basis'[v].ledger = TOTP(snap, v)
  BY <1>1, <1>2 DEF MadeUnder
<1> QED BY <1>1, <1>5, <1>6, <1>7, <1>8

\* The operator clears the overlay of a user.
LEMMA ClearStep ==
    ASSUME TInv, NEW u \in Users, ClearTOTP(u)
    PROVE  TInv'
<1>1. mgr.pc = "idle" /\ mgr' = mgr /\ ClearTOTPOverlay(u)
  BY DEF ClearTOTP
<1>2. mgr' \in [pc: MgrLabels, cand: Snapshot, todo: SUBSET Users]
  BY <1>1 DEF TInv, TypeOK
<1>3. /\ TypeOK' /\ Ledger' /\ StepsIncrease' /\ \A p \in Requests : FrameOK(req[p])'
      /\ UNCHANGED <<minimumGeneration, active>>
  BY <1>1, <1>2, ClearOverlay
<1>4. \A v \in Users : MadeUnder(v, active)'
  <2>1. \A v \in Users : MadeUnder(v, active)
    BY <1>1 DEF TInv, Credentials
  <2> QED BY <1>1, <1>2, <1>3, <2>1, ClearOverlay DEF MadeUnder, TOTP
<1>5. Stages' /\ Credentials'
  BY <1>1, <1>3, <1>4 DEF TInv, Stages, Credentials
<1> QED BY <1>3, <1>5 DEF TInv


\* A management operation begins by compiling its candidate.
LEMMA BeginStep ==
    ASSUME TInv, NEW d \in Docs, Apply(d) \/ ResetState(d)
    PROVE  TInv'
<1>1. /\ mgr.pc = "idle" /\ mgr'.cand = Candidate(d)
      /\ UNCHANGED <<minimumGeneration, active, now, admitted, totpOverlay, totpLastStep,
                     req, enrolled, basis, epoch>>
  BY DEF Apply, ResetState, unrelated
<1>2. active \in Snapshot /\ active.seed \in Document /\ d \in Document
  BY DocumentAssumption DEF TInv, TypeOK, Snapshot
<1>3. Candidate(d) \in Snapshot /\ Candidate(d).gen = active.gen + 1 /\ Candidate(d).seed = d
  BY <1>2 DEF Candidate, Snapshot
<1>4. Replaced(active.seed, d) \subseteq Users /\ DOMAIN active.seed \subseteq Users
  BY <1>2, DocumentTyped DEF Replaced
<1>5. mgr' \in [pc: MgrLabels, cand: Snapshot, todo: SUBSET Users]
  BY <1>3, <1>4 DEF Apply, ResetState, MgrLabels
<1>6. TypeOK'
  BY <1>1, <1>5 DEF TInv, TypeOK
<1>7. \/ mgr'.pc = "invalidate" /\ Replaced(active.seed, d) \subseteq mgr'.todo
      \/ mgr'.pc = "sync" /\ d = active.seed
      \/ mgr'.pc = "r_invalidate"
  BY DEF Apply, ResetState
<1>8. Stages'
  BY <1>1, <1>3, <1>7 DEF Stages
<1>9. Credentials'
  <2>1. \A u \in Users : MadeUnder(u, active)'
    BY <1>1 DEF TInv, Credentials, MadeUnder, TOTP
  <2>2. mgr'.pc = "sync" => \A u \in Users : MadeUnder(u, mgr.cand)'
    BY <1>1, <1>3, <1>7, <2>1 DEF MadeUnder, TOTP
  <2> QED BY <1>7, <2>1, <2>2 DEF Credentials
<1>10. \A p \in Requests : FrameOK(req[p])'
  BY <1>1 DEF TInv, FrameOK, SecretOf, TOTP
<1>11. Ledger' /\ StepsIncrease'
  BY <1>1 DEF TInv, Ledger, StepsIncrease
<1> QED BY <1>6, <1>8, <1>9, <1>10, <1>11 DEF TInv

\* From here on no frame is admissible: their snapshots are older.
LEMMA InvalidateStep ==
    ASSUME TInv, ApplyInvalidate \/ ResetInvalidate
    PROVE  TInv'
<1>1. /\ mgr.pc \in {"invalidate", "r_invalidate"}
      /\ minimumGeneration' = mgr.cand.gen
      /\ UNCHANGED <<totpOverlay, totpLastStep, active, now, req, enrolled, basis, epoch,
                     admitted>>
  BY DEF ApplyInvalidate, ResetInvalidate, InvalidateBefore
<1>2. mgr \in [pc: MgrLabels, cand: Snapshot, todo: SUBSET Users]
  BY DEF TInv, TypeOK
<1>3. \/ mgr.pc = "invalidate" /\ mgr' = [mgr EXCEPT !.pc = "sync"]
      \/ mgr.pc = "r_invalidate" /\ mgr' = [mgr EXCEPT !.pc = "r_reset"]
  BY DEF ApplyInvalidate, ResetInvalidate, InvalidateBefore
<1>4. /\ mgr'.cand = mgr.cand /\ mgr'.todo = mgr.todo
      /\ mgr' \in [pc: MgrLabels, cand: Snapshot, todo: SUBSET Users]
      /\ mgr'.pc = IF mgr.pc = "invalidate" THEN "sync" ELSE "r_reset"
  BY <1>2, <1>3 DEF MgrLabels
<1>5. mgr.cand.gen = active.gen + 1 /\ active.gen \in Nat /\ mgr.cand.gen \in Nat
  BY <1>1, <1>2 DEF TInv, Stages, TypeOK, Snapshot
<1>6. TypeOK'
  BY <1>1, <1>4, <1>5 DEF TInv, TypeOK
<1>7. Stages'
  BY <1>1, <1>4, <1>5 DEF Stages
<1>8. Credentials'
  <2> SUFFICES ASSUME mgr'.pc = "sync", NEW u \in Users \ mgr.todo
               PROVE  MadeUnder(u, mgr.cand)'
    BY <1>1, <1>4 DEF Credentials
  <2>1. mgr.pc = "invalidate"
    BY <1>4
  <2>2. MadeUnder(u, active) /\ u \notin Replaced(active.seed, mgr.cand.seed)
    BY <2>1 DEF TInv, Credentials, Stages
  <2>3. MadeUnder(u, mgr.cand)
    BY <2>2, KeptSeed
  <2> QED BY <1>1, <1>4, <2>3 DEF MadeUnder, TOTP
<1>9. \A p \in Requests : FrameOK(req[p])'
  <2> SUFFICES ASSUME NEW p \in Requests, req[p].pc # "idle"
               PROVE  FrameOK(req[p])'
    BY <1>1 DEF FrameOK
  <2>1. req[p] \in Frame /\ FrameOK(req[p])
    BY DEF TInv, TypeOK
  <2>2. ~(minimumGeneration' <= req[p].snap.gen)
    BY <1>1, <1>5, <2>1, FrameTyped DEF FrameOK
  <2> QED BY <1>1, <2>1, <2>2 DEF FrameOK, SecretOf, TOTP
<1>10. Ledger' /\ StepsIncrease'
  BY <1>1 DEF TInv, Ledger, StepsIncrease
<1> QED BY <1>6, <1>7, <1>8, <1>9, <1>10 DEF TInv

\* One user's entries are dropped: those that remain are of the candidate.
LEMMA SyncStep ==
    ASSUME TInv, NEW u \in Users, syncTOTPOverlay(u)
    PROVE  TInv'
<1>1. mgr.pc = "sync" /\ mgr' = [mgr EXCEPT !.todo = @ \ {u}] /\ ClearTOTPOverlay(u)
  BY DEF syncTOTPOverlay
<1>2. mgr \in [pc: MgrLabels, cand: Snapshot, todo: SUBSET Users]
  BY DEF TInv, TypeOK
<1>3. /\ mgr' \in [pc: MgrLabels, cand: Snapshot, todo: SUBSET Users]
      /\ mgr'.pc = "sync" /\ mgr'.cand = mgr.cand /\ mgr'.todo = mgr.todo \ {u}
  BY <1>1, <1>2
<1>4. /\ TypeOK' /\ Ledger' /\ StepsIncrease' /\ \A p \in Requests : FrameOK(req[p])'
      /\ UNCHANGED <<minimumGeneration, active>>
  BY <1>1, <1>3, ClearOverlay
<1>5. \A v \in Users \ mgr'.todo : MadeUnder(v, mgr.cand)'
  <2>1. \A v \in Users \ mgr'.todo : v = u \/ MadeUnder(v, mgr.cand)
    BY <1>1, <1>3 DEF TInv, Credentials
  <2> QED BY <1>1, <1>3, <2>1, ClearOverlay DEF MadeUnder, TOTP
<1>6. Stages' /\ Credentials'
  BY <1>1, <1>3, <1>4, <1>5 DEF TInv, Stages, Credentials
<1> QED BY <1>4, <1>6 DEF TInv

\* Runtime.Reset drops all entries.
LEMMA ResetRuntimeStep ==
    ASSUME TInv, ResetRuntime
    PROVE  TInv'
<1>1. /\ mgr.pc = "r_reset" /\ mgr' = [mgr EXCEPT !.pc = "r_swap"]
      /\ totpOverlay' = [u \in Users |-> 0] /\ totpLastStep' = [u \in Users |-> 0]
      /\ epoch' = [u \in Users |-> Cardinality(admitted)]
      /\ UNCHANGED <<minimumGeneration, active, now, admitted, enrolled, basis>>
      /\ NoteSecrets
  BY DEF ResetRuntime, unrelated
<1>2. mgr \in [pc: MgrLabels, cand: Snapshot, todo: SUBSET Users]
  BY DEF TInv, TypeOK
<1>3. /\ mgr' \in [pc: MgrLabels, cand: Snapshot, todo: SUBSET Users]
      /\ mgr'.pc = "r_swap" /\ mgr'.cand = mgr.cand
  BY <1>1, <1>2 DEF MgrLabels
<1>4. totpOverlay' \in [Users -> Nat]
  BY <1>1
<1>5. /\ totpLastStep' = [u \in Users |-> IF u \in Users THEN 0 ELSE totpLastStep[u]]
      /\ epoch' = [u \in Users |-> IF u \in Users THEN Cardinality(admitted) ELSE epoch[u]]
  BY <1>1
<1>6. /\ Ledger' /\ StepsIncrease'
      /\ totpLastStep' \in [Users -> Nat] /\ epoch' \in [Users -> Nat]
      /\ admitted' \subseteq Admission
  BY <1>1, <1>5, LedgerDropped
<1>7. req' \in [Requests -> Frame] /\ \A p \in Requests : FrameOK(req[p])'
  BY <1>1, <1>4, NotedInPlace
<1>8. TypeOK'
  BY <1>1, <1>3, <1>4, <1>6, <1>7 DEF TInv, TypeOK
<1>9. Stages' /\ Credentials'
  BY <1>1, <1>3 DEF TInv, Stages, Credentials, MadeUnder
<1> QED BY <1>6, <1>7, <1>8, <1>9 DEF TInv

\* The candidate becomes the active snapshot.
LEMMA SwapStep ==
    ASSUME TInv, ApplySwap \/ ResetSwap
    PROVE  TInv'
<1>1. /\ (mgr.pc = "sync" /\ mgr.todo = {}) \/ mgr.pc = "r_swap"
      /\ active' = mgr.cand /\ mgr' = [mgr EXCEPT !.pc = "idle"]
      /\ UNCHANGED <<minimumGeneration, totpOverlay, totpLastStep, now, enrolled, basis,
                     epoch, admitted>>
      /\ NoteSecrets
  BY DEF ApplySwap, ResetSwap, Swap
<1>2. mgr \in [pc: MgrLabels, cand: Snapshot, todo: SUBSET Users] /\ active \in Snapshot
  BY DEF TInv, TypeOK
<1>3. /\ mgr' \in [pc: MgrLabels, cand: Snapshot, todo: SUBSET Users] /\ mgr'.pc = "idle"
      /\ active' \in Snapshot /\ active.gen \in Nat /\ active'.gen = active.gen + 1
  BY <1>1, <1>2 DEF TInv, Stages, MgrLabels, Snapshot
<1>4. minimumGeneration = mgr.cand.gen \/ mgr.cand.seed = active.seed
  BY <1>1 DEF TInv, Stages
<1>5. \A p \in Requests :
        req[p].pc # "idle" /\ minimumGeneration <= req[p].snap.gen =>
          active'.seed = active.seed
  <2> TAKE p \in Requests
  <2> HAVE req[p].pc # "idle" /\ minimumGeneration <= req[p].snap.gen
  <2>1. req[p] \in Frame /\ req[p].snap.gen <= active.gen
    BY DEF TInv, TypeOK, FrameOK
  <2>2. minimumGeneration # mgr.cand.gen
    BY <1>1, <1>3, <2>1, FrameTyped
  <2> QED BY <1>1, <1>4, <2>2
<1>6. req' \in [Requests -> Frame] /\ \A p \in Requests : FrameOK(req[p])'
  <2>1. active.gen <= active'.gen /\ totpOverlay' \in [Users -> Nat]
    BY <1>1, <1>3 DEF TInv, TypeOK
  <2> QED BY <1>1, <1>3, <1>5, <2>1, NotedFrames
<1>7. TypeOK'
  BY <1>1, <1>3, <1>6 DEF TInv, TypeOK
<1>8. Stages' /\ Credentials'
  <2>1. \A u \in Users : MadeUnder(u, mgr.cand)
    BY <1>1 DEF TInv, Credentials
  <2>2. \A u \in Users : MadeUnder(u, active)'
    BY <1>1, <2>1 DEF MadeUnder, TOTP
  <2> QED BY <1>3, <2>2 DEF Stages, Credentials
<1>9. Ledger' /\ StepsIncrease'
  BY <1>1 DEF TInv, Ledger, StepsIncrease
<1> QED BY <1>6, <1>7, <1>8, <1>9 DEF TInv

\* The clock, and steps that change nothing.
LEMMA IdleSteps ==
    ASSUME TInv, Tick \/ UNCHANGED vars
    PROVE  TInv'
<1>1. /\ UNCHANGED <<minimumGeneration, totpOverlay, active, req, mgr, enrolled,
                     totpLastStep, basis, epoch, admitted>>
      /\ now' = now \/ now' = now + 1
  BY DEF Tick, vars, ledger
<1>2. TypeOK'
  BY <1>1 DEF TInv, TypeOK
<1> QED BY <1>1, <1>2 DEF TInv, Stages, Credentials, MadeUnder, FrameOK, SecretOf, TOTP,
           Ledger, StepsIncrease

-----------------------------------------------------------------------------
(* The theorems.                                                           *)

\* The invariant is inductive.
LEMMA TotpPreserves == TInv /\ [Next]_vars => TInv'
<1> SUFFICES ASSUME TInv, [Next]_vars PROVE TInv'
  OBVIOUS
<1>1. ASSUME NEW p \in Requests,
             \/ Refuse(p) \/ Login(p) \/ totpSecret(p) \/ Verify(p)
             \/ VerifyAndRecordTOTPGeneration(p)
      PROVE  TInv'
  BY <1>1, IdleSteps, LoginStep, ReadStep, VerifyStep, RecordStep DEF Refuse
<1>2. ASSUME NEW u \in Users, EnrollTOTP(u) \/ ClearTOTP(u) \/ syncTOTPOverlay(u)
      PROVE  TInv'
  BY <1>2, EnrollStep, ClearStep, SyncStep
<1>3. ASSUME NEW d \in Docs, Apply(d) \/ ResetState(d)
      PROVE  TInv'
  BY <1>3, BeginStep
<1>4. CASE ApplyInvalidate \/ ResetInvalidate
  BY <1>4, InvalidateStep
<1>5. CASE ApplySwap \/ ResetSwap
  BY <1>5, SwapStep
<1>6. CASE ResetRuntime
  BY <1>6, ResetRuntimeStep
<1>7. CASE Tick \/ UNCHANGED vars
  BY <1>7, IdleSteps
<1> QED BY <1>1, <1>2, <1>3, <1>4, <1>5, <1>6, <1>7 DEF Next

\* The invariant holds in every behaviour.
THEOREM TotpInvariance == Spec => []TInv
BY TotpInit, TotpPreserves, PTL DEF Spec

\* Overlay, ledger, snapshots and frames keep their types.
THEOREM TotpTypeCorrect == Spec => []TypeOK
<1>1. TInv => TypeOK
  BY DEF TInv
<1> QED BY <1>1, TotpInvariance, PTL

\* No overlay and no ledger entry outlives the seed it was made under.
THEOREM CredentialsAreCurrent == Spec => []CredentialStateCurrent
<1>1. TInv => CredentialStateCurrent
  BY DEF TInv, Credentials, MadeUnder, CredentialStateCurrent
<1> QED BY <1>1, TotpInvariance, PTL

\* Between two drops of a user's ledger entry no time step is accepted twice,
\* nor an older one after a newer.  A drop starts over, also when the user's
\* secret stays in force.
THEOREM StepsAlwaysIncrease == Spec => []StepsIncrease
<1>1. TInv => StepsIncrease
  BY DEF TInv
<1> QED BY <1>1, TotpInvariance, PTL

\* Who may start over: the ledger entry of a user is lowered or dropped by
\* enrolment, clearing, a change of the user's seed or reference, or a reset,
\* and never by a login.
THEOREM OnlyOperatorsDrop ==
    Spec => [][\A u \in Users :
                 totpLastStep'[u] < totpLastStep[u] \/ epoch'[u] # epoch[u] =>
                   EnrollTOTP(u) \/ ClearTOTP(u) \/ syncTOTPOverlay(u) \/ ResetRuntime]_vars
<1> DEFINE Dropped(u) == totpLastStep'[u] < totpLastStep[u] \/ epoch'[u] # epoch[u]
           Drops(u) == EnrollTOTP(u) \/ ClearTOTP(u) \/ syncTOTPOverlay(u) \/ ResetRuntime
<1>1. ASSUME TInv, Next, NEW u \in Users, Dropped(u) PROVE Drops(u)
  <2>1. totpLastStep \in [Users -> Nat] /\ epoch \in [Users -> Nat] /\ totpLastStep[u] \in Nat
    BY <1>1 DEF TInv, TypeOK
  <2>2. ~UNCHANGED <<totpLastStep, epoch>>
    BY <1>1, <2>1
  <2>3. CASE \E p \in Requests : VerifyAndRecordTOTPGeneration(p)
    <3>1. PICK p \in Requests : VerifyAndRecordTOTPGeneration(p)
      BY <2>3
    <3>2. /\ epoch' = epoch
          /\ \/ totpLastStep' = totpLastStep
             \/ /\ Admissible(req[p])
                /\ totpLastStep' = [totpLastStep EXCEPT ![req[p].user] = req[p].code.step]
      BY <3>1 DEF VerifyAndRecordTOTPGeneration
    <3>3. req[p] \in Frame
      BY <1>1 DEF TInv, TypeOK
    <3>4. req[p].user \in Users /\ req[p].code.step \in Nat
      BY <3>3, FrameTyped
    <3>5. totpLastStep[u] <= totpLastStep'[u] /\ totpLastStep'[u] \in Nat
      BY <2>1, <3>2, <3>4 DEF Admissible
    <3> QED BY <1>1, <2>1, <3>2, <3>5
  <2>4. CASE \E v \in Users : EnrollTOTP(v) \/ ClearTOTP(v) \/ syncTOTPOverlay(v)
    <3>1. PICK v \in Users : EnrollTOTP(v) \/ ClearTOTP(v) \/ syncTOTPOverlay(v)
      BY <2>4
    <3>2. /\ totpLastStep' = [totpLastStep EXCEPT ![v] = 0]
          /\ epoch' = [epoch EXCEPT ![v] = Cardinality(admitted)]
      BY <3>1 DEF EnrollTOTP, ClearTOTP, syncTOTPOverlay, ClearTOTPOverlay
    <3>3. u = v
      BY <1>1, <2>1, <3>2
    <3> QED BY <3>1, <3>3
  <2> QED BY <1>1, <2>2, <2>3, <2>4 DEF Next, Refuse, Login, totpSecret, Verify, Apply,
             ResetState, ApplyInvalidate, ApplySwap, ResetInvalidate, ResetSwap, Swap,
             InvalidateBefore, Tick, management, ledger, unrelated, vars
<1>2. TInv /\ [Next]_vars => [\A u \in Users : Dropped(u) => Drops(u)]_vars
  BY <1>1
<1> QED BY <1>2, TotpInvariance, PTL DEF Spec

\* A code is accepted only if its secret was in force since the login arrived.
THEOREM AcceptedInForce == Spec => AcceptedSecretWasInForce
<1>1. TInv /\ [Next]_vars =>
        [\A p \in Requests :
            admitted' # admitted /\ req'[p] # req[p] => req[p].secret \in req[p].seen]_vars
  <2> SUFFICES ASSUME TInv, Next, admitted' # admitted, NEW p \in Requests, req'[p] # req[p]
               PROVE  req[p].secret \in req[p].seen
    OBVIOUS
  <2>1. PICK q \in Requests : VerifyAndRecordTOTPGeneration(q)
    BY DEF Next, Refuse, Login, totpSecret, Verify, EnrollTOTP, ClearTOTP, syncTOTPOverlay,
       ClearTOTPOverlay, Apply, ResetState, ApplyInvalidate, ApplySwap, ResetInvalidate,
       ResetRuntime, ResetSwap, Swap, InvalidateBefore, Tick, management, ledger, unrelated,
       vars
  <2>2. Admissible(req[q]) /\ req[q].pc = "record"
    BY <2>1 DEF VerifyAndRecordTOTPGeneration, At
  <2>3. p = q
    BY <2>1 DEF VerifyAndRecordTOTPGeneration, Become, TInv, TypeOK
  <2>4. req[p] \in Frame /\ FrameOK(req[p]) /\ minimumGeneration \in Nat
    BY DEF TInv, TypeOK
  <2>5. minimumGeneration <= req[p].snap.gen
    BY <2>2, <2>3, <2>4, FrameTyped DEF Admissible
  <2> QED BY <2>2, <2>3, <2>4, <2>5 DEF FrameOK
<1> QED BY <1>1, TotpInvariance, PTL DEF Spec, AcceptedSecretWasInForce


=============================================================================
