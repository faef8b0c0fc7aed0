------------------------------- MODULE Totp --------------------------------
(***************************************************************************)
(* The second factor: the TOTP overlay and the replay ledger of            *)
(* oidc.Runtime, the login requests that verify a code against them, and   *)
(* the management operations that replace either (enroll, clear, a         *)
(* configuration change, a reset).  The MFA mode is "always" throughout.   *)
(*                                                                         *)
(* A login reads the user's secret in one critical section, verifies the   *)
(* code outside the mutex and records the time step in another one, so     *)
(* every other operation may fall in between.                              *)
(*                                                                         *)
(* Abstractions.  A secret is a number, 0 for none; enrolling draws a      *)
(* number never used before.  The code of a secret at a time step is the   *)
(* pair of the two: codes of different pairs do not collide.               *)
(***************************************************************************)
EXTENDS Naturals, FiniteSets

CONSTANTS
    Users,      \* user IDs
    Requests,   \* concurrent login requests
    Seeds,      \* secrets that configuration files hold
    Docs,       \* configuration documents: the seed of each user they define
    Boot,       \* the bootstrap document
    Knobs,      \* the operations that are exercised
    MaxNow,     \* bound on the time step
    MaxGen,     \* bound on the snapshot generation
    MaxEnroll,  \* bound on the number of enrollments
    MaxLogins   \* bound on the number of admitted logins

\* A user that is not configured, or has no totpSecretRef, has no seed.
Document == UNION {[S -> Seeds \cup {0}] : S \in SUBSET Users}
AllKnobs == {"enroll", "clear", "apply", "reset"}

\* The frame of an idle request names some user.
ASSUME UsersAssumption == Users # {}
\* The configuration files hold finitely many secrets: there is a greatest.
ASSUME SeedsAssumption ==
    /\ Seeds \subseteq Nat \ {0}
    /\ \E s \in Seeds \cup {0} : \A t \in Seeds : t <= s
ASSUME DocumentAssumption == Docs \subseteq Document /\ Boot \in Docs
ASSUME KnobAssumption == Knobs \subseteq AllKnobs
ASSUME LimitAssumption == {MaxNow, MaxGen, MaxEnroll, MaxLogins} \subseteq Nat

VARIABLES
    minimumGeneration,
    totpOverlay,    \* enrolled secret of each user, 0 if none
    totpLastStep,   \* last accepted step of each user, 0 if none
    active,         \* the published snapshot
    now,            \* the current time step
    req,            \* login frames
    mgr,            \* the management operation that holds App.mu
    enrolled,       \* how many secrets were generated
    basis,          \* history: the seed in force when a user's overlay or
                    \* ledger entry was made
    epoch,          \* history: the admissions before a user's ledger entry
                    \* was last dropped
    admitted        \* history: accepted codes

vars == <<minimumGeneration, totpOverlay, totpLastStep, active, now, req, mgr,
          enrolled, basis, epoch, admitted>>

Snapshot == [gen: Nat, seed: Document]
Code == [secret: Nat, step: Nat]
Frame == [pc: {"idle", "read", "verify", "record"}, snap: Snapshot,
          user: Users, code: Code, secret: Nat, seen: SUBSET Nat]
MgrLabels == {"idle", "invalidate", "sync", "swap", "r_invalidate", "r_reset", "r_swap"}
Admission == [n: Nat, user: Users, code: Code, epoch: Nat]

TypeOK ==
    /\ minimumGeneration \in Nat
    /\ totpOverlay \in [Users -> Nat] /\ totpLastStep \in [Users -> Nat]
    /\ active \in Snapshot
    /\ now \in Nat
    /\ req \in [Requests -> Frame]
    /\ mgr \in [pc: MgrLabels, cand: Snapshot, todo: SUBSET Users]
    /\ enrolled \in Nat
    /\ basis \in [Users -> [overlay: Nat, ledger: Nat]]
    /\ epoch \in [Users -> Nat]
    /\ admitted \subseteq Admission

\* Snapshot.TOTP: the compiled seed of a user, 0 if there is none.
TOTP(snap, u) == IF u \in DOMAIN snap.seed THEN snap.seed[u] ELSE 0

\* Enrolled secrets follow the configured ones.
FirstEnrolled == 1 + CHOOSE s \in Seeds \cup {0} : \A t \in Seeds : t <= s
Known == Seeds \cup {FirstEnrolled + i : i \in 0 .. (enrolled - 1)}

BootSnapshot == [gen |-> 1, seed |-> Boot]
Idle == [pc |-> "idle", snap |-> BootSnapshot, user |-> CHOOSE u \in Users : TRUE,
         code |-> [secret |-> 0, step |-> 0], secret |-> 0, seen |-> {}]

Init ==
    /\ minimumGeneration = 0
    /\ totpOverlay = [u \in Users |-> 0] /\ totpLastStep = [u \in Users |-> 0]
    /\ active = BootSnapshot
    /\ now = 2
    /\ req = [p \in Requests |-> Idle]
    /\ mgr = [pc |-> "idle", cand |-> BootSnapshot, todo |-> {}]
    /\ enrolled = 0
    /\ basis = [u \in Users |-> [overlay |-> 0, ledger |-> 0]]
    /\ epoch = [u \in Users |-> 0]
    /\ admitted = {}

\* The secret of a user: the overlay wins over the snapshot's seed.
SecretOf(overlay, snap, u) == IF overlay[u] # 0 THEN overlay[u] ELSE TOTP(snap, u)

\* History: a login under way notes every secret that comes into force.
NoteSecrets ==
    req' = [p \in Requests |->
              IF req[p].pc = "idle" THEN req[p]
              ELSE [req[p] EXCEPT !.seen = @ \cup {SecretOf(totpOverlay', active', req[p].user)}]]

-----------------------------------------------------------------------------
(* POST /login with a code.                                                *)

At(p, label) == req[p].pc = label
Become(p, frame) == req' = [req EXCEPT ![p] = frame]
management == <<minimumGeneration, totpOverlay, active, now, mgr, enrolled>>
ledger == <<totpLastStep, basis, epoch, admitted>>

Login(p) ==
    /\ At(p, "idle") /\ Cardinality(admitted) < MaxLogins
    /\ \E u \in DOMAIN active.seed, s \in Known, t \in 1 .. (MaxNow + 1) :
         Become(p, [pc |-> "read", snap |-> active, user |-> u,
                    code |-> [secret |-> s, step |-> t],
                    secret |-> 0, seen |-> {SecretOf(totpOverlay, active, u)}])
    /\ UNCHANGED <<management, ledger>>

\* A login refused before its code is looked at (rate limit, unknown flow,
\* wrong password, no code yet) leaves no trace.
Refuse(p) == At(p, "idle") /\ UNCHANGED vars

\* Mutant: the seed wins over the overlay.
totpSecretSeedFirst(p) ==
    /\ At(p, "read")
    /\ LET u == req[p].user
           seed == TOTP(req[p].snap, u)
           secret == IF seed # 0 THEN seed ELSE totpOverlay[u]
       IN  Become(p, IF secret = 0 THEN Idle
                     ELSE [req[p] EXCEPT !.pc = "verify", !.secret = secret])
    /\ UNCHANGED <<management, ledger>>

\* totpSecret reads the overlay; a user without any secret fails closed.
totpSecret(p) ==
    /\ At(p, "read")
    /\ LET u == req[p].user
           secret == SecretOf(totpOverlay, req[p].snap, u)
       IN  Become(p, IF secret = 0 THEN Idle
                     ELSE [req[p] EXCEPT !.pc = "verify", !.secret = secret])
    /\ UNCHANGED <<management, ledger>>

\* totp.Verify: the code of this secret for the current step or a neighbour.
Verify(p) ==
    /\ At(p, "verify")
    /\ LET c == req[p].code
           good == c.secret = req[p].secret /\ c.step \in {now - 1, now, now + 1}
       IN  Become(p, IF good THEN [req[p] EXCEPT !.pc = "record"] ELSE Idle)
    /\ UNCHANGED <<management, ledger>>

\* Mutant: a step may be accepted again.
AdmissibleTwice(f) ==
    f.snap.gen >= minimumGeneration /\ f.code.step >= totpLastStep[f.user]

Admissible(f) ==
    f.snap.gen >= minimumGeneration /\ f.code.step > totpLastStep[f.user]

VerifyAndRecordTOTPGeneration(p) ==
    /\ At(p, "record")
    /\ Become(p, Idle)
    /\ LET f == req[p]
       IN  \/ /\ Admissible(f)
              /\ totpLastStep' = [totpLastStep EXCEPT ![f.user] = f.code.step]
              /\ basis' = [basis EXCEPT ![f.user].ledger = TOTP(f.snap, f.user)]
              /\ admitted' = admitted \cup
                   {[n |-> Cardinality(admitted) + 1, user |-> f.user,
                     code |-> f.code, epoch |-> epoch[f.user]]}
           \/ ~Admissible(f) /\ UNCHANGED <<totpLastStep, basis, admitted>>
    /\ UNCHANGED <<management, epoch>>

-----------------------------------------------------------------------------
(* Management, under App.mu.                                               *)

unrelated == <<minimumGeneration, active, now, admitted>>

EnrollTOTP(u) ==
    /\ "enroll" \in Knobs /\ mgr.pc = "idle" /\ enrolled < MaxEnroll
    /\ u \in DOMAIN active.seed
    /\ totpOverlay' = [totpOverlay EXCEPT ![u] = FirstEnrolled + enrolled]
    /\ totpLastStep' = [totpLastStep EXCEPT ![u] = 0]
    /\ enrolled' = enrolled + 1
    /\ basis' = [basis EXCEPT ![u].overlay = TOTP(active, u)]
    /\ epoch' = [epoch EXCEPT ![u] = Cardinality(admitted)]
    /\ UNCHANGED <<unrelated, mgr>>
    /\ NoteSecrets

\* Mutant: the user's entry leaves the map.
ClearTOTPOverlayEntry(u) ==
    /\ totpOverlay' = [v \in Users \ {u} |-> totpOverlay[v]]
    /\ totpLastStep' = [totpLastStep EXCEPT ![u] = 0]
    /\ epoch' = [epoch EXCEPT ![u] = Cardinality(admitted)]
    /\ UNCHANGED <<unrelated, enrolled, basis, req>>

ClearTOTPOverlay(u) ==
    /\ totpOverlay' = [totpOverlay EXCEPT ![u] = 0]
    /\ totpLastStep' = [totpLastStep EXCEPT ![u] = 0]
    /\ epoch' = [epoch EXCEPT ![u] = Cardinality(admitted)]
    /\ UNCHANGED <<unrelated, enrolled, basis>>
    /\ NoteSecrets

ClearTOTP(u) ==
    /\ "clear" \in Knobs /\ mgr.pc = "idle"
    /\ u \in DOMAIN active.seed
    /\ ClearTOTPOverlay(u)
    /\ UNCHANGED mgr

\* Mutant: a user the candidate no longer defines keeps the overlay.
ReplacedIfKept(old, new) ==
    {u \in DOMAIN old \cap DOMAIN new : old[u] # new[u]}

\* The users that lose their seed or get another one.
Replaced(old, new) ==
    {u \in DOMAIN old : u \notin DOMAIN new \/ old[u] # new[u]}

Candidate(d) == [gen |-> active.gen + 1, seed |-> d]

\* syncTOTPOverlay drops the entries of replaced users, and of those whose
\* totpSecretRef now names the same secret by another reference.  Both change
\* the users, which is security-sensitive; the change may be so in another way.
Apply(d) ==
    /\ "apply" \in Knobs /\ mgr.pc = "idle" /\ active.gen < MaxGen
    /\ \E renamed \in SUBSET {u \in DOMAIN active.seed : active.seed[u] # 0},
          otherwise \in BOOLEAN :
         mgr' = [cand |-> Candidate(d), todo |-> Replaced(active.seed, d) \cup renamed,
                 pc |-> IF d # active.seed \/ renamed # {} \/ otherwise
                        THEN "invalidate" ELSE "sync"]
    /\ UNCHANGED <<unrelated, totpOverlay, totpLastStep, req, enrolled, basis, epoch>>

InvalidateBefore(label) ==
    /\ minimumGeneration' = mgr.cand.gen
    /\ mgr' = [mgr EXCEPT !.pc = label]
    /\ UNCHANGED <<totpOverlay, totpLastStep, active, now, req, enrolled,
                   basis, epoch, admitted>>

ApplyInvalidate == mgr.pc = "invalidate" /\ InvalidateBefore("sync")

\* One user of the loop in syncTOTPOverlay; a Go map has no order.
syncTOTPOverlay(u) ==
    /\ mgr.pc = "sync" /\ u \in mgr.todo
    /\ ClearTOTPOverlay(u)
    /\ mgr' = [mgr EXCEPT !.todo = @ \ {u}]

Swap ==
    /\ active' = mgr.cand
    /\ mgr' = [mgr EXCEPT !.pc = "idle"]
    /\ UNCHANGED <<minimumGeneration, totpOverlay, totpLastStep, now, enrolled,
                   basis, epoch, admitted>>
    /\ NoteSecrets

ApplySwap == mgr.pc = "sync" /\ mgr.todo = {} /\ Swap

ResetState(d) ==
    /\ "reset" \in Knobs /\ mgr.pc = "idle" /\ active.gen < MaxGen
    /\ mgr' = [cand |-> Candidate(d), todo |-> {}, pc |-> "r_invalidate"]
    /\ UNCHANGED <<unrelated, totpOverlay, totpLastStep, req, enrolled, basis, epoch>>

ResetInvalidate == mgr.pc = "r_invalidate" /\ InvalidateBefore("r_reset")

\* Runtime.Reset drops every overlay and ledger entry.
ResetRuntime ==
    /\ mgr.pc = "r_reset"
    /\ totpOverlay' = [u \in Users |-> 0] /\ totpLastStep' = [u \in Users |-> 0]
    /\ epoch' = [u \in Users |-> Cardinality(admitted)]
    /\ mgr' = [mgr EXCEPT !.pc = "r_swap"]
    /\ UNCHANGED <<unrelated, enrolled, basis>>
    /\ NoteSecrets

ResetSwap == mgr.pc = "r_swap" /\ Swap

Tick ==
    /\ now < MaxNow
    /\ now' = now + 1
    /\ UNCHANGED <<minimumGeneration, totpOverlay, active, req, mgr, enrolled, ledger>>

Next ==
    \/ \E p \in Requests :
         \/ Refuse(p) \/ Login(p) \/ totpSecret(p) \/ Verify(p)
         \/ VerifyAndRecordTOTPGeneration(p)
    \/ \E u \in Users : EnrollTOTP(u) \/ ClearTOTP(u) \/ syncTOTPOverlay(u)
    \/ \E d \in Docs : Apply(d) \/ ResetState(d)
    \/ ApplyInvalidate \/ ApplySwap
    \/ ResetInvalidate \/ ResetRuntime \/ ResetSwap
    \/ Tick

Spec == Init /\ [][Next]_vars

-----------------------------------------------------------------------------
(* Properties.                                                             *)

\* A code that is accepted belongs to a secret that was in force at some
\* moment since the login arrived: a request delayed past a configuration
\* change or a reset cannot authenticate with what the change replaced.
AcceptedSecretWasInForce ==
    [][\A p \in Requests :
          admitted' # admitted /\ req'[p] # req[p] => req[p].secret \in req[p].seen]_vars

\* Between configuration changes every overlay and every ledger entry of a
\* user was made while the user's present seed was configured: replacing a
\* seed or removing a user leaves neither behind, and no delayed login spends
\* a time step of the fresh seed.
CredentialStateCurrent ==
    mgr.pc = "idle" => \A u \in Users :
        /\ totpOverlay[u] # 0 => u \in DOMAIN active.seed
                                 /\ basis[u].overlay = TOTP(active, u)
        /\ totpLastStep[u] # 0 => u \in DOMAIN active.seed
                                  /\ basis[u].ledger = TOTP(active, u)

\* Until an operator action drops the ledger entry, accepted steps of a user
\* strictly increase: no step is accepted twice, nor an older one after a
\* newer one, however many logins verified it concurrently.
StepsIncrease ==
    \A a, b \in admitted :
        /\ a.user = b.user /\ a.epoch = b.epoch /\ a.n < b.n
        => a.code.step < b.code.step

=============================================================================
