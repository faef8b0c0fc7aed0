------------------------------ MODULE Runtime ------------------------------
(***************************************************************************)
(* The in-memory protocol tables of LabSSO (internal/oidc/runtime.go): the *)
(* pending authorization requests, authorization codes, refresh grants and *)
(* login sessions that every data-plane handler shares, the generation     *)
(* below which nothing may be stored, and the operator's runtime tunables. *)
(* Every method of oidc.Runtime runs under one mutex, so each is one       *)
(* operator here and its use is one atomic step of a composing module.     *)
(*                                                                         *)
(* Abstractions.  A handle (randomID) is a number that is never reused.    *)
(* A "client" is one registration the configuration admits: a client with  *)
(* the redirect URI or ACS URL and the scope of the flow.  Time appears as *)
(* the set of handles whose lifetime has run out.                          *)
(***************************************************************************)
EXTENDS Naturals, FiniteSets

CONSTANTS
    Users,      \* user IDs
    Clients,    \* client registrations
    Cap,        \* rows per table (4096 in the code)
    None        \* no user, no client

ASSUME CapAssumption == Cap \in Nat \ {0}
ASSUME NoneAssumption == None \notin Users /\ None \notin Clients

VARIABLES
    minimumGeneration,  \* rows of an older generation are refused
    pending,            \* authorization requests waiting for a login
    codes,              \* authorization codes
    refresh,            \* refresh grants
    sessions,           \* login sessions
    expired,            \* handles past their lifetime
    nextID,             \* the next fresh handle
    paused, forceFail, forceConsent, inject     \* runtime tunables

tables == <<pending, codes, refresh, sessions>>
tunables == <<paused, forceFail, forceConsent, inject>>
runtimeVars == <<minimumGeneration, tables, expired, nextID, tunables>>

Protocols == {"oidc", "saml", "wsfed"}

Handle == Nat \ {0}

Pending == [id: Handle, gen: Nat, client: Clients, protocol: Protocols]
AuthCode == [id: Handle, gen: Nat, client: Clients, user: Users,
             mfa: BOOLEAN, sid: Nat]
Refresh == AuthCode
LoginSession == [id: Handle, gen: Nat, user: Users, mfa: BOOLEAN]

RuntimeTypeOK ==
    /\ minimumGeneration \in Nat
    /\ pending \subseteq Pending
    /\ codes \subseteq AuthCode
    /\ refresh \subseteq Refresh
    /\ sessions \subseteq LoginSession
    /\ expired \subseteq Handle
    /\ nextID \in Handle
    /\ paused \in BOOLEAN /\ forceFail \in BOOLEAN
    /\ forceConsent \in BOOLEAN /\ inject \in BOOLEAN

NewRuntime ==
    /\ minimumGeneration = 0
    /\ pending = {} /\ codes = {} /\ refresh = {} /\ sessions = {}
    /\ expired = {}
    /\ nextID = 1
    /\ paused = FALSE /\ forceFail = FALSE
    /\ forceConsent = FALSE /\ inject = FALSE

-----------------------------------------------------------------------------
(* Reading a table.                                                        *)

IDs(table) == {row.id : row \in table}
Without(table, h) == {row \in table : row.id # h}
Unexpired(table) == {row \in table : row.id \notin expired}

GenerationUsable(g) == g = 0 \/ g >= minimumGeneration

\* GetPending and GetSession delete the row they find expired.
GetPending(h) == pending' = IF h \in expired THEN Without(pending, h) ELSE pending
GetSession(h) == sessions' = IF h \in expired THEN Without(sessions, h) ELSE sessions

-----------------------------------------------------------------------------
(* Inserting.  An insertion of an old generation is refused before the     *)
(* sweep of expired rows; one that meets a full table after it.  Rotation  *)
(* neither sweeps nor meets the bound.                                     *)

cleanupLocked ==
    /\ pending' = Unexpired(pending)
    /\ codes' = Unexpired(codes)
    /\ refresh' = Unexpired(refresh)
    /\ sessions' = Unexpired(sessions)

\* Mutant: off by one at the bound.
HasRoomLax(table) == Cardinality(Unexpired(table)) <= Cap

HasRoom(table) == Cardinality(Unexpired(table)) < Cap

\* The outcome of an insertion that does not store its row.
PutRefused(g, table) ==
    \/ ~GenerationUsable(g) /\ UNCHANGED tables
    \/ GenerationUsable(g) /\ ~HasRoom(table) /\ cleanupLocked

\* A pending request is refused, moreover, when its fields are too long
\* (PendingBounded), before the mutex is taken.
PendingRefused(g) == PutRefused(g, pending) \/ UNCHANGED tables

PutPending(row) ==
    /\ GenerationUsable(row.gen) /\ HasRoom(pending)
    /\ pending' = Unexpired(pending) \cup {row}
    /\ codes' = Unexpired(codes)
    /\ refresh' = Unexpired(refresh)
    /\ sessions' = Unexpired(sessions)

\* Mutant: a delayed insertion is not refused.
PutCodeStale(row) ==
    /\ HasRoom(codes)
    /\ codes' = Unexpired(codes) \cup {row}
    /\ pending' = Unexpired(pending)
    /\ refresh' = Unexpired(refresh)
    /\ sessions' = Unexpired(sessions)

PutCode(row) ==
    /\ GenerationUsable(row.gen) /\ HasRoom(codes)
    /\ codes' = Unexpired(codes) \cup {row}
    /\ pending' = Unexpired(pending)
    /\ refresh' = Unexpired(refresh)
    /\ sessions' = Unexpired(sessions)

PutRefresh(row) ==
    /\ GenerationUsable(row.gen) /\ HasRoom(refresh)
    /\ refresh' = Unexpired(refresh) \cup {row}
    /\ pending' = Unexpired(pending)
    /\ codes' = Unexpired(codes)
    /\ sessions' = Unexpired(sessions)

PutSession(row) ==
    /\ GenerationUsable(row.gen) /\ HasRoom(sessions)
    /\ sessions' = Unexpired(sessions) \cup {row}
    /\ pending' = Unexpired(pending)
    /\ codes' = Unexpired(codes)
    /\ refresh' = Unexpired(refresh)

\* Mutant: rotation does not look for the grant it replaces.
CanRotateBlind(old, g) ==
    old \notin expired /\ GenerationUsable(g)

CanRotate(old, g) ==
    old \in IDs(refresh) /\ old \notin expired /\ GenerationUsable(g)

RotateRefresh(old, row) ==
    /\ CanRotate(old, row.gen)
    /\ refresh' = Without(refresh, old) \cup {row}
    /\ UNCHANGED <<pending, codes, sessions>>

-----------------------------------------------------------------------------
(* Removing.                                                               *)

TakePending(h) == pending' = Without(pending, h)
TakeCode(h) == codes' = Without(codes, h)
TakeRefresh(h) == refresh' = Without(refresh, h)

\* Mutant: the purge forgets the pending requests.
purgeGrantsOnly ==
    UNCHANGED pending /\ codes' = {} /\ refresh' = {} /\ sessions' = {}

purgeProtocolLocked ==
    pending' = {} /\ codes' = {} /\ refresh' = {} /\ sessions' = {}

InvalidateBefore(g) ==
    minimumGeneration' = g /\ purgeProtocolLocked

\* Ends one session and drops the codes and refresh grants of its user.
ExpireSession(h) ==
    LET users == {s.user : s \in {t \in sessions : t.id = h}}
    IN  /\ sessions' = Without(sessions, h)
        /\ codes' = {c \in codes : c.user \notin users}
        /\ refresh' = {t \in refresh : t.user \notin users}
        /\ UNCHANGED pending

ExpireAll ==
    /\ sessions' = {} /\ codes' = {} /\ refresh' = {}
    /\ UNCHANGED pending

ExpireIncompleteMFA ==
    /\ sessions' = {s \in sessions : s.mfa}
    /\ codes' = {c \in codes : c.mfa}
    /\ refresh' = {t \in refresh : t.mfa}
    /\ UNCHANGED pending

\* ListSessions deletes the sessions it finds expired.
ListSessions ==
    /\ sessions' = Unexpired(sessions)
    /\ UNCHANGED <<pending, codes, refresh>>

\* Runtime.Reset keeps minimumGeneration.  The TOTP maps it clears are
\* modelled in module Totp.
Reset ==
    /\ purgeProtocolLocked
    /\ paused' = FALSE /\ forceFail' = FALSE
    /\ forceConsent' = FALSE /\ inject' = FALSE

=============================================================================
