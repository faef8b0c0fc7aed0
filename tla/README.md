# LabSSO: TLA+ specifications and proofs

LabSSO is a laboratory identity provider: one Go process that serves OIDC, SAML
and WS-Federation to test clients (the data plane) and lets an operator change
its configuration while it runs (the control plane). This directory holds TLA+
modules translated from the Go source, the TLC configurations that check them,
and TLAPS proofs of its safety properties.

## 1. The system

### Parts, state and operations

| Part (package) | State | Operations |
| --- | --- | --- |
| Protocol runtime (`internal/oidc/runtime.go`) | four tables (pending requests, codes, refresh grants, login sessions), the minimum generation, four tunables, TOTP overlay and replay ledger, all under one mutex | Put/Take/Rotate/Get of rows, expiry, `InvalidateBefore`, `Reset`, TOTP enrolment and verification |
| OIDC provider (`internal/oidc/provider.go`) | none of its own | authorize, token, userinfo, logout, completion of a login, `Mint` |
| SAML and WS-Federation providers | none of their own | request endpoint, completion, denial |
| Login and consent pages (`internal/loginui`) | a semaphore and a rate limiter | `postLogin`, `postConsent`, `finish`, `deny` |
| Rate limiter (`oidc/limit.go`, copied in `loginui/ui.go`) | admission times per address | `allow` |
| Snapshot store (`internal/snapshot`) | atomic pointers to the active, previous and bootstrap snapshot | `Swap`, `SetBootstrap`, `Capture` |
| Desired-state mutations (`internal/app`) | everything under `App.mu`: idempotency cache, bootstrap path | plan, apply, reset, validate, typed operations, import |
| Audit ring (`internal/audit`) | a bounded list of events | `Emit` |
| Queries (`internal/app/queries.go`, `page.go`) | none | lists with cursors, status, health |
| Serve command (`cmd/labsso/serve.go`) | listeners, goroutines, readiness flags, exit status | start, serve, shut down |
| Operator sessions and authentication (`app/session.go`, `internal/auth`, `control/rest`) | console sessions | authenticate a call, create, look up, delete, expire |
| Console (`internal/web`) | per page: CSRF token, current view; shared by all pages: the session cookie | start-up, navigation, writes, sign-out |
| Group claims (`oidc/overage.go`) | none | the group claim of a token by vendor and overage policy |
| Compiler, loader, vendor profiles, token formats, import rewriter, MCP adapter | none | pure functions and adapters |

### How they interact

A request captures the active snapshot once, on arrival, and uses it to the end.
It calls the runtime several times; each call is a critical section of
`Runtime.mu`, and between two of them anything may happen. A configuration
change holds `App.mu` throughout, but what it does to the data plane is three
steps: revoke (`InvalidateBefore`, only when the security-sensitive part of the
document changed), synchronise the TOTP overlay, publish the snapshot. The
tunables, session expiry and minting do not take `App.mu`.

What ties these together is the snapshot generation. Every row carries the
generation it was made under, the runtime refuses insertions below its minimum,
and access tokens carry the generation in a claim.

The console is a script in the operator's browser. It calls the REST API, which
authenticates a call by the session cookie and a CSRF header or, without a live
session, by the loopback address, and then runs the handler; each looks the
session up on its own. All pages of a browser share the cookie, but each keeps
the CSRF token it was told last.

### What is hard

* A request with an old snapshot runs between the steps of a change, or long
  after it, and must not put back what the change revoked.
* Pending requests, codes and refresh grants are read, checked and consumed in
  different critical sections by requests that race each other.
* The SAML response is signed before its pending request is taken.
* Retries after other changes, through a cache with a handwritten LRU order.
* A TOTP code is verified against a secret that may be replaced before its step
  is recorded.
* Tables, cache, ring and limiter at their bounds.
* Shutdown with hanging handlers and goroutines that report to nobody.
* Page cursors into lists that change.
* Tokens list group memberships, under limits and a vendor that may change while
  they are accepted.
* Console pages that share a cookie, with answers in any order.

`PROJECT.json` lists each hazard at its line with the properties aimed at it.

## 2. Modules

| Module | Models | State and actions against the code |
| --- | --- | --- |
| `Runtime` | `oidc.Runtime` | variables are the struct's maps and flags; one operator per method, primed where the method writes. Time is the set `expired` of handles; a handle is a number. |
| `DataPlane` | handlers against Apply, Reset and the operator | `req[p]` is the frame of one request: `pc` names its next critical section, `snap` the captured snapshot. One action is one critical section with the checks that follow it. `mgr` is the change that holds `App.mu`. `issued`, `ended` and `off` are history. |
| `Issuance` | what the data plane promises | abstract: one policy in force, live tickets, tickets taken but not answered, what was delivered. `DataPlane` implements it. |
| `Access` | access tokens, userinfo, the Graph member-groups endpoint, `MintToken`, group claims | extends `DataPlane`; a token is the generation, user and client it was signed for and its group claim: a number of listed groups, a pointer to the Graph endpoint, or none. `Rosters` and `Overages` interpret the fields `roster` (vendor and memberships, security-sensitive) and `aux` (overage policy, not security-sensitive) of a document. |
| `Totp` | TOTP login against enrolment, clearing, seed replacement, reset | the two maps of the runtime, the change in its three steps, a clock of time steps. A code is a secret and a step. |
| `Management` | plan, apply, reset, typed operations, import; idempotency cache; audit ring; bootstrap | one action per call, because every call holds `App.mu` from the cache lookup on. A revision is the document it hashes; a fingerprint is its input. |
| `Limiter` | `allow` | admission times per address, the sweep, the bucket bound. |
| `Pager` | `page` | a stateless function, a client that walks with it, and collections that change. A digest is the contents. |
| `OperatorSessions` | the session table, `authenticate` and the session routes of the REST adapter | `call[k]` is the frame of one call from sending to answer; authentication and handler are separate actions. A session's ID stands for its CSRF token too. |
| `Console` | the script of the console page | extends `OperatorSessions`; one action is one turn of a page's event loop. `jar` is the browser's cookie, `tab[t]` the page in a tab; `origin` and `early` are history. |
| `Serve` | `runServe` | the main goroutine, one goroutine per server, listeners, channel; `net/http` is external. |

`MC*` modules only give values to constants. The theorems about a module and
their proofs are in the module of its name with `_proofs`:
`DataPlane_proofs` (with the refinement of `Issuance`), `Access_proofs`,
`Totp_proofs`, `Management_proofs`, `Serve_proofs`, `Limiter_proofs`,
`Pager_proofs` and `Console_proofs` (with `OperatorSessions`).

Three conventions of `DataPlane` are worth knowing when reading it beside the
code. The `Sso*` and `Assert*` actions stand for both SAML and WS-Federation:
the handlers make the same runtime calls in the same order, and `via` says
which protocol it is. `PreConsent` is the pre-consent lookup of the login page.
A request refused before it touches the runtime (rate limit, malformed input,
unknown client, PKCE errors) leaves no trace and is the single action `Refuse`; where the code can fail
later (signing, rendering a claim, a client that sends the wrong secret) the
action has a disjunct that ends the request there.

The refinement. `DataPlane!Promise` instantiates `Issuance` with the active
document as the policy, the unexpired rows as live tickets, the handles that a
request has taken out of a table and not yet answered as claimed tickets
(`Taken` names the labels between the two), and `issued` and `nextID` as they
are. Everything else (snapshots, generations, frames, the steps of a change,
tunables) is hidden. The abstract policy changes at once, in a step that
requires every live ticket to be permitted by the new policy: that the three
steps of `applyLocked` and the late insertions of stale requests look like this
is what the run of `ImplementsIssuance` checks.

Definitions whose comment begins with "Mutant:" are deliberately wrong variants
of the definition below them. They are used by no specification; substituting
one for its definition must violate the property named in `PROJECT.json`, which
shows that the property can tell the difference.

## 3. Runs

All bounds are constants in the `.cfg`. `MaxGen` bounds the snapshot generation,
`MaxID` the handles (a request starts only while a handle is left), `MaxSeq` the
audit events, `MaxNow` the clock.

| Run | Question | Instance |
| --- | --- | --- |
| `oidc` | Does anything stored contradict the active configuration, can a stale request destroy a grant, does the code implement the abstract promise (`RowsCurrent`, `RefreshKept`, `ImplementsIssuance`, `TypeOK`)? | two requests of authorize, login, token and logout; session expiry by the operator; two users, one client; two documents; one change; tables of size two, five handles |
| `federation` | Is a pending request answered once and under policy, is a stale request inert, do the tables keep their bound, does reset lock nobody out (`SingleUse`, `IssuedUnderPolicy`, `StaleInert`, `TablesBounded`, `NoLockout`)? | two requests of sso, login, consent, deny; two documents; one change or reset; the expiry of a row or forced consent (`FewLapses`); tables of size one, four handles |
| `access` | Does userinfo honour the active policy, do accepted tokens list the current memberships, is a flag that stays on obeyed (`UserinfoHonoursPolicy`, `GroupsCurrent`, `TunablesObeyed`, `AccessTypeOK`)? | one request of a full flow, one userinfo, Graph or mint call, one change between six documents, all tunables, one at a time (`FewTunables`) |
| `expire_race` | disagreement, see section 6 | authorize and login against session expiry |
| `mint_race` | disagreement, see section 6 | two mint calls, six documents, two changes |
| `totp` | `StepsIncrease`, `AcceptedSecretWasInForce`, `CredentialStateCurrent`, `TypeOK` | two requests, at most two logins in all, clock 0 to 3, every operator action; a change may replace the seed, name it by another reference, or leave the second factor alone |
| `control` | Do snapshot and store agree on the bootstrap, are cached plans true (`BootstrapAgrees`, `CachedPlanCurrent`, `TypeOK`)? | plan, apply, reset, two edited bootstrap files, failing and partly failing operation lists |
| `retry` | `CacheSound`, `RetryReplayed`, `AuditTrail`, `TypedKeepsRest` | all typed operations, import and plan; one key in each scope for a cache of two; a ring of two |
| `serve` | `Terminates`, `NoLeakedGoroutine`, `ReadinessWithdrawn`, `CleanExit`, `ReadyMeansBound`, `TypeOK` | with and without the management listener, two handlers per server |
| `limiter` | `RateBounded`, `RefusalDeserved`, `TypeOK` (with the bounds on buckets and on their length) | three addresses, two buckets, limit two, window two, clock 0 to 4 |
| `pager` | `WalkExact`, `WalkAdvances`, `TypeOK` (with the absence of panics) | two collections of up to three items with two values each |
| `console` | When is a console's own write refused, does it show the view it marks, does it always come up (`CsrfRefusalExplained`, `ShowsCurrentView`, `StartupNeverStalls`, `TypeOK`)? | two tabs, two page loads (`MaxLoads`), two clicks (`MaxClicks`), two calls under way, a view with buttons and one without, loopback or remote |

Why these bounds are enough to be interesting. The races of the data plane are
between two requests, or a request and a change; two request slots, one change
and the handles for a full authorize, login, token, refresh chain (pending,
session, code, refresh grant, and one more) produce all of them. In `federation`
a flow takes three handles (pending, session, assertion), and one is left for a
rival. A table of one row is full at once, and with two rows a sweep may or may
not make room. Beside the bootstrap document there is one that disables a user,
enables the other and requires MFA, so that a stale request can meet both;
applying the bootstrap document again changes nothing that is
security-sensitive, and revokes nothing. The documents of `access` bring
every case of the group claim: entra within and beyond its cap, okta at its
limit, a generic vendor that cuts, and a user that is gone; in one document OIDC is switched off as well, and in one only the
overage policy changes. The tunables are read one by one, so that one at a time
is enough. Four clock ticks
with a window of two reach the sweep before, at and after the end of a window.
In `console` two loads are two tabs at once or one page reloaded, two calls
under way are enough for answers to overtake each other, and two clicks let a
sign-out, a write or a change of view meet another. What the bounds leave open
is whether an invariant or an action property fails on a larger instance; it
does not, since all of those are proved (section 4). The runs show that the
properties are not vacuous, that every action happens, and the liveness of
`Serve`.

Symmetry is used for request slots, callers, keys and addresses, never in a run
with a liveness property. Deadlock checking is on in every run but `console`: a refused request (`Refuse`)
and the queries always may happen, and a process that has exited (`Stopped` in
`Serve`) stays as it is. A console does nothing once its user has used up the
loads and clicks.

### Fairness

Only `Serve` has liveness properties. Weak fairness is assumed of the main
goroutine (the Go scheduler runs a runnable goroutine), of the timeout (a timer
fires), of a goroutine's send once it can proceed, and of `Serve` returning once
its server was told to stop (documented by `net/http`). Nothing is assumed of
handlers, which may hang for ever, of listener failures or of signals.
`Console` assumes no fairness: a call may stay unanswered. That a page comes up
is therefore stated as a safety property (`StartupNeverStalls`): a starting
page always has the next call of its chain under way.

## 4. Proofs

Every invariant and every action property of a passing run, and the refinement,
is a theorem of the module's specification, for every value of the constants.
So the number of users, requests, tabs or addresses, the bounds on tables,
cache, ring and buckets, and the documents do not matter. The bounds of section
3 (`MaxGen`, `MaxID` and so on) are constants too: a theorem holds for each
value, hence without one.

| Proof module | Theorems (property) | Inductive invariant |
| --- | --- | --- |
| `DataPlane_proofs`, part one | `TypeCorrect` (`TypeOK`), `RowsAlwaysCurrent` (`RowsCurrent`), `NeverLockedOut` (`NoLockout`) | `IInv` (`Invariance`) |
| `DataPlane_proofs`, part two | `AnsweredOnce` (`SingleUse`), `DeliveredUnderPolicy` (`IssuedUnderPolicy`), `StaleRequestsInert` (`StaleInert`), `GrantsSurviveFailures` (`RefreshKept`), `TunablesAreObeyed` (`TunablesObeyed`), `KeepsPromise` (`ImplementsIssuance`), `TablesStayBounded` (`TablesBounded`) | `HInv` (`HandlesHold`) |
| `Access_proofs` | `AccessImplementsDataPlane`, `AccessTypeCorrect` (`AccessTypeOK`), `UserinfoUnderPolicy` (`UserinfoHonoursPolicy`), `GroupsAlwaysCurrent` (`GroupsCurrent`) | `AInv` (`AccessInvariance`) |
| `Totp_proofs` | `TotpTypeCorrect` (`TypeOK`), `CredentialsAreCurrent` (`CredentialStateCurrent`), `StepsAlwaysIncrease` (`StepsIncrease`), `OnlyOperatorsDrop`, `AcceptedInForce` (`AcceptedSecretWasInForce`) | `TInv` (`TotpInvariance`) |
| `Management_proofs` | `ManagementTypeCorrect` (`TypeOK`), `DriftIsTrue` (`BootstrapAgrees`), `CacheStaysSound` (`CacheSound`), `AuditHasNoGap` (`AuditTrail`), `ServedPlansAreCurrent` (`CachedPlanCurrent`), `RetriesAreReplayed` (`RetryReplayed`), `TypedOperationsKeepRest` (`TypedKeepsRest`) | `MInv` (`ManagementInvariance`) |
| `Serve_proofs` | `ServeTypeCorrect` (`TypeOK`), `ReadyIsTrue` (`ReadyMeansBound`), `ExitIsClean` (`CleanExit`) | `SInv` (`ServeInvariance`) |
| `Limiter_proofs` | `LimiterTypeCorrect` (`TypeOK`), `RateIsBounded` (`RateBounded`), `RefusalsAreDeserved` (`RefusalDeserved`) | `LInv` (`LimiterInvariance`) |
| `Pager_proofs` | `PagerTypeCorrect` (`TypeOK`), `WalkAlwaysAdvances` (`WalkAdvances`), `WalkStaysExact` (`WalkExact`) | `PInv` (`PagerInvariance`) |
| `Console_proofs` | `ConsoleTypeCorrect` (`TypeOK`), `RefusalsAreExplained` (`CsrfRefusalExplained`), `PaintsCurrentView` (`ShowsCurrentView`), `StartupAlwaysGoesOn` (`StartupNeverStalls`) | `CInv` (`ConsoleInvariance`) |

### Assumptions

They are the named `ASSUME`s of the modules, and TLC evaluates them in the runs.

* `Runtime`, `DataPlane`: the table bound is a positive number
  (`CapAssumption`), `None` is no user or client (`NoneAssumption`), documents
  have their type and include the bootstrap document (`DocsAssumption`), the
  exercised handlers and operator actions exist (`RangeAssumption`), the bounds
  are numbers (`BoundAssumption`).
* `Access`: rosters and overage policies have their types (`RosterAssumption`),
  there are a user and a client (`PopulatedAssumption`).
* `Totp`: there is a user (`UsersAssumption`), configured seeds are positive
  numbers with a greatest (`SeedsAssumption`), so that enrolment can draw a new
  secret; types of documents, tunables and bounds.
* `Management`: types of documents, operation lists, calls and keys; the absent
  key and document are none (`AbsentAssumption`); cache and ring hold at least
  one entry (`SizeAssumption`).
* `Limiter`, `Serve`, `Pager`, `OperatorSessions`, `Console`: limits and bounds
  are numbers, positive where the code uses a positive constant; there is a view
  (`ViewsAssumption`) and a collection; identifiers are finitely many numbers,
  which only stands for their order (`PagerAssumption`).

### Arguments

**Rows (`IInv`).** `RowsCurrent` is not inductive: a row is inserted after checks
against the snapshot its request captured, and the invariant speaks of the active
one. `IInv` is `TypeOK /\ MgrOK /\ SnapsOK /\ FramesOK /\ RowsCurrent`, where

* `MgrOK` says how far a change has come: the candidate is the next generation,
  and by the time it is about to be published either the minimum generation is
  the candidate's, or the change is not security-relevant;
* `SnapsOK` says a captured snapshot is no newer than the active one and, while
  its generation is admissible, agrees with it on all that matters;
* `FramesOK` says what a request has checked against its own snapshot when it
  reaches a label.

`AdmissibleIsCurrent` combines the last two: what an admissible request has
checked holds of the active snapshot, so what it inserts is current
(`CodeInserted`, `RefreshInserted`, `PendingInserted`, `SessionInserted`).
`InvalidateStep` and `SwapStep` are the two places where the minimum generation
and the active snapshot move: the first empties the tables and makes all
captured snapshots inadmissible, the second publishes either after that, or a
document with the same security content. `RequestStepPreserves` gives the
shape shared by all steps of a request, so that each handler's lemma
(`AuthorizeSteps`, `TokenSteps`, and so on) only has to show that its actions
have that shape.

**Handles (`HInv`).** `SingleUse` needs to know where a handle can be. `Below`
says that every handle in use was handed out before, `Apart` that it names one
row in one table, and `Spent` that a handle which a request has taken out of a
table is in none, is held by that request alone, and has not been answered, and
that nothing answered is stored. `NotesOK` and `HoldsOK` say what a frame
remembers of the tunables and of the row it read. The steps of requests are of
four kinds; the lemmas per
endpoint show that there is no other, and each property is then proved once per
kind. `KeepsPromise` maps each kind to an action of `Issuance` or to a stutter;
a publication is a change of the abstract policy, whose guard (every live
ticket is permitted) is `RowsCurrent` after the step. `TablesStayBounded` needs
only that insertions sweep and test, and that rotation replaces one row by one.

**Tokens (`AInv`).** `AccessImplementsDataPlane` makes `IInv` and `HInv` hold of
`Access`. A token of an admissible generation tells the truth about the active
configuration (`TokenOK`), and a call holds a snapshot that, while admissible,
agrees with the active one (`CallOK`).

**TOTP (`TInv`).** `Stages` says how far a change has come, `Credentials` under
which snapshot overlays and ledger entries were made at each stage, `FrameOK`
that a login whose generation is still admissible read a secret that was in
force since it arrived, and `Ledger` that the recorded step is at least every
one accepted since the entry was last dropped. `StepsAlwaysIncrease` says
nothing across a drop; `OnlyOperatorsDrop` complements it: no login drops or
lowers an entry, so a step can be accepted again only after an enrolment, a
clearing, a change of the user's seed or reference, or a reset.

**Control plane (`MInv`).** `Documents`: what is active, and what the bootstrap
path holds, is a document, by induction over operation lists. `Cache` and
`CacheSound`: order and map agree. `Recorded`: the event of a mutation is in the
ring at the place its number says (`Ring`). `Keyed`: whatever follows the key of
a mutation in the order was used after it, so a key is evicted only after
`IdempCap` others. `Chain`: each mutation starts from what the one before it
published.

**Serve (`SInv`).** The label of the main goroutine determines which listeners
are open and which goroutines run (`Stages`), and a server that was shut down
has handlers only after the timeout (`Drained`).

**Limiter (`LInv`).** The admissions of an address are in order, any `Limit + 1`
in a row span a window, and its bucket is the end of them; what the bucket has
forgotten is older than the window. A bucket is never longer than `Limit`:
what is kept is no longer than it was, and grows only below the limit.

**Pages (`PInv`).** `Nth` picks the identifier with n - 1 below it; `Places` shows
by counting that each place is taken once, so that `Sorted` is the sorted
collection (`SortedRight`). A cursor is accepted only for the contents it was
made from, so the next page continues what the walk has (`NextPage`).

**Console (`CInv`).** A page's number is its own (`Pages`, `Fresh`), it has one
call of its start-up on its way (`Chains`, `StartupNeverStalls`), and while its
own session is in the cookie, its token and its calls carry that session's
token (`Tokens`). Three kinds of step suffice: a call is served, a page is
opened or the session expires, and a page follows an answer.

Induction over data is used in two places, for `applyOperations` (operations
keep a document a document) and `recentOf` (the recent times are the end of the
list). Both are recursive functions, and the induction is on the set of
numbers for which the statement holds, by the well-foundedness of `<` on `Nat`
(`WFMin`).

## 5. Only model-checked

The liveness of `Serve` (`Terminates`, `NoLeakedGoroutine`,
`ReadinessWithdrawn`), which needs fairness, is out of the prover's reach. The
properties of the two runs of section 6 are violated by design. That the
properties tell right from wrong is also shown by TLC alone: each has a wrong
variant of a definition that violates it.

## 6. Disagreements between code and documentation

Each is a run that TLC must find violated.

* `expire_race`: `docs/02-protocols.md` says that expiring a session kills its
  codes. `authorize` looks the session up and stores the code in two critical
  sections, so a code can be stored for a session already expired.
* `mint_race`: `docs/20-threat-model.md` says that issuance honours the current
  user, client and policy. `MintToken` checks one snapshot and signs under
  another.

Two more were met while modelling and have no run. Clearing a user's TOTP
overlay drops the recorded step even when the configured seed stays in force, so
`StepsIncrease` is stated between two such drops, while
`docs/08-security-architecture.md` promises it without a condition. A cached
plan keeps the `drifted` flag of the bootstrap revision it was computed under;
the flag is not part of the model.

`CsrfRefusalExplained` has two exceptions because the code needs both. A page
is refused when another page load has put its own session into the shared
cookie since the page learned its token; and when its user signs out before the
start-up is over, the `refreshWho` that follows the sign-out may be sent before
the start-up's session exists and answered after it, which leaves the page with
a session's cookie and no token. In both cases a reload helps.

## 7. Not modelled

* The MCP adapter keeps no state: it strips cookies, authenticates by bearer
  token or loopback address and forwards to the operations modelled elsewhere.
  The same holds for the REST routes other than those of sessions, and for
  scripts that call the REST API with a bearer token.
* Of the console: rendering, filters, selection, the enrolment overlay, and what
  the answers contain. The three reads of `refreshMeta` and the pages of a list
  are one call each. A call that fails in the network, rather than with a
  status, ends the chain it is part of, since no callback catches it; the
  console then waits for a reload, and the model leaves it out.
* Groups are counted. A group that is renamed revokes nothing, and a token keeps
  the former name; no document promises otherwise.
* Token, assertion and XML formats and the import rewriter are conversions;
  vendor profiles, capabilities and contracts are constant tables. Password
  hashing and HMAC are choices of the environment or injective functions.
* `Reset` without a bootstrap path recompiles the bootstrap document in the
  store. The serve command refuses to start without `--config`, and no other
  command resets, so the branch is left out.
* A lookup that only repeats another one within a handler is one lookup: the
  protocols that `finish` and `deny` try in turn, and the two critical sections
  that burn a refresh grant. Each definition says why nothing is lost.
* Validation rules of the compiler may fail at any point in the models, but
  which documents they reject is left out: they are pure and read one document.

## 8. Plan

Done, in this order: `Runtime` and `DataPlane` (the composition that matters
most) with its first theorems, `Totp`, `Management`, `Access`, `Serve`,
`Limiter`, `Pager`; then the abstract specification `Issuance` and its
refinement, group claims in `Access`, `OperatorSessions` and `Console`.

To extend the model:

1. tunable events with their values, for the order of effects and audit events;
2. the MFA form of the console composed with `Management`, for the revision it
   sends;
3. ID validation and normalisation as pure operators.

To prove more:

1. that the signing step of `Access` and the steps of `DataPlane` together
   implement an abstract specification of tokens;
2. that `Management` and the three steps of a change in `DataPlane` agree on
   what a change publishes, by a composition of the two;
3. an abstract specification of the operator sessions that `OperatorSessions`
   implements.
