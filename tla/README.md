# Verification of uddi-framework

TLA+ models of the UDDI API gateway (`packages/api`), of its SDK's client and of its zero-knowledge
circuits, TLC configurations that check them on small instances, and TLAPS proofs of the properties that
matter most. Paths below are relative to `src/packages/api/` unless they begin with `src/`.

## 1. Inventory

| component | state | operations |
| --- | --- | --- |
| DID registry: `internal/handlers/did.go`, `internal/blockchain/` | one document (key, deactivated flag) per DID, in memory or in PostgreSQL | register, resolve, update (rotate key), revoke |
| Authentication challenges: `internal/handlers/verify.go`, `challenge_store.go` | issued challenges, in memory or in Redis with a TTL | create challenge, verify auth |
| Credential registry: `internal/handlers/credential.go`, `credential_store.go` | one record (credential, revocation, reason) per id, in memory or in PostgreSQL | issue, revoke, verify, list |
| API keys: `internal/middleware/api_key_store.go`, `auth.go`, `internal/handlers/api_key.go` | one row (key hash, revocation) per service | seed, create, revoke, validate, list |
| Startup, migrations, shutdown: `main.go`, `internal/server/router.go`, `internal/storage/migrations.go` | schema and its version table; each process's progress | open store, migrate, seed, serve, drain, exit |
| Rate limiter: `internal/middleware/security.go` | one counting window per client, time of the last sweep | allow |
| Configuration: `internal/config/config.go` | none | read and check the environment |
| Zero-knowledge adapter: `internal/zkp/service.go`, `internal/handlers/proof.go` | none | generate, verify (remote, or a local check of the shape) |
| Metrics: `internal/middleware/observability.go` | five atomic counters, no lock around them | count, report |
| SDK: `src/packages/sdk/src/index.ts` | the identity in memory and in the app's storage | create, load, rotate, revoke; the verifier's calls |
| Core library: `src/packages/core/src/` | none | keys and DIDs, signing, issuing and verifying credentials |
| Circuits: `src/packages/zkp/circuits/` | none | age and citizenship constraints |
| Statistics, response writer, API document | none | read-only |

**How they interact.** Handlers run in one goroutine per request and meet only in the stores.
Each store call is one mutex section or one SQL statement (or one Redis command), but a request
makes several, with nothing that holds them together:

    register           Exists -> Create                         (did.go:47-91, client.go)
    update, revoke     Resolve -> Resolve -> Update             (did.go:117-240, client.go:74-109)
    verify auth        Get -> Delete -> clock -> Resolve        (verify.go:113-165)
    issue              Resolve subject -> Resolve issuer -> Create
    verify credential  Get -> clock -> Resolve issuer           (credential.go:110-139)
    create API key     draw -> Create;   use: Validate -> the handler
    SDK create         draw -> save -> POST register            (sdk/src/index.ts:93-109)
    SDK rotate         draw -> PUT update -> save               (:184-220)
    SDK revoke         sign -> POST revoke -> delete            (:222-243)

Challenges and credentials read the DID registry through `ResolveDID` only. All credential and
verify routes pass `RequireAPIKey`; every route passes the rate limiter. At startup a process
opens three stores one after another, each of which migrates the same database; several
processes may do so at once.

A request runs through recover, a 30 s context, the counters, the body limit, the rate limiter, and
then its route (router.go:46-59); the connection around it has a write deadline of 15 s, a call to
the prover a timeout of 10 s, and the shutdown that waits for it a limit of 30 s.

**What is hard.** Other requests' steps between the calls of a request; whole-document writes of
stale copies; a statement reported as failed that ran, or runs later (database/sql returns when the
context ends, the server may not); a process or a store lost between two calls; two expiry rules on
one challenge; window boundaries in the limiter; concurrent migrations; seeds at every restart; five
limits on time that meet in one request; counters read one by one while they move; comparisons of a
few bits in a field that wraps.
`PROJECT.json` lists these hazards at their lines, with the properties aimed at each.

**What makes each component correct.**

- *DID registry*: no write without the signature of a key the DID has had; at most one registration
  acknowledged; a revocation is final in the end; alone on a DID, a caller sees an atomic registry.
- *Challenges*: a valid answer only to the right presentation, in time by the challenge's expiry and by
  the age of its timestamp; a challenge that is over, or was consumed with nobody mid-verification, is
  never accepted again; every challenge ends.
- *Credentials*: only rightly proven credentials are stored, and what is stored is never refused for its
  text; an id is issued once; a revocation or an
  expiry cannot be outrun; a revoked issuer ends up issuing nothing and vouching for nothing.
- *API keys*: a key is told once and is the one stored; a revoked key stays out for ever (in a memory
  store until the process ends: the next one seeds a revoked development key anew); a production process
  seeds no development keys, and uses only those a development process left in the database.
- *Startup*: nobody serves an unmigrated database; recorded is applied; a start ends.
- *SDK client*: beside the first key of an identity, which it keeps even if the registration was never
  accepted, it keeps no key the registry never had; it is parted from its DID's key only by a failure, by
  a crash, by calls the app let overlap, or by a `createIdentity` over an identity that is stored and not
  loaded; and it deletes an identity only when that is revoked.
- *Limiter*: less than twice the limit in any window; nobody refused without cause or for ever;
  idle clients forgotten, open windows not.
- *Configuration*: no production process without its secrets.
- *Proof adapter*: a claim is valid on the prover's word and on nothing else; waiting for the prover
  never costs the client its answer.
- *Metrics*: what is reported makes sense although it is no snapshot; panics leave nothing in flight.
- *Shutdown*: it ends, and cuts off nothing that was in hand when it began.
- *Circuits*: a proof exists for exactly what holds of the credential.

## 2. Modules

| module | what it is |
| --- | --- |
| `AtomicDidRegistry` | the abstract registry: every request takes effect at one instant or is refused |
| `DidRegistry` | handlers, client and both stores, one action per store call; implements `AtomicDidRegistry` under `SerialSpec`, and `RegistryView` always |
| `RegistryView` | the registry as `ResolveDID`'s callers may rely on it; the interface `CredentialRegistry` is composed with |
| `AuthChallenge` | `CreateChallenge` and `VerifyAuth` over both challenge stores |
| `CanonicalJSON` | the text a credential is signed over, as core writes it and as the API does |
| `CredentialLedger` | the abstract credential registry: an identifier is entered once, never replaced, withdrawn for its first reason |
| `CredentialRegistry` | issue, revoke, verify over both credential stores, beside a `RegistryView` that moves; implements `CredentialLedger` |
| `RateLimiter` | `allow` with its sweep |
| `ApiServer` | processes reading their configuration, starting, migrating, seeding, serving API keys, crashing |
| `UddiClient` | the SDK's client and its storage, composed with `DidRegistry`, whose worker `c` serves the request of call `c` |
| `Metrics` | the counters, one atomic operation per step |
| `Gateway` | a request's life around the other components: middleware, counters (it extends and implements `Metrics`), prover, time limits, shutdown |
| `Circuits` | the age and citizenship circuits as constraints over a field, while months pass |
| `MC*` | the instances TLC checks (symmetry sets); values are in the `.cfg` files |
| `*Proofs` | the theorems |

### Correspondence

Common conventions. `pc[w]` names the call goroutine `w` is about to make and `req[w]` what it
carries, so a goroutine's local variables are explicit and everything else may happen between two of
its calls. `reply` (or `verdict`) is the answer the last step sent; the properties use it, the
actions do not. An action's alternatives are the branches of the handler in their order, with a
failing call as one of them when the backend is a database. `detached` holds statements whose
request was told they failed while the database still has them: `Detach` or a 500 puts them there,
`RunDetached` runs or drops them. `Restart`, `Crash` and `LoseStore` are process and store failures.
`PROJECT.json` gives the source lines of every definition.

- **DidRegistry.** `RegisterCheck` is `Register` up to `DIDExists`, `RegisterCreate` the `Create`.
  `MayInsert` tells the stores apart: `MemoryDIDStore.Create` overwrites, the primary key refuses.
  `Authorize` is revoke and update up to the signature check, `ClientResolve` the second read in
  `RevokeDID`/`UpdateDID`, `StoreUpdate` the write of the whole document. `acked`, `held` are history:
  registrations answered 201, and keys a document has had.
- **RegistryView.** `Moves` is any step of the registry: one document changes, to a new key only if
  the DID is not settled, and some revocations settle. `DidRegistry!ImplementsView` shows this is true
  of the handlers, so that what is shown of credentials rests on the registry's code and not on an
  assumption about it.
- **AuthChallenge.** `VerifyGet`, `VerifyDelete`, `VerifyCheck`, `VerifyResolve` are the calls and checks of
  `VerifyAuth` in their order; `Found` is the Redis TTL. A presentation is its DID, challenge, time and
  signing key. The service a request is authenticated as (`X-Service-ID`) is the actions' `caller`:
  `CreateChallenge` answers 403 to a caller that is not the service it names, while `VerifyAuth` reads its
  caller nowhere and compares the service of the body, if there is one. `asked` (the instant at which a
  verification began) is history. The registry is one key per DID that changes at will (`RegistryStep`),
  which is weaker than `RegistryView`.
- **CredentialRegistry.** `IssueSubject`, `IssueProof`, `IssueCreate` are `Issue`; `VerifyGet`,
  `VerifyProof` are `Verify`; `Revoke` is one statement. `Revoked` keeps the first reason given, or a
  later one if the first was empty, as both stores do.
  A credential's claims are the issuer's object in memory; the proof is over `CoreText` of it and is
  checked against `ApiText` of what the `Wire` leaves (`SameText`).
- **CanonicalJSON.** An object is a function from kinds of names to kinds of values, a text its members
  as written and the order they come in. `Wire` is `JSON.stringify` and Go's decoding; `Utf16` and `Bytes`
  are the two sort orders, `Written` and `Escaped` what `canonicalize` and `json.Marshal` do to a value.
  Objects are flat: nesting adds the same question again at each level. `Portable` is the reference:
  the objects both sides write the same.
  `CredentialLedger` sees of this the table and who was told 201.
- **RateLimiter.** `Allow` is `allow`, with `Table` the buckets after the sweep it may run. `asked`
  (last request) and `passed` (requests let through before each instant) are history.
- **ApiServer.** `Start` reads an `Environment`; `Acceptable` is `validate` on it. `Migrate` is the look at
  the version table, `ApplyCreate`, `ApplyRecord`, `ApplyCommit` the transaction of one migration with the
  locks PostgreSQL takes (`Holds`). `Opened` goes from store to store in the order of `main` and
  `NewRouter`; `OpenFailed` retries the first and exits on the others. `Seed` and `Insert` are
  `seedDevelopmentAPIKeys`; `CreateKey`, `RevokeKey` and `Use` the handlers and `RequireAPIKey`. `minted`,
  `given`, `developed` are history. A migration's transaction whose process died or timed out does not
  vanish with it: `Abandon` leaves it in `left` with the locks it holds, where others wait for it, until
  `EndLeft` rolls it back or, if its COMMIT was sent, commits it, which may be after the next attempt began.
  `MaxDetached` bounds such transactions and detached statements together.
- **UddiClient.** `call[c]` is a method under way: its name, the await it is at, the identity it read
  (`id`) and the key it drew. `identity` is `this.identity`, read again wherever the code does (`Saved`,
  `SendRevoke`). A storage call is two steps, its effect and the method going on. `Send`, `SendRevoke`
  and `ServerStep` are the registry's own actions; `Hears` takes their answer if the call still waits.
  `FetchFails` loses a request or an answer and leaves the API to go on. `drawn`, `forsaken` (keys that
  a failure or a crash gave up), `overwritten` (stored keys that a `createIdentity` saved over, having looked at
  `this.identity` only) and `overlapped` are history.
- **Metrics.** `at[r]` is where request `r` is in `Middleware`; each `Add` and each `Load` is a step.
  `Panic` runs the deferred decrement and nothing else of the middleware.
- **Gateway.** `doing[r]` is what the handler is at: reading the body, a store, the prover, a load.
  `Finish` is the handler writing its answer, `Reply` the goroutine's end, where an answer older than
  the write deadline is lost (`TooLate`). `ProverAnswers` and `ProverFails` are the outcomes of
  `postJSON`. `Tick` lets time pass only where every request in hand waits, since computing takes no
  time at this scale. What the store handlers do is left to the other modules (`CallStore`).
- **Circuits.** A template is an operator that relates a witness, the public inputs and the output:
  `<==` is equality, a component is its constraint, a subtraction is reduced modulo the prime. A claim
  can be proved if some private inputs satisfy the circuit for it. Only `NewMonth` changes the state.

## 3. Runs

| run | instance | what it shows |
| --- | --- | --- |
| `registry` | 1 DID, 2 keys, 2 requests, 1 detached statement, both backends, `FairSpec` | all safety and liveness of the registry, and `ImplementsView` |
| `registry_serial` | 2 DIDs, 2 keys, 2 requests, one at a time per DID, 1 detached statement, both backends | refinement of `AtomicDidRegistry` |
| `registry_undone` | 1 DID, 2 keys, 2 requests; judged on Postgres, where no restart loses a document | violation: a revocation is undone by an update that read before it |
| `registry_twice` | 1 DID, 2 keys, 2 requests | violation: on the memory store one DID is registered twice |
| `challenge` | 1 challenge, 2 services, 2 verifications, one timestamp, clock to 3, both stores, `FairSpec` | safety of challenges, and the end of every challenge |
| `challenge_twice` | 1 challenge, 2 verifications; judged on the memory store | violation: one challenge accepted twice, both verifications having read it before either deleted it |
| `rate_limit` | 2 clients, limit 2, window 3, clock to 7 | the limiter's promises over more than two windows |
| `credentials` | 1 id, 1 DID, 2 keys, 3 kinds of claims, 2 requests, 1 detached statement, clock to 1, both backends | safety of the credential registry beside a moving registry, refinement of `CredentialLedger` |
| `deployment` | 2 processes, 1 service, 2 keys, 2 migrations, 2 attempts, 1 detached statement or transaction, both backends, `FairSpec` | configuration, migrations, API keys, end of every start |
| `sdk_client` | 3 keys, 2 calls, storage or none | what the client holds against what the registry has, under failures and overlapping calls |
| `gateway` | 1 request to a claim, a proof or a store and 1 to /metrics, prover or local mode, `FairSpec` | counters, verdicts, lost answers, shutdown |
| `circuits` | 33 births, 2 countries, 10 ages, 61 years, prime 65537 | which claims have a proof |

**Why the bounds are enough.** A DID, a credential or a challenge is never compared with another one of its
kind, so one or two suffice; two keys tell a right from a wrong or an old from a new one. Two requests
exhibit every pairing of half-done requests; one detached statement beside them is a third writer. Two
services tell the one a challenge was issued for from another. With `Lifetime = 1`,
`MaxAge = MaxFuture = 0` and a timestamp of 1, the challenge issued at 0, 1 or 2 meets the presentation too
early (0), at its only good instant with the challenge alive or just expired (1), and too old though the
challenge lives (2); a verification can begin at one side of a limit and be answered on the other.
Two migrations have a first, a next and a last one
(the code has three); two attempts a retry and a last one (the code has twelve). The one service of
`deployment` is a development service that can also be given a drawn key, in production, before a
development process seeds it: both ways a row comes about compete for it. With one DID, credentials are
self-issued; issuer and subject are separate in the model and the proofs. Claims are of one kind that both
sides write the same and of two that they do not, by value and by order; that the rest fall on one side or
the other is the assumption `Texts` of `MCCredentialRegistry`, which TLC evaluates for every object, and the
theorem `TextsAgree`. The limiter's clock covers two windows and an instant, which `LessThanTwice` needs.
Three keys let two rotations follow an identity's creation, or one a second identity; two calls overlap in
every way two can. Statements that outlive their request are left out of `sdk_client` (`MaxDetached <- 0`):
the registry's runs have them, and a call that was given up still leaves a request that runs on.

The gateway's limits keep the order and the ratios that the code's have (a unit is 5 s: 15, 15, 30,
10 and 30 s are 3, 3, 6, 2 and 6), `NewConnGrace` is net/http's 5 s, and `Longest` is the
longest a request can take. One request moves the counters while the other reads them; the
requests go round once. The circuits' years of birth lie on both sides of every bound, at the ends of
the eleven bits and at the ends of the field; the months passing bring each age to its first month; a
prime above 2^16 leaves room for every sum as the real one does. The theorems below hold for all values.

**The three violations** are disagreements between the code and its documentation, each quoted under
"findings" in `PROJECT.json`: a revocation that "cannot be undone" is overwritten by a concurrent update
(client.go:88-103), which the property asks of Postgres only, since a restart of a process with a memory
store loses every document; the second registration, promised a 409, is answered 201 on the memory store; a
"single-use" challenge is accepted twice on the memory store when both verifications `Get` it before either
`Delete`s it (on Redis a `Delete` that fails, its error dropped at verify.go:118, is another way). What does
hold in their place is stated and checked: `RevocationSettles` with `RevocationDrains`, `OneRegistration`
for PostgreSQL, and `DeadStaysDead` with `SerialIsSingleUse`.

**Mutants.** Definitions marked `Mutant` are plausible bugs (a dropped check, an upsert, an uncounted
attempt). Put in place of the definition that follows, each breaks a property; they show that the
properties depend on the code.

**Deadlock** is checked in every run but two: `gateway` ends when the process has stopped, and
`circuits` when its calendar does (`LastYear`: an age in 2156 may need a ninth bit).

**Fairness.** `DidRegistry` and `AuthChallenge` assume that a goroutine with a request in hand goes on
(`WF(Step(w))`: no lock is held across calls, and store calls are bounded by the request's context),
that a database ends what it was given, and that time passes. `ApiServer` assumes that a starting
process goes on: each attempt runs under a context of 10 s, so every call ends, with success or not.
`Gateway` assumes that runnable goroutines run, that time passes when everybody waits, and that
`Shutdown` polls until it may return. Every wait is bounded: the body by the read deadline, stores
by the request's context, the prover by its client's timeout.
No fairness is assumed of requests arriving, of calls succeeding, of crashes or of restarts.
Nor of the prover: that it answers is never needed. `CredentialRegistry`, `RateLimiter`, `UddiClient` and
`Circuits` have no liveness properties.

## 4. Proofs

All theorems are proved for every value of the constants, from the assumptions the modules name: that
`None`-like values are distinct from what they stand against, that bounds are naturals, that limits and
windows are positive, and that drawn keys are not development keys.

Every component follows one argument: an inductive invariant (types, plus what goroutines
half-way through have established), one lemma per action, `InvariantInductive`, and the theorems from
it. The type invariant alone is never inductive, because a later step of a request relies on a check of
an earlier one that the state no longer shows. Where the inductive invariant says something about the
system, it is itself the property `Consistent` that the runs check.

- **DidRegistryProofs.** `Consistent`: every prepared write, in a request or detached, is
  covered by a signature of a key in `held`, and is a document its request may write. From it
  `InHandInvariant`, `SettledIsFinal` (a settled revocation survives everything), `RegistrationIsOnce`
  (with its own induction on `acked`), `CustodyUnbroken`, `RegistryImplementsView`, and
  `SerialImplementsAtomic`: under `SerialSpec` the copy a request holds is current (`CurrentInductive`),
  so each step maps to a step of `AtomicDidRegistry` or a stutter. `SerialSpec` admits statements that
  outlive their request, and has the next request for the DID wait until they are over. The same invariant
  shows that the two violations above come from overlap, of requests or of such statements, and from nothing
  else: without it a revocation stands (`SerialRevocationStands`, until a memory store is lost) and a DID is
  registered once (`SerialRegisteredOnce`), with either store.
  With overlap, `SettledIsUnopposed` and `UndoingShrinks` show that a revocation settles once the writes
  that could undo it are gone, and that no more of them come while it lasts: of `RevocationDrains` only the
  liveness is left to TLC.
- **AuthChallengeProofs.** `Consistent` says what a verification past its checks has established about its
  challenge, service and time. `HandsStayConsistent`, `DeadIsForEver`, `AcceptanceIsRight`, `JudgedAreGone`, and
  `SerialIsSingleUse`: without overlap a challenge in memory is accepted at most once. `AcceptanceIsRight`
  bounds acceptance in time twice, by the challenge's expiry and by `MaxAge` of the timestamp, both at the
  instant the verification began, and lets a request that names no service pass whoever sent it, as the code does.
- **RateLimiterProofs.** A bucket ends at most `Window` after its client's last request, and its count is
  what passed since it was opened. `LimiterStaysConsistent`, `IdleAreForgotten`, `PatienceIsRewarded`,
  `OpenWindowsAreKept`, and the two counts `AlwaysLessThanTwice` and `RefusalsAreDeserved`, for which
  requests passed are kept as a running total per instant, so that no sum over data is needed.
- **CredentialRegistryProofs.** `Consistent` joins what `RegistryView` keeps, what requests in hand carry
  and that stored credentials are well issued. `CredentialsAreWellIssued`, `LedgerIsImplemented` (with
  `IssueIsOnce` and `RecordIsKept`), `DeadIsForEver`, `RetiredIsForEver`, and `JudgementIsRight`: a
  stored credential is found valid exactly when its issuer is active and still holds the key, because
  what was stored is portable (in `Consistent`) and texts of portable objects agree (`TextsAgree`).
- **ApiServerProofs.** `IInv == TypeOK /\ Migrated /\ Kept`: `Migrated` ties a process's place in its start
  to what the database has on record (all versions below the one in hand; all versions once the first store
  is open) and a transaction left open to the versions below it, `Kept` says where development keys can
  still come from. `StartsStayConsistent`, `KeysAreToldOnce`, `DevKeysStayInDevelopment`, and
  `RevokedIsOut`, which ends with the process where keys are in memory.
- **UddiClientProofs.** `ClientsStayConsistent`: every identity in memory, storage or a call belongs to a
  key the registry accepted for it, beside the registry's own `Consistent`. The proof composes: it
  shows that the client makes only steps of `DidRegistry` (`StepOfRegistry`) and takes the induction
  step of that module's proof (`RegP!InvariantInductive`) instead of repeating it. The same lemmas make
  `UddiClient` a refinement of `DidRegistry` with Postgres (`ClientsRunTheRegistry`), so the registry's
  theorems hold under its clients (`ClientsKeepTheRegistry`).
  `KeysStayAtHand`, `CreatedStaysRegistered` and `DeletedStaysRevoked` are about calls that do not
  overlap, and need more than types: at most one call is under way then, but the requests of calls that
  a failure gave up may still run, and may still change the document. `Alone` says, for the call under
  way, what each of its awaits may rely on (`CreateOn`, `RotateOn`, `RevokeOn`, `LoadOn`); for every
  request in flight, that the key it would leave is kept, given up, overwritten, or being rotated to (`RequestKept`);
  for every document, that its key is (`DocKept`); and that memory and storage hold one DID (`SameDid`).
  `~overlapped => Alone` is inductive beside `Consistent`, with one lemma per action.
- **GatewayProofs.** First `Metrics` alone (`ReportsAreHonest`): each counter is the cardinality of a set
  of requests, and what was loaded first stays bounded by what is loaded later. Then
  `GatewayImplementsMetrics`, which carries the result over (`GatewayReportsHonestly`). `Fine` keeps every
  request a step away from each limit on its time, for every order of the limits that
  `TimeAssumption` admits; from it `AlwaysConsistent`, `ClaimsFailClosed`, `AnswersLostForCause` and
  `ShutdownSpares`.
- **CircuitsProofs.** `ClaimsAreExact`: for every field with room for the circuits' sums (every prime above
  about 8500; bn128's is far above), every credential and every minimum age. The lemmas say what each
  comparison computes once wraps are taken into account: that the two year bounds admit exactly 1900
  to 2099 although neither fits eleven bits for all elements (`YearsAccepted`), and that a negative age
  is compared as what it is (`AgesCompare`).

**Only model-checked**: the five liveness properties (`EveryRequestAnswered`, `RevocationDrains`,
`EveryChallengeDies`, `StartEnds`, `EveryoneLeaves`), which are out of this prover's reach. The three
violations are counterexamples, which TLC shows.

## 5. Not modelled

- Core library (`src/packages/core/src/`), except the text a credential is signed over: key encoding,
  DIDs and signatures are pure functions over bytes, with no step of their own. Numbers are left out of
  `CanonicalJSON`: both languages print them alike (Go follows ES6 on purpose), as they do control characters.
- Registry statistics, the API document, `List` of credentials and API keys, health and readiness: they read
  and change nothing.
- Requests refused with 400 for their form before any store call; wording of answers; timestamps of
  documents (`created`, `updated`), which nothing decides on; JSON-LD `context`.
- The timestamp in a signed DID request is part of the text that is signed, and no code compares it with
  a clock: a replay is an ordinary second request, which the model has.
- Cryptography: a signature is the key that made it; a hash its preimage; a drawn identifier is fresh; the
  proof system of the circuits is sound and complete.
- RFC 3339 whole seconds: the clock is in abstract instants, with every boundary an instant.
- `limit <= 0`, which switches the limiter off, and `clientIP`, which names the client.
- The CREATE TABLE of `schema_migrations` at startup is part of a call that may fail (`CallFails`), as is
  a CREATE TABLE IF NOT EXISTS that PostgreSQL fails because it raced another.
- `ApiServer` and the registries take a stop as a crash; the drain is `Gateway`'s.
- The SDK's stateless calls (`authenticate`, `generateProof`, `getCredentials`, `UddiVerifier`), key
  generation and signing that fail, and a request that arrives after its caller gave it up.
- `RequireAdminToken` and `RequireAPIKeyPresence` beyond their one comparison.

Seen while modelling, and stated in the models rather than as violations:

- The age circuit takes `birthDay` into the hash but not into the age, so a proof exists from the first day of
  the month in which an age is reached, up to a month before the day; its comment (line 58) plans more
  precision. `ProvableExactly` says "to the month".
- A credential that `@uddi/core` signs is not always one the API accepts, where docs/API.md:329 has the API
  verify what core signed: Go escapes `<`, `>`, `&`, U+2028 and U+2029 where JavaScript does not; core signs
  `undefined` members, which JSON drops, and dates as `{}`, which JSON turns into text; names beyond U+FFFF
  sort elsewhere. `Portable` says which credentials agree; the others are answered 400, never stored.
- `hashCredential` is "used as credentialHash in ZKP" (`vc/index.ts:144`), but is SHA-256 of a text, where the
  circuits take a Poseidon hash of four numbers.
- `expiresInDays` of 0 issues a credential without an expiry (`vc/index.ts:48`); at the very instant of its
  expiry a credential is expired to the API and not yet to core (`vc/index.ts:119`).
- Years of birth from 1900 to 2099 are accepted, where the comment (line 83) has 2100.
- `signal private input` is the syntax of circom 1, under `pragma circom 2.1.6`.
- The request's context (30 s) outlives the connection's write deadline (15 s): a handler may run on
  for an answer nobody can get. `LostForCause` says when.
- An update authorized under a key that a concurrent update replaces still lands, where docs/API.md:202 has
  the "current" key sign: `KeyCustody` asks for a key the DID has had.
- `CreateChallenge` compares the authenticated service with the one named; `VerifyAuth` does not, and a
  request that names no service is answered whoever asks. `AcceptedRightly` says so.
- `createIdentity` looks at `this.identity` only: an app that has not called `loadIdentity` first saves over
  its stored identity. `KeyAtHand` says so (`overwritten`).
- A development key that was revoked is valid again once a process with a memory store has restarted, and
  one that a development process left in the database stays when the next process is in production.
- `createIdentity` cannot be repeated after its registration failed, and the memory challenge store never
  sweeps: both are hazards without a property in `PROJECT.json`.

## 6. Plan

Done: every stateful component of the API gateway with its configuration, startup and shutdown, the
request's life around them, the SDK's client, the circuits; five refinements, all proved (the atomic
registry, the registry's view, the credential ledger, the counters, and the registry inside the client);
theorems for every safety property.
Left, in this order:

1. `AuthChallenge` beside `RegistryView` instead of a registry that moves at will.
2. The handlers' own steps inside `Gateway` (`CallStore`), with the promise that nothing behind
   `RequireAPIKey` runs long after a revocation of the key.
3. The age circuit's days, once the circuit looks at them.
