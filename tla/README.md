# TLA+ models of the OIDC4VC authorization proxy (trustbloc vcs)

This directory holds TLA+ models of the parts of the repository that have
state and concurrency, and the TLC configurations that check them.

## 1. Inventory

### Components

| Component | Source | State | Operations |
|---|---|---|---|
| Authorization Proxy Controller (`oidc4vc.Controller`) | not in the snapshot. Its behaviour is fixed by `spec.md` §4 and by `pkg/restapi/v1/oidc4vc/controller_test.go` and `controller_e2e_flows_test.go` | none of its own. It drives the three collaborators below | `OidcPushedAuthorizationRequest`, `OidcAuthorize`, `OidcRedirect`, `OidcToken` |
| Correlation State Store (`StateStore`) | `memoryStateStore` in `controller_e2e_flows_test.go:240-272`. The MongoDB `oidc4vcstatestore` is not in the snapshot | op_state → `AuthorizeState` (redirect URI and the prepared authorize response), with a TTL in production | `SaveAuthorizeState`, `GetAuthorizeState` |
| Embedded OAuth2 engine (fosite) | configured in `controller_e2e_flows_test.go:84-103` | clients, authorization-code sessions, PKCE sessions, tokens | `NewPushedAuthorize*`, `NewAuthorize*`, `NewAccess*`, `Write*` |
| Issuer Interaction Client | built in `cmd/vc-rest/startcmd/start.go:270-277`. It is mocked in the tests | Issuer-side transaction per op_state | `PushAuthorizationDetails`, `PrepareAuthorizationRequest`, `StoreAuthorizationCodeRequest`, `ExchangeAuthorizationCodeRequest` |
| API-key middleware | `pkg/restapi/v1/mw/api_key_auth.go` | the configured key | one check per request. Public paths are exempt |
| Server wiring | `cmd/vc-rest/startcmd/start.go` | none after start-up, except the option slice the start command's `RunE` captured | `RunE`, `buildEchoHandler`, `startServer`, `WithHTTPServer`, `WithHTTPHandler` |
| Login/consent BDD server | `test/bdd/loginconsent/server.go` | browser cookies (login challenge, consent challenge, skipConsent), the test-config store keyed by subject, and Hydra's challenges | `loginHandler`, `postLoginHandler`, `userAuthenticationHandler`, `completeLogin`, `consentHandler`, `userAuthorizationHandler`, `completeConsent` |
| Request object store | `pkg/storage/mongodb/requestobjectstore/request_object_store.go` | MongoDB collection `request_object_store_tx` | `Create`, `Find`, `Delete` |
| Log fields (not modelled, see §5) | `internal/pkg/log/fields.go` | none. A zap logger carries fields | 30 `With*` constructors, each with one key |

### How the components interact

A wallet sends four HTTP requests: PAR, Authorize, the IdP callback
(Redirect) and Token. Each request is handled in its own goroutine, and the
handlers only meet through shared state:

- **Authorize** asks the Issuer to prepare the request. The engine then
  builds the authorize response, and with it the proxy's authorization code
  carrying op_state in its session extras. The handler saves
  `AuthorizeState` under op_state and sends a 303 to the identity provider.
- **Redirect** is called by the identity provider, or by anyone, because the
  path is API-key exempt. It looks up the state, hands the IdP code to the
  Issuer, and writes the saved authorize response (the proxy code) to the
  wallet's redirect URI.
- **Token** has the engine validate the code (PKCE, client), asks the Issuer
  to exchange the op_state taken from the session, and then has the engine
  issue the token. Issuing the token fetches the code session again and
  then invalidates it, in two separate calls on fosite's store.

### What is hard

- **Interleavings.** Redirect and Token block on the Issuer between reading
  state and using it. Callbacks can be replayed, and a wallet can retry, so
  token requests can run concurrently. fosite's `MemoryStore` in the
  end-to-end test is not transactional (finding 7).
- **An Issuer that does not answer.** Only the client's one-minute timeout
  (`start.go:238-243`) ends such a call.
- **Partial failure.** Every handler stops at the first error but keeps what
  earlier steps did: a prepared Issuer transaction, a valid proxy code, a
  saved state.
- **Expiry.** The state's TTL and the code's lifespan (one minute) both run
  during the IdP round trip.
- **Status handling.** PAR and Authorize reject a non-2xx Issuer answer.
  Redirect and Token do not (finding 1).
- **Locking.** The in-memory store writes its map under the read lock
  (finding 2).

### Properties that make each part correct

- **Controller**
  - the Issuer stores an IdP code only for a prepared op_state;
  - a code yields at most one token (violated with fosite's `MemoryStore`,
    finding 7);
  - a token is issued only for a transaction the Issuer accepted (violated
    under the inferred status handling, finding 1);
  - every request is answered, even by an Issuer that never answers.
- **State store**
  - map accesses never overlap a write (violated, finding 2);
  - a racing map access may abort the whole process (the runtime's fatal
    throw), which the model allows as undefined behaviour.
- **API key**
  - every public endpoint of spec §6 passes without the key;
  - a request passes without the key only if it targets one of those
    endpoints (violated, finding 3).
- **Server wiring**
  - whenever the command serves, the middleware chain, the route groups and
    the metrics server match the configuration;
  - the default server of every execution of the command serves the
    handler that execution built, not a caller's or an earlier execution's.
- **Login/consent server**
  - every subject Hydra logged in has its test config stored;
  - the challenge accepted is the one whose form was submitted (violated,
    finding 5);
  - a browser holding skipConsent=true is never shown the consent UI
    (violated, finding 6).
- **Request object store**
  - it implements a map of fresh ids in which a failed call may still take
    effect (refinement of `AbstractRequestObjectStore`);
  - a `Create` that reports failure leaves no document behind (violated,
    finding 4);
  - every call returns.

## 2. Modules and runs

### `OIDC4VCProxy` (core). Instantiated by `MC_OIDC4VCProxy`

**Variables**

| Variable | What it models |
|---|---|
| `store` | state store: op_state → `[redirectURI, code]` or `NoState` |
| `codes` | engine status of each proxy code (`none`/`valid`/`used`/`expired`) |
| `issuer` | per op_state: `pushed`, `prepared`, `storeCalls`, `codeStored`, `exchanged` |
| `received` | codes delivered to each wallet's callback |
| `tokens` | tokens issued per code |
| `attempts` | Authorize attempts per op_state |
| `parSent` | whether the wallet has sent its PAR |
| `req` | the in-flight Redirect and Token invocations, each with its program counter and what it has read |

A wallet is also its op_state and its redirect URI. Codes are
`<<op_state, attempt>>`.

**Actions and the code they model**

| Code | Action(s) | Modelled as |
|---|---|---|
| `OidcPushedAuthorizationRequest` | `OidcPushedAuthorizationRequest` | one atomic action, with the details (`valid`, `bad_json`, `bad_type`) and failure point chosen by `\E` |
| `OidcAuthorize` | `OidcAuthorize` | one atomic action. Nothing can observe the flow before its 303. Each failure point of `AuthorizeFailures` keeps the side effects of the earlier steps |
| `OidcRedirect` | `OidcRedirectGetState`, `OidcRedirectStoreCode`, `OidcRedirectWriteResponse` | one action per blocking call |
| `OidcToken` | `OidcTokenNewAccessRequest`, `OidcTokenExchange`, `OidcTokenGetCodeSession`, `OidcTokenInvalidateCode` | one action per blocking call; `NewAccessResponse` is fosite's `GetAuthorizeCodeSession` (refused once the code is invalid or expired), then `InvalidateAuthorizeCodeSession`, which does not re-check, and the token |
| the Issuer client's `Timeout: time.Minute` (`start.go:238-243`) | `IssuerCallTimeout` | a Store or Exchange call not yet answered ends the handler with an error; the Issuer may have applied it anyway |
| the identity provider, or a replay | `IdPRedirect` | starts a Redirect invocation |
| the wallet's token request | `WalletTokenRequest` | starts a Token invocation with a code the wallet received |
| state TTL | `StateExpires` | may fire at any time |
| code lifespan | `CodeExpires` | may fire at any time |

`OidcRedirectStoreCode` and `OidcTokenExchange` (together `IssuerAnswers`)
are the Issuer answering a pending call: `ok`, `transport_error` or
`status_error`. `StatusUnchecked` states that Redirect and Token carry on
after a `status_error`. The Issuer only records what it answered `ok` to.

**Fairness.** `WF` on each request's own steps (`HandlerStep`): the
in-memory store and engine calls, and the client timeout. The Issuer is not
obliged to answer, and neither are wallets, the identity provider or expiry.
So `RequestsComplete` holds only because of the timeout: its mutant,
`IssuerCallNoTimeout`, is a client without one (like the KMS's
`http.DefaultClient`), and a request then waits forever.

**Deadlock.** Deadlock checking is off (`CHECK_DEADLOCK FALSE`). The wallets
have finite bounds, so the system really does stop once every flow is done.
A stuck handler is caught by `RequestsComplete` instead.

**Bounds.**

| Constant | Value | Why it is enough |
|---|---|---|
| `Wallets` | `{w1}` | op_states share nothing in the proxy, the store or the engine |
| `MaxAttempts` | 2 | an Authorize retry overwrites the saved state |
| `MaxRequests` | 2 | a replayed callback, and two concurrent token requests with one code |

**Runs**

| Run | Expect | Properties | What it shows |
|---|---|---|---|
| `proxy_safety` (`OIDC4VCProxy.cfg`) | pass | `StoreOnlyForPrepared`, `RequestsComplete` | The missing-state check in Redirect protects the Issuer from replayed or forged callbacks and from callbacks of failed Authorize attempts. Every Redirect and Token request is answered even when the Issuer never answers, because of the client timeout. About 194k distinct states, 45 s |
| `proxy_issuer_status` (`OIDC4VCProxy_status.cfg`) | violation | `TokenOnlyForAcceptedTransaction` | A token is issued after the Issuer answered `ExchangeAuthorizationCodeRequest` with a non-2xx status (finding 1) |
| `proxy_double_token` (`OIDC4VCProxy_double.cfg`) | violation | `AtMostOneTokenPerCode` | two token requests with one code both pass `GetAuthorizeCodeSession` before either invalidates the code, and both get a token (finding 7) |

### `MemoryStateStore`. Instantiated by `MC_MemoryStateStore`

This is the RWMutex-guarded map of the end-to-end test, step by step.

A map access that overlaps another goroutine's access, where one of the two
writes, is a data race: undefined behaviour in Go. The model gives it the
two outcomes the Go runtime can produce (`Racing`, `MapThrows`):

- the map notices and throws "concurrent map writes" or "concurrent map
  read and map write", a fatal error that ends the whole process (`fatal`,
  after which nothing moves);
- or the access completes as if it were alone.

**Actions**

| Code | Action |
|---|---|
| the call a handler makes | `Call` |
| `RLock` | `RLock` |
| the map read | `GetRead` (or `MapThrows` when racing) |
| the map write | `SaveWrite` (or `MapThrows` when racing) |
| `RUnlock` | `RUnlock` |

**Run**

| Run | Expect | Property | What it shows |
|---|---|---|---|
| `memstore_race` (`MemoryStateStore_race.cfg`) | violation | `MapAccessExclusive` | two goroutines are inside the critical section while one of them writes the map (finding 2) |

There is no passing run for this module, because the store is only correct
with the write lock. The proxy model uses the store's contract instead.

### `APIKeyAuth`. Instantiated by `MC_APIKeyAuth`

The middleware keeps no state, so the module handles one request at a time.

**Paths.** A path is a sequence of segments: `/a/b` is `<<"a", "b">>`, and a
trailing slash is an empty last segment. Each string test of the code on the
lower-cased path becomes a test on segments:

- `HasSuffix "/healthcheck"` holds when the last segment is `healthcheck`.
- `HasPrefix "/oidc/token"` holds when the first segment is `oidc` and the
  second starts with `token`.

`WordPrefixes` lists which words of the alphabet are string prefixes of
others (`tokenx` starts with `token`). `Lower` is `strings.ToLower` on the one
upper-case word, `OIDC`.

**Variables and actions**

| Code | Definition |
|---|---|
| `strings.ToLower(URL.Path)` | `Lower` |
| the five exemption tests, in order | `Exempt` |
| `subtle.ConstantTimeCompare(...) != 1` | `KeyMatches` |
| `if token != ""` in `buildEchoHandler` | `GateInstalled` |
| the middleware function | `HandleRequest`, which sets `path`, `header`, `outcome` |
| the response is written | `Respond`, which returns to idle |

**Bounds.** Paths have up to three segments, drawn from 16 words:

- the words of every exemption constant;
- the empty segment;
- `x`;
- a case variant (`OIDC`) and two prefix variants (`authorizex`, `tokenx`).

Three segments is the longest exempt prefix
(`/verifier/interactions/authorization-response`) and the shortest status
path. The headers are the key, another value and none.

**Runs**

| Run | Expect | Property | What it shows |
|---|---|---|---|
| `apikey_public` (`APIKeyAuth.cfg`) | pass | `PublicEndpointsOpen` | every public endpoint of spec §6 passes, whatever header is sent. 13k states, 4 s |
| `apikey_exempt` (`APIKeyAuth_exempt.cfg`) | violation | `OthersNeedKey` | `/x/healthcheck` passes without the key (finding 3) |

### `RequestObjectStore` and `AbstractRequestObjectStore`. Instantiated by `MC_RequestObjectStore`

`AbstractRequestObjectStore` is the contract: a map from fresh ids to request
objects. `Call`, `Linearize`, `Return` and `Reject` give each call one
instant of effect. The constant `Indeterminate` says what an error means:

- `FALSE`: an error means no effect.
- `TRUE`: a call that returned an error may have taken effect or may still do
  so later (`GiveUp`, `LateEffect`).

`RequestObjectStore` models `request_object_store.go`.

| Code | Definition |
|---|---|
| `primitive.NewObjectID` in the driver (zero `_id` omitted) | `nextId`, `ObjectIds` |
| `Create`: `StructureToMap` failure, else `InsertOne` | `Create` (`FailEarly` or `Send`) |
| `Find` / `Delete`: `ObjectIDFromHex`, then `FindOne` / `DeleteOne` | `Find`, `Delete` (`BadId` fails early) |
| the MongoDB server applying a request, or answering with an error | `ServerApply` (`Apply`, `Reply`) |
| decoding the reply: the id's hex, `ErrDataNotFound`, `MapToStructure` | `Receive` |
| `ContextWithTimeout` expiring | `ClientTimeout` |

`net` holds the requests the server has not applied yet. A request whose
caller timed out stays there (`Orphans`). The refinement maps:

- `phase` from the client's pc;
- `pending` from the orphans;
- `used` from the ids the driver generated.

Under this mapping, `Indet!Spec` and `Atomic!Spec` are checked as
properties.

**Bounds.** Two clients, two contents, two ObjectIDs, two calls per client.
This is enough for a create, then a find or delete of the same id by the
other client, with a timeout anywhere between.

**Fairness.** Each client gets weak fairness on `ClientTimeout` and
`Receive`: the deadline bounds every call. The server gets none, so a
request may stay unapplied forever.

**Deadlock.** Every client stops after `MaxOps` calls, so deadlock checking
is off.

| Run | Expect | Properties | What it shows |
|---|---|---|---|
| `ros_contract` (`RequestObjectStore.cfg`) | pass | `IndeterminateContract`, `CallsReturn` | the store refines the indeterminate contract, and every call returns. 522k states, about 80 s |
| `ros_atomic` (`RequestObjectStore_atomic.cfg`) | violation | `AtomicContract` | a `Create` that timed out is inserted afterwards (finding 4) |

### `Startup`. Instantiated by `MC_Startup`

`RunE`, `buildEchoHandler` and `startServer` run in one goroutine. The model
treats them as a fixed sequence `Steps` of steps:

- `CommandSteps`, `EchoSteps`, `IssuerSteps`, `VerifierSteps`,
  `MetricsSteps`, then `startServer`.
- A step is one of: a `use` that adds middlewares, a `route` that registers
  a group, a `serve` or `listen` that starts a server, or a `construct` /
  `connect` that only builds a collaborator.
- A fallible step can end the command with its error.
- `Applies` holds the conditions: the token for `APIKeyAuth`, the OAuth
  clients file, `devMode` for the development API, and prometheus for the
  metrics server.
- `ListenScheme` picks TLS only when both the cert and the key are set.
- `RunStep` models one step: skipped, failed or done.
- `Init` ranges over every combination of the six parameters and the
  option slices a caller may pass to `GetStartCmd` (`MCCallerOpts`: none, a
  custom server, a custom handler, or both).

**The command across executions.** The cobra command object outlives an
execution of `RunE`. `GetStartCmd(opts...)` captures the caller's options in
the `RunE` closure. At the `startServer` step, `Listen` does two things:

- it models `opts = append(opts, WithHTTPHandler(e))` on the captured slice
  (`RunEOpts`), where the handler execution n builds is the number n;
- it records what `startServer` starts (`StartServer`). That function
  applies the options in order to an empty `startOpts` (`ApplyOpt`, folded
  with `FoldLeft`). When no server was given, it builds an `http.Server`
  over `o.handler`.

`Reexecute` runs the same command again with the same flags after
`ListenAndServe` or `RunE` returned. The Echo state is fresh, but the
captured options are as the last execution left them.

**Fairness.** None, and no liveness property. Whether the command settles
depends on whether `mongodb.New` honours its 15 s timeout and whether
`kms.NewAriesKeyManager` (on `http.DefaultClient`) calls its endpoint at all.
Neither is in the repository, so a property about it would rest on a guess.

**Deadlock.** Off: the command really stops, either serving or exited, and
it is executed at most `MaxRuns = 3` times. Three executions let the slice
hold two stale handler options behind the caller's.

| Run | Expect | Properties | What it shows |
|---|---|---|---|
| `startup` (`Startup.cfg`) | pass | `ServingMatchesConfiguration`, `ServesOwnHandler` | when serving, the chain is Logger, Recover, CORS, [APIKeyAuth iff token], validator; the devapi routes exist iff devMode; the metrics server runs iff prometheus. The default server of every execution serves that execution's handler: the appended option comes last, so it overrides both the caller's handler and those of earlier executions (the mutant puts it first). 80,640 states |

### `LoginConsent`. Instantiated by `MC_LoginConsent`

This models the mock login/consent provider of the BDD tests
(`test/bdd/loginconsent/server.go`).

**State.**

- Browsers are cookie jars (`jar`: login challenge, consent challenge,
  skipConsent).
- Each browser has requests in flight in `net`. A request carries the
  cookies the browser held when it was sent.
- Hydra is a per-flow record (`hydra`: login status, consent status,
  subject).
- `store` maps subjects to test configs.

**Actions.**

- `Drive(b)` is the test driver. It follows Hydra's redirect to a login
  page, submits the form or posts to `/authenticate`, follows a redirect to
  consent, or posts to `/authorize`.
- `Handle(r)` runs one handler and applies its Set-Cookie headers:
  `GetLogin`, `PostLogin` (with `CompleteLogin`), `PostAuthenticate`,
  `GetConsent` and `PostAuthorize` (both with `CompleteConsent`).

**Faults.** Hydra and store failures are nondeterministic, switched by
`HydraFaults` and `StoreFaults`.

**Code behaviour the model keeps.**

- `consentHandler` does not return after `completeConsent`. Its later
  Set-Cookie is lost when the redirect was already written.
- When `completeConsent` failed, the consent page and cookie are served.
  This is the only way `/authorize` ever finds a consent cookie.
  `consentUI` records the skipConsent value of each request answered with
  the consent page.
- `userAuthenticationHandler` (`server.go:147-149`) decodes into a nil
  `*AuthConfigRequest`, so decoding always fails (`PostAuthenticate`, with
  the outcome in `lastAuth`). Login failure injection (`Fail`) is
  unreachable, and the `skipConsent` cookie is never reset to `""`. No run
  checks this: every request fails, and there is nothing for the model
  checker to search for.

**Bounds.** Two browsers and two flows, two subjects, four requests per
browser. This allows a second login attempt after a failure, and a consent
after a login. Deadlock checking is off because the driver's requests are
bounded.

| Run | Expect | Property | What it shows |
|---|---|---|---|
| `lc_config` (`LoginConsent.cfg`, flows in separate browsers, faults on) | pass | `LoggedInSubjectsConfigured` | `completeLogin` saves before it accepts, so a failed Put never leaves Hydra with an unconfigured subject. 45k states |
| `lc_shared_browser` (`LoginConsent_shared.cfg`, both flows in one browser) | violation | `LoginAcceptsSubmittedFlow` | flow f1's form accepts f2's challenge (finding 5) |
| `lc_skip_consent` (`LoginConsent_skip.cfg`) | violation | `SkippedConsentHasNoUI` | a browser with skipConsent=true gets the consent UI after a Hydra error in `completeConsent` (finding 6) |

## 3. Findings

1. **Redirect and Token accept a non-2xx Issuer answer**
   (`controller_test.go:485`, `:593`).
   - Their success tests return a response with no status code.
   - Unlike PAR and Authorize, there is no "invalid status code" test for
     them.
   - Spec §6 requires non-2xx to be an error.
   - That the handlers do not check the status is an inference from these
     tests: the controller's source is not in the repository. Under that
     reading the model issues a token after the Issuer answered the exchange
     with a non-2xx status.
2. **`memoryStateStore.SaveAuthorizeState` writes under `RLock`**
   (`controller_e2e_flows_test.go:266`). The map write races with other
   saves and gets.

3. **The API-key exemptions are string tests, not endpoint matches**
   (`api_key_auth.go:37-57`).
   - Spec §6 lists the public endpoints.
   - The code lets through any lower-cased path that ends in
     `/healthcheck`, contains `/credentials/status/`, or has one of the OIDC
     paths as a string prefix.
   - Its own TODO (line 35) marks this as provisional.
   - The OpenAPI request validator runs after the gate and rejects paths
     that are not routes. So the gap only matters where a route's segments
     are chosen by the caller.

4. **A `Create` that timed out can still be inserted**
   (`request_object_store.go:44-60`).
   - The driver generates the ObjectID and sends `InsertOne`.
   - If the context deadline passes first, `Create` returns an error but
     the insert can still be applied.
   - The document is an orphan whose id the caller never learnt. This store
     creates no expiry index.
   - The store therefore meets only the indeterminate contract.
5. **One login cookie per browser** (`server.go:118`). Two login pages
   loaded in one browser make the first page's form accept the second
   flow's challenge. The first flow's login is never completed.
6. **A skipped consent falls back to the consent UI** (`server.go:238-258`).
   - With skipConsent=true, `consentHandler` calls `completeConsent` and
     does not return.
   - When `completeConsent` fails (a Hydra error, or a consent already
     handled), the handler sets the consent cookie and writes the mock
     consent page. The test's skip-consent flow silently becomes the manual
     one.
   - When `completeConsent` succeeds, the page is written into the body of
     the redirect.
7. **Two token requests with one code can both get a token**
   (`controller_e2e_flows_test.go:44-65`, `:99-103`).
   - The end-to-end test wires fosite to `storage.NewMemoryStore()`, which
     is not transactional.
   - fosite's token handler reads the code session, checks it is active,
     and invalidates it in a later, separate call.
   - Two requests with the same code can both read it before either
     invalidates it. RFC 6749 §4.1.2 says a code is used once.

## 4. Plan

Done: every component under `src/` that has state is modelled: the
controller from the spec, `MemoryStateStore`, `APIKeyAuth`,
`RequestObjectStore` with its refinement, `Startup` (with the command across executions)
and `LoginConsent`. The log fields are not modelled (§5). What could still be added:

1. **`RequestObjectStore` extensions.** A third client, and the expiry index
   the TODO at `start.go:350` asks for, once the code has one.
2. **Proxy extensions.**
   - A run with op_state collisions across two wallets: last-write-wins in
     the store delivers one wallet's code to the other's redirect URI.
   - A liveness property that a wallet whose callbacks and calls succeed
     obtains a token.
3. **An abstract state-store contract.** It is left out on purpose. The
   proxy already uses an atomic store, so its refinement would hold by
   construction. `MemoryStateStore`'s failure to meet the contract is
   finding 2 again.

## 5. Not modelled

- **Log fields.** `fields.go` builds zap fields from a constant table of
  keys. It has no state and no control worth a model: each constructor
  is one call.
- **What a custom server does.** A server given by `WithHTTPServer` is a
  test double, outside this repository. `Startup` records only that
  it is the one started.
- **What the server wiring constructs.** The collaborators that `start.go`
  builds are steps that succeed or fail. Their internals are other
  components.
  - `validateAuthorizationBearerToken` is never called, so it is not
    modelled.
  - A half-configured TLS pair (only one of cert and key) silently serves
    plain HTTP. This is listed as a hazard with no property: no document
    states which behaviour is intended.
  - Whether the constructors `start.go` calls (the MongoDB client, the KMS
    on `http.DefaultClient`) ever return is not claimed: their code is
    outside the repository.
- **HTTP encoding, JSON and PKCE arithmetic.** They are abstracted to
  outcomes: a PKCE mismatch is one of the protocol errors `NewAccessRequest`
  may return.
- **The controller's own source.** It is not in the snapshot, so its
  handlers are modelled from the spec and marked `spec_modelled` in
  `PROJECT.json`.
