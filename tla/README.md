# IDP Connect in TLA+

A formal model of [Gloo Portal IDP Connect](../src/README.md): the HTTP service
through which the portal creates and deletes OAuth clients at an identity
provider. TLC checks the models on small instances; TLAPS proves their safety
properties, and that each connector implements the abstract specification of the
API, for every value of their constants.

## 1. The system

The service has two operations, `POST /applications` and
`DELETE /applications/{id}` (`src/api/v1/openapi.yaml`), and three
connectors that implement them, one of which is chosen on the command line.

| Part | State it keeps | Operations | Meets |
|---|---|---|---|
| HTTP binding (`pkg/api/v1/server.gen.go`, echo, schema validation) | none | binds a request, calls a handler, writes its response | the portal; one goroutine per request |
| Keycloak token cache (`internal/keycloak/server/handler.go:42-79`) | `token`, `tokenRefreshed`, shared by all goroutines, no lock | the `OnBeforeRequest` hook of every call | Keycloak's token endpoint |
| Keycloak handlers (`handler.go:91-189`) | none | create: one call; delete: lookup by name, then delete by internal id | the realm |
| Okta handlers (`internal/okta/server/handler.go`) | none | create: one call; delete: list, deactivate, delete | the organisation |
| Cognito handlers (`internal/cognito/server/handler.go`) | none | create, delete: one SDK call each, which the SDK may send again | the user pool |
| Start-up (`*/server/server.go`, `cmd`, cobra commands) | options, discovered endpoints, fixed afterwards | parse, validate, discover or configure, listen | the environment; the deployment, which starts it again |
| Deployment (`helm/`) | one replica, `restartPolicy: Always` | restart | the process |

Handlers run concurrently and share nothing in the process but the Keycloak
token; they meet in the identity provider. What is hard:

* **Concurrency.** The token cache is read and written without a lock; a
  delete is a sequence of two or three remote calls with nothing to hold them
  together.
* **Failure.** A call can fail on the way back: it was, or will be, carried
  out, and the handler answers 500. Nothing is persisted, so nobody finishes
  it. The portal's retry is then a new request.
* **Ordering.** Answers of the token endpoint arrive in any order; a call whose
  handler has ended can be carried out after later ones.
* **Timeouts and retries.** The Keycloak client has no timeout. Okta and
  Cognito calls carry the request's context and stop when the portal gives up.
  The AWS SDK sends calls again by itself. A start asks for the UMA endpoints once
  and gives up; the deployment tries again.

What makes each component correct:

* *API*: a status code tells the truth, for good: 201 and 204 stand for exactly one
  client created or removed, 400 and 404 for none; a 404 was true of the whole
  provider at one moment between the request and its answer; and no client goes
  but by a delete that asked for it.
* *Token cache*: a call leaves with a whole token that is not too old, and it
  leaves; it meets a nil token only by its own exchange. The first does not hold of
  calls that overlap, nor the second after a failed refresh.
* *Keycloak*: the name stands for one client; a delete that ends well leaves none,
  although it is two calls and others create and delete the name in between. A
  reply that is not Keycloak's, or that resty does not decode, must not pass for an
  answer, and does.
* *Okta*: no application is left deactivated by a delete that ended well; Okta
  refuses a step only when another delete was there first.
* *Cognito*: a 201 hands out the client its last attempt created, however
  often the SDK sent the call.
* *HTTP layer*: what the portal sees, a status or a lost connection, is true of
  what became of its request at the provider, whoever wrote the answer.
* *Start-up*: nothing is served without what the process has to find for itself
  (endpoints, the token of the environment), and the service comes up once its
  surroundings stay in order.

`PROJECT.json` lists every component (`components`) and every place where this
code is hard to test (`hazards`), with the properties that cover it.

## 2. Modules

| Module | What it is |
|---|---|
| `ClientRegistry` | the abstract specification: what the API promises, whichever the connector |
| `KeycloakToken` | the `OnBeforeRequest` hook, down to the two halves of a Go string |
| `KeycloakConnector` | the Keycloak handlers and the realm |
| `OktaConnector` | the Okta handlers and the organisation |
| `CognitoConnector` | the Cognito handlers, the SDK's retries and the user pool |
| `Startup` | a process from its command line to `ListenAndServe`, and the restart that follows a failure |
| `Service` | the composition the portal meets: `Startup`, the HTTP layer, and `ClientRegistry` in the place of a connector |
| `MC*` | finite instances: model values, preexisting clients, deployments |
| `*Proofs` | the theorems and their proofs |

The layers meet in `ClientRegistry`. From below, the three connector modules
instantiate it (`Registry == INSTANCE ...`): each says what a client is, which
ids select it (`KeysOf`) and which variable is the registry, and
`Registry!Spec` is its property `Promise`. From above, `Service` extends it: a
step of a handler is a step of `ClientRegistry`, so what holds of the service
holds with any connector that keeps the promise.

### State and actions against the code

**Connectors.** A request is a model value, sent once. `pc` is the place of
its handler and `request` its operation and id. The one remote call that
changes something is kept apart from the handler (`call` in Keycloak, `wire`
elsewhere): the handler *sends* it, the provider *carries it out*
(`RealmCreate`, `OrgDelete`, `PoolCreate`, ...), the handler *finishes* on its
outcome. Between any two of these `CallFails` may end the exchange with a 500,
and the call is still carried out later, or never. `answer` is the
status code; `witnessed`, `effect` and `absent` are history variables that no
guard of a connector reads: the clients the id selected when the request came in,
those the request has created or removed (in Cognito, each attempt of it), and
the pending deletes whose id selected no client at some moment. That moment can
only be a request's arrival or a client's removal, and `Observe` records it in
those actions; it is what makes a 404 checkable as an atomic read of the
provider, although no single call of the code is one. A client is named by the request whose call
created it (in Cognito with the number of the attempt) plus what the provider
knows of it: Keycloak's `clientId`, Okta's label, Cognito's name.

* Keycloak: `LookUp` is the GET being evaluated, `Resolve` the handler acting
  on the list; names are unique in a realm. The handlers ignore the request
  context, so there is no `Disconnect`. `Restart(lost)` ends handlers without an
  answer: those of a process that ends, while its successor may already serve, or
  a single one whose hook panics on a nil token. The handlers look at the
  status of a reply alone, and resty decodes JSON only, so that a reply that says nothing
  of the realm (a gateway's, or one with another content type) passes for an
  empty list, a registration, a deletion, or a client that is gone: `Misread`,
  which the history variable `misread` keeps. What the hook does to
  a handler is one of three things: it returns (the call goes on), it fails
  (`CallFails`), it panics (`Restart`).
* Okta: `ListApplications` sees one response (`Pages`), in any order.
  `TakeFirst` picks a match and sends the deactivation. `KeysOf` is the
  four-way comparison of `handler.go:168-172`; `AppName` is the constant
  `"oidc_client"`, and nothing is read from an application of another kind.
* Cognito: the SDK waits for one attempt at a time. `AttemptFails` is an
  attempt without a usable answer, `Retry` the next one, `CallFails` the SDK giving
  up. Every attempt may be carried out, however late; only the answer to the
  current one counts (`Takes`).
* In Okta and Cognito `Disconnect` ends one request: the portal gives up (the
  context is cancelled), the handler panics, or the process ends. A restart is
  several of them.

**Start-up.** `phase` is where `ListenAndServe` is; `world` is what the process
finds around it (published endpoints, the API token of the environment, an SDK
configuration, a free port), and changes at any time. `options` and `endpoints`
are the process's own copies: they are what it served with, not what the world
holds now. Every failure goes to `"down"` (`log.Fatal`), from where `Launch` starts
over with the command line and nothing else. `Insisted` is what
`Options.Validate` insists on, and no more.

**Service.** `message` is what the portal sent, with at most one fault that the
HTTP layer looks for; `stage` how far the request has come; `response` what is
written back; `seen` what the portal learns. `ValidateRequest` is the schema
middleware, `BindParameters` the generated wrapper (the id of the path, the token), `HandOver` and `HandlerAnswers`
the strict handler on both sides of the connector. `ConnectionLost` and
`ProcessKilled` take requests away at any stage (`Lose`): a request that was in
its handler is dropped in `ClientRegistry`, and may have its effect later.

**Token cache.** One action per step of the hook: `OnBeforeRequest` (the test
of `token` and `tokenRefreshed`), `Grant` (the endpoint issues a token),
`Decode`/`Allocate`/`StoreLen`/`StorePtr` (decoding into `&token`),
`Refreshed` (`tokenRefreshed = time.Now()`), `SetAuthToken`, and the ways a
refresh fails. A token is named by the call it was granted to, and
`token.AccessToken` is a pair of halves, a length and a pointer, which two
goroutines can leave in disagreement. `Tick` is the passing of time, which no line of
the code does. `stale` and `overlapped` are history: that a refresh without a token
has restarted the clock, and that two calls have been in the hook together.

## 3. What TLC checks

| Run | Instance | Shows |
|---|---|---|
| `token_concurrent` | 3 calls that may overlap, fair | `FreshUnlessRefreshFailed`: no token older than the window plus its latency, in any order of answers, unless a failed refresh restarted the clock; `WholeUnlessOverlapped`: a whole, granted token leaves with every call as long as no two have been in the hook together, whatever refreshes fail; `NilOnlyFromOwnRefresh`: a nil token is met only after an undecoded answer of one's own; `HookReturns`: every call gets out |
| `service` | 2 requests, 3 clients of one id, 5 deployments, 3 worlds, 1 kill, fair | `AnswersHold`: the codes of the promise stay true; `SeenIsTrue`: what the portal sees is true for good; `ServesConfigured`: a process serves only with what it found itself; `EveryRequestEnds`; `EventuallyServes` |
| `keycloak` | 3 requests, 2 names, any reply misread, fair | `LookupUnambiguous`; `DeleteLeavesNone` and `NotFoundWasTrue`, of deletes that misread no reply while others may; `Promise`, with the answers that rest on a misread reply read as 500; `EveryRequestEnds` |
| `okta` | 3 requests, 1 label, all applications in one response, fair | `InactiveIsOwed`, `RefusedOnlyIfGone`, `Promise`, `EveryRequestEnds` |
| `cognito` | 2 requests of 2 attempts, 1 name, fair | `DeleteLeavesNone`, `HandsOutItsClient`, `Promise`, `EveryRequestEnds` |

The first run of each module checks its `TypeOK` too (`service` those of `ClientRegistry` and
`Service`). Seven runs show a
disagreement between the code and what the repository says of it:

| Run | Said | Done |
|---|---|---|
| `token_stale` | "Reuse the last token if we got it less than a minute ago" (`handler.go:51`) | a failed refresh restarts the clock, and an older token is reused |
| `token_race` | "will use the token endpoint to obtain a token" (`DEVELOPMENT.md:94`) | half of one token with half of another is sent |
| `keycloak_not_found` | "Application not found." (`openapi.yaml:74`) | 404 for a client that is there, after a list that was not decoded |
| `okta_page` | "Application not found." (`openapi.yaml:74`) | 404 for an application on the next page |
| `okta_label` | "applications with the matching label" (`okta-connector.md:106`) | the constant name matches too |
| `service_error_body` | "Invalid input." with the schema `Error`: code, message, reason (`openapi.yaml:39`, `:105`) | the middleware and the wrapper answer with a message only |
| `cognito_duplicate` | "Creates an OAuth2 client." (`openapi.yaml:51`) | two, when the SDK sends the call again |

A second attempt of a delete also makes the Cognito connector answer 404 for a
client that the first attempt has deleted; `cognito` goes through that,
and shows that the client is gone all the same.

A POST whose call is sent twice can create two clients, which no promise about
one request allows. The Cognito connector therefore keeps the promise *per
attempt*: each attempt counts as a request of its own, dropped when the SDK stops
waiting for it, and the last one carries the answer (`CallRequest`,
`CallAnswer`). The Okta connector keeps it in every run whose applications fit
in one response throughout (`[]OnePage`); beyond that 404 is not the truth
(`okta_page`), and nothing else is lost (`KeepsPromiseButFor404`). The Keycloak
connector keeps it with `VouchedAnswer` in the place of `answer`: a 201, 204 or 404 that
rests on a misread reply counts as the 500 that it should have been. The realm itself,
the effects of that request, before and after its answer, and the answers to all
others are under the promise as they are; and where no reply is misread so is
every answer (`KeepsPromiseToTheLetter`).
`Promise` allows a request answered 500 or dropped to have its effect
later, because it can.

**Bounds.** Three requests are what the gap between a lookup and a deletion
needs: one delete looks up, a second removes the client, a create brings the
name back before the first goes on. In Okta the third request is the delete that
overtakes two others between their calls. Two requests of two attempts are four
calls in the Cognito pool, and two requests are enough for the service, where
they meet only in the registry and in a kill that takes both. The proofs cover
any number. Each instance starts with a client an administrator made, so
that deletes have something to find before any create, and the Okta one
with an application of another kind that must never match. Three calls are
needed for a token to be overwritten by an older one and read by a third.
`Window = 2` and `MaxLatency = 1` give every order of "within the window", "at
its edge" and "beyond it"; `Later` stops counting where neither the code nor a
property tells ages apart. `MaxAttempts = 2` where the SDK's default is three:
the second attempt is the first that can follow an effect.
`MaxKills = 1` is one end from outside at each stage of a start and of a request;
failed starts are not bounded. The worlds are one in which all starts succeed
and two in which something each connector needs is missing; the deployments
one for each connector, one that `Validate` refuses, and a Keycloak connector
without its management client, which comes up like the others although the chart's
values call that client required (section 5).
`CHECK_DEADLOCK FALSE` stands where all requests are served and the system
may stop; the runs of the token cache, where time always passes, and of the service, whose
world always changes, keep the check.

**Fairness.** `FairSpec` says that goroutines are scheduled (weak fairness of
`Handle(r)`) and that a provider carries out a call a handler waits
for, unless the exchange fails: the code sets no timeout for Keycloak, so
without that assumption a request may wait for ever.
It is not owed that an exchange fails, that a reply is misread, that the process restarts, or that a call
nobody waits for is carried out. In Cognito an attempt that failed is followed
by another or by an error, as the SDK's loop is. In the service,
`ProcessAdvances` is weakly fair, for its first half because the deployment has
`restartPolicy: Always`, for the rest because a start is a straight line;
`Serve(r)` is, because each connector shows that its handlers end. Kills, losses
and a world that stays in order are not assumed. In the token cache an exchange ends some day,
with an answer or an error, and time is owed nothing. Runs with a liveness
property use no symmetry.

## 4. What TLAPS proves

For any sets of requests, names, clients and calls, finite or not, any window
and any latency, from the `ASSUME`s of the modules alone:

* `KeycloakTokenProofs`: `TypeCorrect`, `FreshTokens`, `SerialTokens`,
  `NilIsOwn`, `NoPanicIfDecoded`.
  Freshness is not inductive by itself. The invariant adds that a token is
  young when it is stored (`YoungWhenStored`, `YoungWhileStoring`), that the
  clock bounds the age of the cached token (`ClockBoundsAge`), and that a call
  past the test has a fresh one until it has read it (`FreshWhenReady`). What carries it
  is the guard of `Tick`: no time passes while a goroutine computes. `SerialTokens`
  needs that the cached string is whole whenever no call is in the middle
  of storing one (`SerialInv`), which holds until two calls overlap.
  A nil token is met only by the call whose own answer was not decoded, since
  whoever has stored has allocated (`StoredMeansAllocated`) and nobody points
  `token` back to nil; where every success is JSON (`~Undecoded`) no call panics.
* `ClientRegistryProofs`: `TypeCorrect`, `EveryClientAccounted`,
  `NoLossUnasked`, `NoSharedEffect`, `AnswersStayTrue` and the action property
  `RemovedForGood`, from one invariant (`RegistryInv`) that says what an effect
  is in each state of a request. Its part `AbsentOutlived` is what a 404 rests on:
  once an id selected nothing, the clients it had selected are gone, and
  because a removed client never comes back they stay so.
* `KeycloakConnectorProofs`: `TypeCorrect`, `LookupsUnambiguous`,
  `DeletesLeaveNone`, `NotFoundTrue` and `KeepsPromise`: the two-call delete and the create
  implement `ClientRegistry`, misread replies set aside, and `KeepsPromiseToTheLetter`
  without them. The argument (`ConnectorInv`): names are unique
  in the realm, an internal id is never used twice, so what a lookup found
  contains everything of that name that was there when the request came in and is
  there still; once the call is done or the client missing, none is. A delete that has
  misread a reply (`misread`) knows nothing of them, and whatever it finds or
  deletes is still one client of the name (`FoundOne`, `DeletesOne`), so it does
  not disturb what the others know.
  For the 404 of a client that is missing at the second call, `AbsentInv` adds that
  what a delete has found is there still or its name has been absent since
  (`FoundOrAbsent`): whoever removed the only client of the name left it without
  one at that moment. Every action is then matched with a step of
  `ClientRegistry` or a stutter (`PromiseStep`).
* `OktaConnectorProofs`: `TypeCorrect`, `RefusalsAreLate`, `InactiveAreOwed`
  and, for runs whose applications always fit in one response,
  `KeepsPromise` and `NotFoundOnOnePage`; for all runs `KeepsPromiseButFor404`: each
  step is a step of `ClientRegistry` or the 404 of a delete without effect.
  Read for a portal that learns no more from a 404 than from a 500
  (`HedgedAnswer`), that is again `ClientRegistry`'s specification
  (`KeepsHedgedPromise`), and so all but the 404 is inherited for an organisation of any
  size (`EffectsOnAnyPage`).
  `DeletesByLabel` is the guide's sentence that `okta_label` refutes, for runs in
  which no delete asks for the common name or an internal id. The invariant says of each place of a delete
  what became of the application it picked: known to the organisation (`AllKnown`),
  deactivated on somebody's account (`Owed`), and, once a step was refused, gone;
  `Recorded` adds, under `OnePage`, that a search without a match is a moment at
  which the id stood for nothing.
* `CognitoConnectorProofs`: `TypeCorrect`, `DeletesLeaveNone`,
  `CreatesHandOut` and `KeepsPromise`, for any number of attempts;
  `CreatesAtMostAttempts`, that a 201 stands for one client at least and one per
  attempt at most (an injection from the clients into the attempts), and
  `CreatesOneIfSentOnce`, the sentence that `cognito_duplicate` refutes, for runs
  without a second attempt. The invariant
  says that ids are unique and made by the attempt they name (`UniqueIds`,
  `AllKnown`), that no client of a deleted id comes back (`NoneLeft`), and that a
  created client is in the pool until a delete names it (`StillThere`).
* `ServiceProofs`: `ServiceTypeCorrect`; `ServiceKeepsPromise`, that everything
  the service does is `ClientRegistry`'s `Spec`; `SeenStaysTrue`, from that and an
  invariant that ties `stage`, `response` and `seen` to the registry's own
  state of the request; `ServesWithWhatItFound`.

`PromisedEffects`, in each connector's module, carries the theorems of
`ClientRegistry` over to the connector: `ClientRegistryProofs` is instantiated
with the connector's clients, ids and registry, its assumptions are proved of them
(`PromiseAssumption`), and the connector's `Promise` is its `Spec` (`SameSpec`). So
`Accounted`, `LossesAskedFor`, `EffectsDistinct` and `AnswersHold` are proved once
and hold of the realm, the organisation and the pool (in the realm, `AnswersHold` of
`VouchedAnswer`). The first three follow from the guards of `ClientRegistry`, so
that no run checks them there; what they say of a connector rests on its refinement.

Some theorems have a hypothesis about the run (`[]OnePage`, `[]AsksForLabels`,
`[](misread = {})`, and that no attempt is a second one) or about a constant
(`~Undecoded`). Each
excludes just what makes a run of the second table fail, or the answer that
makes the hook panic, so that run and theorem together say what is to blame.
The others assume nothing but the `ASSUME`s.

With the three `KeepsPromise` and `SeenStaysTrue` the argument runs from the
provider to the portal: what the portal sees of a request is true of the realm,
the organisation (one response) or, attempt by attempt, the pool. It is true of the
first as long as no reply is misread: `Service` takes a connector that keeps its
promise to the letter, so that the false 404 of `keycloak_not_found` and `okta_page` and
the second client of `cognito_duplicate` are outside it.

Only model-checked: liveness and fairness, which are out of TLAPS's reach
(`HookReturns`, `EveryRequestEnds`, `EventuallyServes`), and the violations.

## 5. Assumptions and what is left out

* **External, from how the code uses it**: the providers (unique names in a
  Keycloak realm, deactivate before delete in Okta, ids chosen by Cognito), the
  retries of the AWS SDK, net/http's request contexts. What the Okta and AWS SDKs return
  as a success is taken to come from the provider; resty checks less, hence `Misread`.
* **Token responses**: a success of the token endpoint is either not JSON
  (`RefreshUndecoded`) or holds an `access_token`. JSON that lacks it, which would send
  an empty one, and JSON `null`, which would point `token` back to nil, are left out.
* **Data races**: a token string is stored as length and then pointer and read
  at once by `SetAuthToken`; a read that is torn as well adds no outcome
  the properties tell apart, since a half-and-half string is already reachable.
* **Administrators**: clients that are there from the start are modelled;
  changes by others during a run look like late effects of dropped requests.
* **HTTP**: a message has at most one fault, since the first that is found answers
  it. The provider's part in `Service` is `ClientRegistry`'s, so its instance
  says nothing of one connector that is not true of all.
* **Surroundings**: `world` is read once by each step of a start, and what a
  step does not read may change before the next.
* **Bodies**: the fields of answers and errors, the credentials, logging; of an
  error only whose schema it has is kept. This leaves out that the 201 of a misread
  registration carries an empty id and an empty secret, and that a 404 of the Keycloak
  handler has a body that says 400, both for an empty id (`handler.go:128`, which the
  router refuses before) and for a lookup that finds nothing (`handler.go:145`, as
  `handler_test.go:126` expects).
* **Credentials of the management client**: `helm/values-template.yaml:33-36` calls
  the id and the secret "(Required)" and `DEVELOPMENT.md:88` says that they should be
  supplied. `Options.Validate` does not look at them (`server.go:42-47`), so the
  process serves without and answers every request that reaches Keycloak with 500. The
  models follow the code: `Insisted` has only the issuer, one deployment of `service`
  lacks the credentials, and `EventuallyServes` shows that it comes up.
* **Moved endpoints**: a Keycloak process keeps the endpoints of its start. The
  model has the states in which they differ from the world's; the repository
  says nothing of them (a hazard without a property).
* **Token lifetime**: the code does not know it; a refused token is a
  call that fails.
* **Hook and handlers** are two modules. The hook's data race ends in a
  wrong token and that in a refused call, so that the handlers need to know only
  the three outcomes named above; a composition would multiply the states
  without a new one for either.
* **Not modelled**: the error constructors (they only build values), mocks,
  tests, scripts, charts beyond the restart. `PROJECT.json` gives the reason for
  each.

## 6. Plan

Done, in this order, the shared state first: token cache, abstract registry,
Keycloak, Okta, Cognito; start-up and service; the proofs of each.

Left:

1. A second replica of a connector (the chart allows no more than one today):
   `Service` with two processes before one registry.
2. A request-level view of Cognito: for calls sent once, the attempts of
   `CallRequest` and `CallAnswer` folded into the request they belong to.
3. The body of a 201: credentials as part of a client, once the code says what a
   success it cannot decode should become.
