# TLA+ models of TokenMarket

TokenMarket lets sellers offer their provider accounts (API keys, "connections")
and lets buyers call the providers through a gateway that meters, prices and
settles every request. This directory holds TLA+ models of the parts whose
correctness depends on the order of events, the TLC configurations that check
them, and TLAPS proofs of the most important properties.

## 1. Inventory

| Component | Code | State | Operations | Hard behaviour |
|---|---|---|---|---|
| Test-quota ledger | `services/billing-service/app/domain/ledger`, `api/ledger.py` | append-only entries, reservations, idempotency keys | seed, reserve, settle, release, mark unresolved, late delta, reverse | many orders of the same calls, retries, shared quota, signed differences |
| Reconciliation | `billing-service/app/domain/recon`, `api/recon.py` | event ids, cases, remembered amounts, previews | ingest, tick, preview and apply reversal, daily report | late, repeated, reordered evidence; a tick that fails half-way |
| Pricing | `billing-service/app/domain/pricing` | rate versions, quotes, price locks | create, preview, approve, publish, rollback, lock; `quote()` | separate rounding; publication beside locked requests |
| Provider connections | `services/api-service/app/domain/connections`, `repositories/connections.py` | `provider_connections` rows, health, snapshots | create, verify, set mode, list, pause, resume, drain, retire, replace credential, delete | read-decide-write over separate transactions; slow probes |
| Project bindings | `api-service/app/domain/bindings`, `repositories/bindings.py` | `provider_bindings` rows | create, validate, publish, deactivate, replace, degrade | concurrent publication, full-row saves, two tables without a common transaction |
| Phone authentication | `api-service/app/domain/authentication`, `dispatch/auth_delivery.py`, `repositories/authentication.py` | challenges, sends, sessions, generations, profile intents | request, claim, send, finalise, recover, create session, switch, log out, revoke all | leases, crashes around a send, superseded challenges, lock order |
| Authorization | `api-service/app/domain/authorization` | decisions, audits, outbox | authorize, publish outbox | idempotent retries, at-least-once outbox |
| Projects, proxy keys, seller keys | `api-service/app/domain/{projects,proxykeys,sellerkeys}` | rows with state machines | create, rotate, revoke, pause, archive | stale reads, rotation overlap |
| Usage ingestion, budget, workbench, users | `api-service/app/domain/{usage,budget,workbench,users}` | usage rows; read models | record, list, clean up | duplicates and conflicts from the gateway |
| Gateway key pool and health | `services/proxy-gateway/internal/domain/{keypool,keyhealth}` | keys, in-flight counts, cooldowns | pick, release, cool down, refresh, probe | refresh beside leases, probe beside refresh |
| Gateway usage delivery | `proxy-gateway/internal/domain/{usageobs,usageoutbox}`, `infrastructure/apisvc` | write-ahead files, memory sink | observe, replay, drain | crash between write and removal, replay beside requests, quota |
| Gateway request path | `proxy-gateway/internal/{httpserver,application}`, `domain/passthrough`, `cmd/gateway` | route snapshots, capacity signals | chat completion, stream, native passthrough | caches that are never refreshed, shared counters |
| Gateway admission | `proxy-gateway/internal/domain/proxyauth` | token buckets, in-flight counts, two caches | authenticate, admit | limits and stale positives |
| Admin | `services/admin-service` | operator sessions, audits, pipeline runs | step-up, operate, publish catalogue | role checks before every call |
| Deployment tooling | `tools/workflow/deploy_env`, `prod_approval.py`, `image_pin.py` | checkout, release manifest, spent nonces, the compose project | deploy, deploy down | edits of the checkout beside a deployment, one approval used by two |
| Local environment tooling | `tools/workflow/local_env` | project lock, compose project and its owner labels, state files | dev, dev-down | terminals and workspaces that start and stop one project, interrupts, orphaned children |
| Frontend, contracts, infrastructure, other tooling | `frontend`, `shared`, `infra`, `ops`, `tools` | none the services rely on | | |

The parts interact as follows. The gateway authenticates a proxy key, looks up
the project's bindings through the api-service's internal API, sends the request
to a connection (or to a pooled seller key), and reports usage back to the
api-service. Reservation, settlement and evidence go to the billing-service
through HTTP endpoints; there, reconciliation drives the ledger by direct calls
in one process. Bindings and connections call each other inside the api-service,
each through its own repository and with a database transaction per call.

What makes each of them correct, and where the code is exposed, is listed per
line of code under `hazards` in `PROJECT.json`.

## 2. Modules

| Module | Models | Kind |
|---|---|---|
| `Quotation` | `domain/pricing/quote.py`: integer price arithmetic | pure operators |
| `EscrowContract` | what the ledger promises about one request | abstract specification |
| `Ledger` | `LedgerService` and its HTTP handlers | component, implements `EscrowContract` |
| `Recon` | `ReconService` | component composed with `Ledger` (it EXTENDS it and calls its actions), every request implements `EscrowContract` |
| `RateRegistry` | `domain/pricing/registry.py`: versions of the rates, quotes of sellers, locked prices | component |
| `Supply` | connections and bindings over the SQL stores, several processes | two components composed over shared tables |
| `CodeContract` | what phone authentication promises about one one-time code | abstract specification |
| `Otp` | codes of the phone log-in: requests, dispatchers, entering a code | component |
| `Login` | sessions and sign-up | component composed with `Otp` (it EXTENDS it and calls its actions), every code implements `CodeContract` |
| `Retention` | what a request and a sign-up leave behind, and its hourly clean-up | component |
| `KeyPool` | seller keys of the api-service and the gateway's pool, probe and refresh | two components composed over the routable listing and the health report |
| `UsageDelivery` | a chat request's usage, from the gateway's file log to the api-service's usage rows | two components composed over the internal API |
| `ProxyKeys` | issue, rotate, disable, enable, revoke of a buyer's keys | component |
| `ProxyAuth` | the gateway's lookup of a key with its two caches and its limiter | component composed with `ProxyKeys` (it EXTENDS it and calls its actions) |
| `NativeRoute` | native passthrough as `main.go` wires it: route snapshots beside connections and bindings | component composed with `Supply` (it EXTENDS it and runs beside its actions) |
| `Authorization` | decisions, fixture changes and security events | component |
| `Projects` | projects of a buyer over the SQL store, several processes | component |
| `Admin` | operator sessions, wizards, the configuration pipeline | component |
| `Deploy` | deploy and deploy-down of the tooling | component |
| `LocalEnv` | dev and dev-down of the tooling | component |
| `MCLedger`, `MCRecon`, `MCDeployments`, `MCSupply`, `MCNative`, `MCLogin`, `MCRetention`, `MCParts` | instances for TLC | |
| `LedgerProofs` (with those of `Quotation`), `ReconProofs`, `SupplyProofs`, `LoginProofs`, `KeyPoolProofs`, `UsageProofs`, `ProxyAuthProofs`, `PartsProofs` | theorems | TLAPS |

### Ledger and EscrowContract

The code keeps a list of journal entries and computes every balance by summing.
The model keeps, per request and kind of account, the six running sums by
direction and status that `rebuild` and `net_settled` compute (`posted`). The
other variables are fields of the reservation (`status`, `idem`, `owner`,
`amount`) and what was seeded into each bucket (`granted`). One action stands
for one operation; `HoldPosts`, `SettlePosts`, `RaisePosts`, `LowerPosts`,
`ReversePosts` say what each posts. A call that raises or returns an earlier
result changes nothing and is a stutter. `Next` has the operations in any
order. The FastAPI handlers are coroutines without an `await`, so a call is one
step; calling `LedgerService` from several threads is not modelled (nothing in
the service does).

`EscrowContract` is written without a journal: a hold is taken once, returned
once, replaced by a charge that equals the payout, an unknown cost is never
cancelled, a correction may turn the charge into a credit, a refunded buyer owes nothing. `Ledger` instantiates it with
`phase`, `hold`, `charge`, `payout` computed from its variables
(`ImplementsEscrow`). Quotes are integers: `settle()` refuses a negative side
(`NonNegative`), while `apply_delta()` does not look, and `api/recon.py` takes amounts
of either sign, so that a settled request can be corrected below zero. A charge below
zero is therefore allowed after a correction and a refund, and nowhere else; that a
refund of positive costs alone makes one is the finding of run `ledger_reverse`.

### Recon

`seen`, `cases`, `order`, `amounts`, `previews` are the dictionaries of the
service (`order` is the insertion order of `_cases`, which `tick` follows);
`now` is the clock; `reported` is a history variable. `ingest` is split by what
the evidence says (`IngestDoubt`, `IngestEmpty`, `IngestCost`, `IngestRefused`).
An amount of any sign is taken; one that `settle()` refuses (`Settleable`) leaves
the case as it is. `Tick` is a whole pass: it stops at the first case whose settlement
raises and after `MaxPerTick` due cases. `LedgerCall` are the calls of the gateway. Tickets
and audits are written and never read, and left out.

A tick may settle many requests in one step, which is no step of the escrow contract
of all of them; `EachKeepsEscrow` therefore states the contract for each request by
itself (`EscrowOf`). It is proved, and TLC finds no violation of it on the instance of
run `recon`; it is not among that run's properties only because of the time it takes.

### Quotation and RateRegistry

`Quotation` is the arithmetic of `quote()`. `RateRegistry` has the four dictionaries
of the registry: `version`, `quotes`, `published`, `locks`. Every call holds its
mutex and is one step. Of the rows of a version only what `row_conflicts` says of
them is kept (`clash`), which adding a row may bring about at any time before the
publication, also after an approval; so `publish()` validates again, drafts and
superseded versions included, the latter being a rollback.
Nothing in the service calls the registry yet; only its unit tests do.

### Supply

`conn` and `binding` are the rows of the two tables. Every store call is a
transaction of its own, so a handler is a sequence of steps; `job` holds, per
process, the handler it is in and the rows it has read. A process runs one
handler at a time (the handlers do not await between store calls), processes
interleave. Reads that follow each other are one step; a read and the
compare-and-set right after it are one step where any change in between makes
the write fail. `Admissible` are the two partial unique indexes of the migrations
`0012_provider_bindings` and `0016_supply_lifecycle`; `Abort` is a process that dies, or a database error,
between two store calls.

### Otp, Login and Retention

`ch` are the rows of `verification_challenges`, named by the idempotency key of
the request that made them; `account` the rows of `users`; `looking` the
requests that have read the codes of a phone and not yet inserted theirs; `job`
what each dispatcher process has in hand. `texted` and `sends` stand for the
provider: what it accepted, and how often it was called.

A transaction that locks what it reads before it writes is one step, because
`lock_user_by_id` and `lock_challenge` read again under their lock
(`populate_existing`). `Request` is such a step: the user row is locked from the
first read to the commit. A phone without an account has no row to lock, so its
request is two steps, `Look` and `Place`, with anything in between that does not
touch a row it locked (`Free`); `Admits` is the partial unique index on
`pending_delivery` and `delivered`. A dispatcher takes a batch with `Claim`,
reads each row again (`Load`), prepares it (`PrepareDecoy`, `PrepareFail`,
`PrepareMark`), calls the provider outside of any transaction (`Send`), and
records the answer (`Settle`); `List`, `Query` and `Void` are
`recover_stale_dispatching`. `Send` may reach the phone and lose its answer.
`Crash` forgets a job at any step. Time is what the code compares: `age` (within
the cooldown, within the life time, expired) and `late` (a lease, or the time a
sending may take, has passed). A lease can run out under a live worker, since a
batch of twenty codes with ten seconds each outlasts a lease of thirty
(`LeaseLost`).

`Login` gives the right code its effect: `LogIn` revokes the sessions of the
user, raises the generation and inserts a session in one transaction,
`OpenIntent` is the branch for a phone without an account, `Complete` the
profile form with `register` inside, `CompleteAgain` the replay of it by the
idempotency key of `register`. `LogOut` and `RevokeAll` are the two ways to end
sessions. `CreateSession`, `CompleteProfile`, `EndSession` and, in `Otp`,
`ChallengeCall` group them by the route of `api/v1/auth.py` that calls them.

`CodeContract` is the view of one code without rows, workers or leases: it waits, is
marked before it is given to the provider, is given to it once, can be entered only
if the provider took it, opens one session or sign-up, and stays over whatever ended
it. A decoy is never sent and opens nothing. `EachKeepsContract` says this of each
code at once; `Life` and `Opened` compute the view from the rows.

`Retention` keeps the references between idempotency record, challenge and
intent, and the clean-up with its times in units of five minutes. It is a module
of its own since nothing of it depends on how a code was delivered.

### KeyPool

`keyRow` is the row of a seller's key, `good` what the provider thinks of it,
`poolKeys`, `inflight` and `cooling` the maps of `keypool.Pool`. Two loops of the
gateway are cut where they let go of the mutex: the refresh into `RefreshList` (the
call of the internal API) and `RefreshReplace` (the swap), so that a probe, a
revoke or a lease may fall between; the probe into `ProbeTick`, one
`ProbeSkip`/`ProbeKey` per key, and `PatchHealth` or `PatchLost`, since
`PoolHealthStore` writes to the pool first, to the row second, and ignores an
error of the second. A resume asks the provider from a thread: `ResumeKey` reads
the row, `ResumeKeyDone` saves it, unless its version has moved on (`resuming` is
then `stale`). `inflight` survives a refresh and a key that left may come back with
requests on it; `GatewayRestart` forgets the pool and its leases.

### UsageDelivery

One observation per chat request, and a second, conflicting one under the same
event id when the last write of a stream fails (`AnswerFails`). `wal` are the
files of `DurableSink`, `slot` the memory sink, `usageRow` the row of the
api-service. `Served`, `AdmitLog`, `WriteLog`, `SendUsage`, `RemoveLog`,
`AnswerClient` follow one handler; `ReplayList`, `ReplayRead`, `ReplayConfirmed`,
`ReplayFails`, `ReplayRemove` the replay, which runs beside the handlers and
reads the same files. `GatewayDies` keeps files and rows only. `PurgeUsage` is the
retention of the api-service, for requests nothing is under way for. The log has a
quota (`MaxWal`). With `PROXY_USAGE_WAL_DIR` empty, its default, there is no log and
an observation goes straight to the api-service: `walDir` says which, and both are
modelled. An observation is `official` (tokens of the provider) or `absent` (none, or
tokens that do not add up); a success is answered after either was taken (`Served`,
`RemoveLog`, `AnswerClient`), an error before its observation is made.

### ProxyKeys and ProxyAuth

`ProxyKeys` are the rows of a buyer's keys, one secret each, and the idempotency
record of an issue, which is stored in a transaction after the insertion
(`IssueNew` covers a process that ends in between: the retry makes a second key,
of which the buyer is told). `ProxyAuth` puts the gateway in front: `posCache`,
`negCache`, `lookups` of the admission limiter, and per request its step. The
lookup is two steps, `ReadRow` and `LookedUp`, with the owner's changes between
them. `Expire` drops a cache entry at any moment. A cached positive is checked
again against the row (`Rechecked`), where an answer that is not available counts
as a miss (`auth.go:94`).

### NativeRoute

`NativeRoute` runs beside all of `Supply`. `snapshots` is what the gateway holds of a
project, fetched once and kept for the life of the process (`LookupSnapshot`).
`RouteSnapshots` is the answer of the api-service: the bindings of the project whatever
their status, with the health of each connection and not its life cycle, of which
`routeSnapshotFromAPI` makes a dedicated connection that is always `active`.
`NativeArrives` takes the snapshot, `AdmitRefuses` is the catalogue, `SelectUpstream`
the dedicated connection. `main.go` gives the kernel no table of affinities: a request
for a resource by its id is refused, and nothing pins. A shared project finds no
candidate, since the api-service sends the status of the binding where the gateway
expects the life cycle of the connection.

### Authorization, Projects, Admin

`Authorization` cuts a request at its `await`s: the account (`BeginAuthorize`),
the owner (`ReadOwnership`), the candidate for self-exclusion (`ReadCandidate`),
the flush that locks the row, and the commit, which may have happened although its
answer is lost (`CommitAllowed` and `CommitDenied` that tell of a 503) or not
(`EndFails`). A row a flush has
touched stays locked; other requests wait for it.

`Projects` has, as `Supply`, a handler per process that reads a record in one
transaction and writes the whole of it in another. A stale save may undo a
deletion or a rename, but has no say about a protocol it does not know of (`Merged`);
`UniqueNames` is the partial index that decides whether it goes through. A creation is
two transactions, the project and its idempotency key. `ProcessEnds` is a process that
dies between two calls.

`Admin` is one process without concurrency whose clock runs on: `StepUpExpires`
and `ExpireWizard` may fall between any two calls. `AdminRestart` loses
everything, the configuration in force included. `Rollback` makes the version it
returns to the active one, so that the next publication reuses a version number:
`history` keeps the payload a rollback finds, the first of that number.

### Deploy and LocalEnv

`Deploy` follows `deploy` phase by phase for several processes over one checkout:
`LoadDeployConfig` reads the commit and the images once, `BindManifest`,
`ApproveDeploy` (the signed approval, and its nonce spent by a file created with
`O_EXCL`), `VerifyDigests` (after the nonce is spent), `EnsureDocker`, `ComposeUp`.
`EditCheckout` moves the worktree at any moment; no lock holds two deployments
apart. `ups` records every production `compose up` with its approval. Images, commit
and manifest are those that were read and approved; the compose file itself is read from
the worktree when `compose` starts (`lifecycle.py:778`), which `ApprovedOnce` does not
cover.

`LocalEnv` follows `dev` and `dev-down` for several terminals in several
workspaces. `up` are the owner labels on the containers, `holder` the lock. Start
inspects before the lock (`Preflight`) and again after it (`Revalidate`).
`Interrupt` frees the lock and leaves the `compose` child at work: `alone` is
whether an operation found no such child when it took the lock. The lock lives in the
runtime directory of the user: all terminals are of one user, and two users of one
Docker daemon are not kept apart by it.

### MCDeployments and MCParts

`MCDeployments` is `Supply` in the two deployments the code allows, chosen by
`deployment`: several processes that may end between any two store calls (`replicas`),
and one process that does not (`alone`). What the indexes and the compare-and-set must
keep is checked in both; `AloneFailsClosed`, `AloneReadsPublished` and
`AloneStaysPublished` are what holds in one process only.

The parts of `MCParts` parts share no state with each other, and each needs a small instance. They
are checked in one run: `focus` names the part a behaviour is about, chosen in the
initial state, and the others keep their initial state. A property of one part is
therefore checked on every behaviour of that part and no other.

## 3. Runs

| Run | Instance | Checks |
|---|---|---|
| `ledger` | 3 requests, 3 idempotency keys, 2 proxy keys of one project, two grants for either key in any order, quotes for bases 0 and 2 at 15000/8000 bps and a negative one, holds of 2 | `TypeOK`, `HoldMatchesStatus`, `BucketsAgree`, `OneBusinessEffect`, `NoOverdraft`, `ImplementsEscrow` |
| `recon` | 2 requests, a tick handles one due case, evidence of all kinds in any order on one, no amount or a negative one on the other, ticks until time 2 | `ReconTypeOK`, `ReportedWins`, `CaseKeepsDoubt`, `NothingForgotten`, `CasesClose` |
| `supply` | 2 processes that may die, 1 connection, 2 bindings in 2 dedicated slots, versions to 2; and 1 process, 2 connections, 2 bindings, a dedicated and a shared slot, versions to 4 | `TypeOK`, `ExclusiveDedicated`, `LifecycleFollowsMatrix`, `ModeLocked`; `AloneFailsClosed`, `AloneReadsPublished`, `AloneStaysPublished` |
| `ledger_below_one` | multipliers 9000/8000 bps | `SettledBalanced` is violated (finding) |
| `ledger_reverse` | as `ledger` | `ReversedNetsToZero` is violated (finding) |
| `supply_replace` | 1 process, 3 connections, 2 bindings in a dedicated slot, versions to 2 | `ActiveWins` is violated (finding) |
| `supply_mode_switch` | 1 process, 1 connection, 1 binding | `PoolsApart` is violated (finding) |
| `supply_stale_validate` | 2 processes, 1 shared binding | `PublishedStays` is violated (finding) |
| `native_pause` | 1 dedicated project, 1 connection, 1 binding, 1 request | `PauseStops` is violated (finding) |
| `auth` | 2 requests, 2 phones (one with an account), 2 dispatchers, 2 attempts, 1 fault | `LoginTypeOK`, `SentOnce`, `OnlyNewestCode`, `TextedBeforeUsed`, `NewestSessionOnly`, `EachKeepsContract`, `EveryCodeSettles` |
| `auth_retention` | 1 request, the times of the code | `HardBound` is violated (finding) |
| `parts` | one part at a time, see below | `TypeOK`, `KeyLeases`, `RevokedStays`, `WithdrawnLeaves`; `UsageCounted`, `UsageDelivered`; `OneKeyAnswered`, `RevokedRefused`; `ChangeAudited`; `KeyLeadsToProject`, `ProtocolRowsStay`; `WizardExecutesOnce`; `ApprovedOnce`; `LockedLifecycle`; `RatesSound` |

Bounds and why they are enough. Ledger: the two keys share the buckets of the
account and the project. Quota is seeded twice (`MaxGranted`), for the same key or for
both, with grants of account 2, project 4, key 4 and of 4, 2, 2, each hold taking 2:
there are orders in which the account, the project or a key runs out first, for holds
of the same key and of both. Three requests are the least in which two holds succeed and
a third is refused. `MaxPosted` admits a settlement and two corrections, which is the number
it takes to post and take back a difference; the highest quote is above a hold, which
`settle()` does not refuse, and the lowest below zero. Recon: two doubts, a
reported cost and a rated usage of one request give every order of first, second
and contradicting evidence, before, between and after the ticks; the other request
keeps the one place of a tick busy with a case that cannot be settled, for want of an
amount or because it is negative. The clock passes a retry and an SLA; a doubt that
comes later than time 0 has no SLA within the bound, so that `CasesClose` is checked for
cases of time 0. Supply: two processes are enough
for a stale read; two bindings and one connection for a conflict on each index;
`MaxVersion` lets every binding be published or replaced once or twice. Phone
authentication: two requests give a code and the one that replaces it, or two
that race without an account; two dispatchers and one fault (`MaxFaults`: deaths,
and leases lost by a live worker) give a code that is taken over; with
`MaxAttempts` 2 the first wrong code leaves it open and the second locks it. Keys
are numbered and used in order, in the place of symmetry, which a run with a
liveness property does not allow. Retention: `MaxTime` is 400 units (33 hours),
past the bound of 24 hours after the expiry. Symmetry
is used over requests, keys, processes, connections and bindings in runs without
liveness properties. `CHECK_DEADLOCK FALSE`: requests end and bounds stop the
counters, so all runs may stop.

The instances of `parts`, and what they are large enough for:

* key pool: 1 key with 1 place, 3 requests of which one is the seller's own, 1
  restart. Two requests compete for the place, across a refresh and a probe.
* usage: 2 requests, a log with room for 1 file, 1 crash: the second request finds
  the log full, the crash falls at each step of the first, and the replay beside it; also without a log.
* keys and lookups: 2 rows, 2 secrets, 1 idempotency key, 2 requests, 1 lookup at a
  time: a lookup of the old secret, delayed past a rotation, meets one of the new.
* authorization: 2 requests, an active and a suspended account, 1 resource, 4 actions.
* projects: 2 processes, 2 projects, 2 names, 2 protocols, 1 key, 3 calls: two creations
  under one key and a call beside them; a creation, and a protocol enabled between the
  read and the save of another call.
* admin: 2 operators of different roles, 1 wizard, 1 draft, versions to 2.
* deployments: 2 processes with one run identifier, 2 image sets, 2 commits, 1 edit,
  2 approvals, with and without a release manifest.
* local environment: 2 terminals, 2 workspaces, 2 dependencies.
* rates: 2 versions, 1 seller with 2 multipliers, 1 request; terms that are sound,
  narrow, of a negative spread and with bounds that cross: a version is superseded,
  rolled back to, or deleted and created anew beside the locked request.

Together they have 408,736 distinct states.

Fairness. Three runs state any. In `recon`, time passes (`WF(Advance)` up to the
bound) and the tick endpoint keeps being called (`WF(Tick)`). The repository
has no scheduler that calls `POST /recon/tick`; `specs/047` calls it a worker.
`CasesClose` is therefore a statement about the pass: if it is called again and
again, no case is starved by a poisoned one or by the limit per pass. In `auth`
it is `Progress`: while a dispatcher can take a step, a lease that nobody's hand
holds can run out, or a request can end, some of that happens. The loop of
`AuthDeliveryDispatcher` runs as long as the process, a process that dies starts
again, and transactions end. This is weaker than fairness to each of them: that
every code settles (`EveryCodeSettles`) does not need that any one worker is ever
scheduled. Its exception, `Rivals`, is a sign-up with two live codes, of which the
index refuses to settle one. In `parts`, the refresh, the probe and the replay of
the gateway keep running (`WF` on their steps; `main.go` starts each as an endless
loop), a handler that has an observation goes on, and a call to the api-service
that is made again and again is answered at last: strong fairness on `PatchHealth`
and on a confirmed replay, because the same call may fail any number of times
before. Nothing else is fair: evidence need not come, requests need not be made,
nobody need enter a code.

Every property has a mutant, a faulty form of an operation defined next to it
("Faulty form of ..."), under which TLC finds the property violated.

## 4. Findings

1. `apply_delta` (`ledger/service.py:345`) posts the sides that move with the
   buyer's and drops a side that moves against it. With both multipliers below
   one, neighbouring amounts give such a change, and a settled request no longer
   balances (046 SC-003).
2. `reverse` (`:434`) undoes all settled entries although part was undone by a
   late amount before: the buyer is refunded more than was paid (047, "净余额正确").
3. `set_mode` (`lifecycle.py:175`) does not ask for bindings, while a binding can
   be published on a connection that is not listed: a dedicated connection ends
   up in the shared pool (034 SC-002, 409 BINDING_ACTIVE).
4. `validate` (`bindings/service.py:237`) saves a stale full row: a published
   binding returns to `validated` (030 FR-006, ER-003).
5. `replace` (`bindings/service.py:500`) gives the binding its own version plus one,
   where `publish` takes the highest of the slot plus one, and `active` (`:366`)
   reads the highest version, degraded bindings included: of two degraded bindings
   the older one is replaced, and admission goes on reading the other (045, "新请求只命中新连接").
   For shared slots `ActiveWins` is proved (`SharedActiveIsFound`).
6. `run_cleanup` (`auth_cleanup.py:221`) deletes due rows of four tables in one
   transaction. No code deletes a `profile_completion_intents` row, which refers
   to its challenge: after the first sign-up the deletion is refused, and so is
   every later one, of all tables (004 SC-011). A smaller gap of the same kind: a
   record is due five minutes before the challenge that refers to it.

7. `FetchingStore` (`snapshot.go:88`) holds the snapshot of a project for the life of
   the process, and a snapshot fetched later does not say that a connection is paused
   either (`internal.py:232`, `main.go:451`): a dedicated project goes on using a paused
   connection (034 FR-005, and SC-003 with its second). For the same reason a connection
   that was degraded or replaced goes on being used, against 045 FR-002 and FR-004 and
   its scenario at :51, which `PauseStops` does not show.

### Observations

The following is what the code does; the models contain it, and the properties are
stated so as to hold with it. The first four disagree with a document and have no run
of their own.

* `lookup_runtime` looks at the status of a key and not at its expiry, its models or the
  addresses it is limited to (`internal.py`), against 031 FR-002, SC-002 and SC-003.
  `RevokedRefused` is about the status only.
* `delete_version` of the rate registry leaves the quotes of sellers (`registry.py:85`).
  An id created anew with other terms finds them, outside of its bounds: a request
  may then be locked to a seller's multiplier above the buyer's, where 041 (spec.md:19,
  and FR-003 at :92) wants no negative spread. `RatesSound` is about what is published
  and says nothing of locks; nothing in the service calls the registry yet.
* `api/recon.py:25` takes negative amounts, and `apply_delta` books them for a settled
  request as credits, where 040 FR-005 (spec.md:92) wants negative amounts unresolved;
  for a request not yet settled `settle()` refuses them.
* `ingest` remembers an event before it is applied, so that the retry of one that raised
  is answered as a duplicate (047 FR-001).
* `create` of a project stores the idempotency key after the project: if the process
  ends in between, the retry is refused because its own name is taken.
* Authorization: a request refused as malformed (400) leaves no security event;
  `ChangeAudited` is about decisions.
* A key the probe puts down is no longer listed, so nothing probes it again; a key
  onboarded as `unknown` never becomes routable by itself. An error of the health
  report is ignored, and the next refresh may bring the key back.
* A success may be answered without tokens (`proxy.go:169`, `:283`): what is recorded
  then is that there are none. Without a log directory, which is the default, an
  observation that api-service does not take is gone: `UsageDelivered` speaks of what is
  in the log, `UsageCounted` holds either way.
* A conflicting second observation of a stream keeps its file for good
  (`proxy.go:294`). If its row was purged and the gateway restarted, it is recorded
  as a new row, without tokens.
* An issue whose idempotency record was not stored gives a second proxy key on retry.
* A stale save undoes the deletion of a project; a stale update of an ownership row
  may overwrite a soft deletion; a refusal with 503 may have been committed.
* After a rollback the next publication reuses a version number; a published draft
  can be approved again.
* `delete` of a connection that ends between its two transactions leaves its bindings
  active, and a retry answers NOT_FOUND (`connections/service.py:290`); `AloneFailsClosed`
  and `DeletedIsClosed` are about a process that does not end there.
* A deployment spends its nonce before it verifies digests. Interrupted, `dev` leaves
  its Compose child at work outside of the lock.

## 5. Proofs

All theorems are checked by TLAPS for every value of the constants, from the
assumptions named in the modules (`LedgerConstants`, `ReconConstants`,
`SupplyConstants`, `OtpConstants`, `PoolAssumption`, `UsageAssumption`,
`KeysAssumption`, `AuthAssumption`, `AuthzAssumption`,
`ProjectsAssumption`, `AdminAssumption`, `DeployAssumption`, `EnvAssumption`,
`RateConstants`), which TLC evaluates for the instances. They say which sets the
constants range over, and that a null value is none of them.

* `LedgerTyped`: types, including that no running sum becomes negative although
  `LowerPosts` adds a negated difference. By induction on the steps.
* `HoldReturnedOnce`, `BucketsTogether`: from the inductive invariant `Holds`, for
  any quotes. That a hold is returned exactly once needs that the three buckets
  agree, and that a correction or a reversal moves none of them.
* `NeverOverdrawn`: from `Postings`, for any costs and any number of requests. What a
  bucket has left is its grants and a sum over the requests that share it, so the proof
  first shows what the library's fold is on a finite set: that a table of partial sums
  exists (`SumsExist`) and is unique (`SameSums`), each by a smallest set that has it
  otherwise (`SmallestSet`), and that any element may be taken out first
  (`TotalSplit`). Then a step moves a bucket by what it posts for one request
  (`OnePosts`, `OneReserves`), and only a settlement above the hold or a rising
  correction posts less than nothing. `Postings` adds to the types that finitely many
  requests were reserved, that an untouched request has posted nothing, that an open
  one has paid nothing and that a bucket earns nothing.
* `SettledAtOneQuote`: from the inductive invariant `Accounts`. That corrections
  end at a quote needs that the current net is a quote on all three sides and that
  nothing was posted before the settlement. It holds only if the quotes form a
  chain (`QuotesAreAChain`): otherwise finding 1 breaks it. Under the same condition
  `SettledIsBalanced` is what the run `ledger_below_one` refutes without it, and
  `NothingOwedAfterwards` the half of `ReversedNetsToZero` that finding 2 leaves.
* `QuotesGrowTogether` and `PricedQuotesChain`: `quote()` gives a chain when the
  buyer's multiplier is at least one and the seller's at most one, whatever base
  amounts are reported. `QuoteSplitsTheDebit`: with the seller's at most the
  buyer's, no side of a quote is negative and the sides add up: it is one that `settle()`
  accepts. Both rest on the rounding alone
  (`MulBpsSlope`, `MulBpsGrows`).
* `RatesAreSound` (`PartsProofs`): from `RateInv`. The version that is published is the
  one that is named, and valid: `publish()` validates, and what is published or
  superseded does not change any more (`FixedValid`). What requests are locked to is
  not claimed.
* `LedgerImplementsEscrow`: initial states map to initial states and every step
  to a step of `EscrowContract` or a stutter, under the same condition, which costs
  below zero may fulfil as well.
* `ReconTyped`, `DoubtIsKept`, `NoHoldForgotten`, `ReconHoldsOnce`: from `RInv`,
  which is the types, `Holds` of the ledger, and `CasesFit`: a case keeps its request
  from a plain hold, and a recovered case belongs to one that is settled or
  released. Every step of the service but a tick is a step of the ledger, so the
  ledger's invariant carries over; a tick settles several requests at once, each at
  an amount that adds up, because a case behind one that fails is not reached
  (`TickOnLedger`). `ReportedCostStands` adds `Accounts` and `Reports`: a request
  with a reported cost is past its settlement and nets to that cost. For quotes that
  form a chain. `ReconSettlesAtOneQuote` is from the same invariant.
* `ReconNeverOverdrawn`: `Postings` carries over to a tick (`TickPostings`), which
  posts for many requests at once. A bucket's sum grows when no request posts less
  than before (`TotalGrows`, again by a smallest set that has it otherwise), and a
  tick that charges nobody above the hold posts less for none (`TickOverdraws`).
* `ReconKeepsEscrow`: in every step a request does what the ledger does to it, or
  nothing (`Moves`, `EachMoves`); `MoveKeepsEscrow` maps each of these to a step of
  the contract for that request. For quotes that form a chain.
* `SupplyTyped`, `DedicatedIsExclusive`, `MatrixFollowed`, `ModeStaysLocked`:
  from `Inv`, types plus what every job in flight knows (`JobsSound`): a pending
  compare-and-set is along the matrix and changes the mode only from a state in
  which the mode is open; plus `Admissible(binding)`. They hold for any number of
  processes, which TLC checks for two.
* `SharedActiveIsFound`: for any number of processes, adding `Degradation`: only
  dedicated bindings are degraded, also by a job that read them long ago, so that the
  index leaves a shared slot one serving binding.
* `PublishedIsKept`, `PublishedIsFound`, `DeletedIsClosed`: for one process
  (`OneProcess`), any connections, bindings and slots. `Fresh` says that what the
  handler at work has read is still so: nothing but the creation of a binding comes
  between its reads and its writes (finding 4 is what happens with two).
  `PublishedIsFound` needs that the highest version of a slot is one of its versions
  (`MaxOfNats`, from the well-foundedness of the naturals) and that a job about to
  publish holds a higher one than all of them. `DeletedIsClosed` adds `Swept` and
  `NotGone`: the bindings of a deleted connection that are still active are those the
  job at hand is about to degrade, and none is about to be published with it. It assumes
  that no handler ends half way (`~MayAbort`), without which the code does not have it.
* `LoginTypeCorrect`, `CodeSentOnce`, `NewestCodeOnly`, `CodesReachPhones`,
  `OneSession`, `CodesStayDead`: the invariants of the run `auth`, and that no finished
  code comes back to life, for any number of requests, phones, workers and faults. They
  follow from `IInv`
  (`LoginInvariant`): types; rows belong to a request that has ended and to a
  phone, and are no newer than the clock (`RowsOK`); a key has one request
  (`RequestsOK`); an answer a worker heard says that the code went out
  (`HandsOK`); a row that is still early was never sent, and only the one worker
  that marked it is about to send it (`SendingOK`); intents and sessions come
  from codes that were texted, in a generation that exists (`OpenedOK`); and the
  properties themselves. `SendingOK` is what makes `SentOnce` inductive: a lease
  may change hands any number of times before the mark and never after it. The
  proof gives every row a `Fate` in every step: it is `Kept` (nothing but its
  state changes, never back to an early one, to life only from life, to a usable
  one only when texted) or `Born`. One lemma per group of actions shows the fates,
  and each part of the invariant follows from them.
* `CodesKeepContract`: the refinement of `CodeContract` by every code. `IInv` does not
  say enough about decoys, so the proof adds `Called`: what was accepted was given to
  the provider, and a decoy is never marked or about to be sent. `Hush` is what a step other than the call of the provider does to a row;
  it and the one call (`SendCode`) map to steps of the contract (`QuietCode`).
* `LeasesCounted`, `RevokedForGood` (`KeyPoolProofs`): the first from `LInv`: the
  count of a key is the number of its leases, whatever the pool holds at the moment,
  since a refresh keeps the counts. The second from `Wiped` (a revoked row has no
  ciphertext): every step keeps a revoked row, a late resume because the row has
  moved on.
* `OfficialOnce` (`UsageProofs`): from `UInv`, for either kind of observation and with
  or without a log. `Source` says where a row may still come from (the file, the hand of the handler, the replay): once the row was counted and
  purged, nowhere. `Blank` says that a request not yet served has left no trace.
* `OneKeyTold`, `NoPassAfterRevoke` (`ProxyAuthProofs`): from `AInv`. `SeenNow`
  says that what a lookup has read, and what passed, was an active row at some
  moment since the request arrived.
* `KeysLead`, `ProtocolsKept`, `WizardOnce`, `ApprovalsSpentOnce`, `ChangesTold`,
  `LockExcludes` (`PartsProofs`): a process about to store a key has inserted its
  project, and rows stay (`KeyedInv`); a record that is saved has or leaves the protocol
  rows there are; a deployment with an approval has spent its nonce and fits it (`DInv`,
  `Fits`); a request about to change a row has the owner it read, no other is about
  to change it, and an event is not stored before the end (`ZInv`); operations that
  are alone and hold the lock exclude each other (`EInv`, `Exclusive`).
* `PartsTyped`, `PartsSafe` (`PartsProofs`): the type invariant and every safety
  invariant of the run `parts`, of the very specification it checks (`Spec` of
  `MCParts`), for every value of the constants. `PartsInv` is the conjunction of the
  invariants of the parts. A step of the run is a step or a stutter of each part
  (`OneMoves`); the keys of a buyer move alone or under the gateway's caches, so their
  part of the invariant depends on `focus` (`KeysInv`).

Only model-checked: the liveness properties `CasesClose`, `EveryCodeSettles`,
`WithdrawnLeaves` and `UsageDelivered`. `SettledBalanced`, `ReversedNetsToZero`,
`ActiveWins`, `PoolsApart`, `PublishedStays` over two processes, `PauseStops` and
`HardBound` are violated, see the findings. Liveness and ENABLED are
outside of what the prover does; so are the induction theorems of its library that
take an operator as a parameter: where `NeverOverdrawn` needs one, the proof goes by a
smallest counterexample instead. No module with theorems declares a recursive operator.

## 6. Not modelled, and why

In the ledger: rate versions, seller identities, evidence digests, tickets, audits: carried
along and never read. `remaining_minor`: written, never read for a decision.
Credentials and health: reduced to one bit. Sessions: their expiry, CSRF
tokens, bootstrap and the workspace switch only refuse, read or set a field that
nothing modelled reads. Row locks are modelled where a request holds them across
steps; where two operations lock in opposite order (`revoke_all` the session
before the user, `create_session` the user before its sessions) the database
aborts one, which changes nothing. A batch of the dispatcher holds twenty codes;
in the model, all there are. `draining_connection_id`: written
only. Persistence of the ledger: the repository has none.

Credential replacement of a connection and its health tick, which nothing calls;
the outbox worker of the
authorization events and its table of idempotent answers, which no route uses with
it; quota counters and scopes of proxy keys, checks on a single record. Gateway: the
scoring selector of shared projects with its capacity counters, the gate that limits
validations at once, `usageoutbox`, `coord`, `pricelock` and `runtimesnap`, which
`main.go` does not call on a request. Admin: passwords and codes, the catalogue and
the SLO views. Tooling: `doctor`, status and logs, reports, the parsing of
manifests, the release workflow on CI, back-up and migration scripts. Pure functions of
the gateway (filters, parsers, scores), the frontend, contracts and infrastructure:
no state that depends on order.

Hazards that no property covers are listed in `PROJECT.json` with the reason.

## 7. Plan

Done: all modules above, with proofs for all of them but `Retention` and `NativeRoute`,
whose properties are refuted. What remains,
in the order of what it would add:

1. Credential replacement of connections, and the outbox worker, at least once.
2. The locks of the rate registry against 041, as a violated run.
3. Proofs: the bounds of `Retention` that hold.
