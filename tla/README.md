# The WAF's control plane in TLA+

TLA+ models of the Go program in `src/internal` (a multi-tenant web application
firewall: a reverse proxy that inspects requests with one rule engine per
tenant, and an HTTP API to manage tenants and certificates), the TLC
configurations that check them on small instances, and proofs of what holds for
every instance.

## 1. Inventory

| Component (under `src/internal`) | State | Operations | Used by |
|---|---|---|---|
| Tenant manager `tenant/manager.go` | `tenants`, `domains`, `wafs` under one RWMutex | Create, Update, Delete, Get, List, GetTenantByDomain, GetWAFEngine, Close | API, router |
| Tenant storage `storage/` | rows by tenant id: a map, or a PostgreSQL table | Save (upsert), Get, List, Delete | tenant manager |
| Cache `cache/` | tenant copies by `tenant:<id>` with a time to live: a map, or Redis | Set, Get, Delete, Exists, clean-up | tenant manager (Set, Delete), API (Exists) |
| Rate limiter `ratelimit/` | a token bucket per client | Allow, GetRemaining, Reset, Cleanup | the wiring in `cmd/waf` (not in the sources) |
| Certificate manager `cert/manager.go` | `certs`, `domainIndex`, three files per certificate | AddUploadedCert, DeleteCert, GetCertificate (TLS handshake), ExpiringSoon, loadFromDisk | API, TLS listener, ACME manager |
| ACME manager `cert/acme.go` | `challenges`; provisioning goroutines | GetCertificate, provisionCert, HTTPHandler, checkAndRenew | certificate manager |
| Reverse proxy `proxy/proxy.go` | one transaction per request | ServeHTTP, handleInterruption | TLS/HTTP listener |
| Tenant router `tenant/router.go` | none | GetTenantFromRequest, Middleware | listener |
| Metrics `metrics/metrics.go` | atomic totals, maps of counters | RecordRequest, RecordRuleHit, Handler | proxy |
| API `api/handler.go` | none | one tenant-manager or certificate-manager call per request | dashboard |
| Dashboard `dashboard/src` | React pages; polls the API every 5 s | list, create, edit, delete | operators |
| Configuration, logging | read at start-up | | all |

How they interact.  A request is routed by its Host to a tenant
(`domains`), then to that tenant's engine (`wafs`); the two look-ups take the
read lock separately.  API calls change the maps, the row in storage and the
cached copy, in that order, under the write lock - except that GetTenant and
ListTenants read storage without the lock and install what they read
afterwards.  The process may crash at any time: PostgreSQL and Redis survive,
everything else starts empty, and nothing but GetTenant and ListTenants ever
reads the stored tenants back.

What is hard, per component, and what makes it correct:

* *Tenant manager and storage.*  Unlocked read-then-install windows; an update
  that fails halfway (engine, storage); a storage call that fails after it took
  effect; restarts.  Correct: a route leads to the current version of a tenant
  that has an open engine of that version; engines are closed when they are
  replaced; memory follows storage; one tenant cannot touch another one's routes.
* *Rate limiter.*  Boundaries in time; a computation done twice (Allow and
  GetRemaining); clean-up of live state.  Correct: a bound on what gets through in
  any window, nobody denied early, clean-up unobservable.
* *Certificates.*  Unlocked index writes, repeated uploads, three renames and a
  crash between them, renewal that must eventually happen.  Correct: an indexed
  domain has a certificate whose files match, before and after a restart.
* *ACME.*  Provisionings nobody coordinates, an authority that answers late or
  never, restarts while a certificate is stored.  Correct: a token under
  examination is answered, the map keeps nothing it need not, what was
  provisioned stays served, every provisioning ends.
* *Request path.*  Tenants and engines that change between the look-ups and while
  the engine is used; early returns and a panic with deferred calls behind them.
  Correct: a request whose tenant is left alone is inspected by the engine of that
  tenant's version; a transaction has one owner; nothing refused is forwarded.
* *Metrics.*  Counters made by their first caller; a scrape in the middle of
  requests.  Correct: no count is lost, pages add up.
* *Replicas.*  Several processes over one PostgreSQL, each with maps of its own.

The full list, line by line, is `hazards` in `PROJECT.json`.

## 2. Modules

| Module | Models | State and actions against the code |
|---|---|---|
| `TenantStorage` | `storage/`, `tenant/conversion.go` | `rows`; one operator per call and outcome (`Save`, `SaveFails`, ...) for the three bindings of the interface (`Backend`) |
| `TenantCache` | `cache/` as the tenant manager uses it | `cached`; `CacheSet`, `CacheDelete`, `CacheExpire` |
| `TenantManager` | `tenant/manager.go` | see below |
| `TenantRegistry` | the abstract specification of the tenant manager | a table of tenants and a routing table, one atomic change per request |
| `RateLimiter` | `ratelimit/ratelimit.go` | `buckets`, a clock `now`; `Admit`/`Deny` are the two outcomes of Allow |
| `RateWindows` | the abstract specification of the rate limiter | a fixed window per client: when it began and how much of it is used |
| `CertManager` | `cert/manager.go` | `certs`, `index`, the files `key`, `crt`, `meta`; see below |
| `RequestPath` | `tenant/router.go`, `proxy/proxy.go`, GetTenantByDomain, GetWAFEngine; extends `TenantManager` | `req`, one request from its host to ProcessLogging; `pool`; see below |
| `Acme` | `cert/acme.go`; extends `CertManager` | `prov`, `challenges`, and `authz` and `issued` at the authority; see below |
| `Metrics` | `metrics/metrics.go` | the three totals, `slot` and `value` (the maps and the counters in them), `rec` and `scrape` (calls under way); see below |
| `CounterTable` | the abstract specification of the metrics | named counters that go up one at a time |
| `MCTenantManager`, `MCRequestPath`, `MCRateLimiter`, `MCCertManager`, `MCAcme`, `MCMetrics` | | symmetry sets and values for TLC |
| `TenantManagerProofs`, `RequestPathProofs`, `RateLimiterProofs`, `CertManagerProofs`, `AcmeProofs`, `MetricsProofs`, `MetricsPageProofs` | | theorems and proofs |

**TenantManager.**  `tenants`, `domains`, `wafs` are the fields of the Go
struct.  A tenant is its id, its set of domains and one value `content` for
everything else (name, rules, config); an engine is the content it was built
from and whether it is open.  CreateTenant, UpdateTenant and DeleteTenant hold
`tm.mu` throughout, so each *outcome* of a call is one action: `CreateTenant`,
`CreateUnsaved` (SaveTenant failed, roll-back), `UpdateTenant`,
`UpdateBuildFails` (the new engine cannot be built, after routes and engine are
gone), `UpdateUnsaved`, `DeleteTenant`, `DeleteUnsaved`.  GetTenant is the
sequence `GetMiss`, `GetLoad` or `GetNotFound`, `GetInstall`, `GetPublish` or
`GetBuildFails`, because it releases the lock between them; ListTenants is
`ListLoad`, `ListInstall`.  Calls that are refused and change nothing are not
actions.  `leaked` and `closing` are history variables of the properties.  The
order in which MemoryStore lists tenants is a Go map's random order: `ListInstall`
chooses a ranking.

PostgreSQL's `ReadRow` is always an error: `PostgresStore` scans `TEXT[]` into
`[]string`, which `database/sql` cannot do (`storage/postgres.go:107`, `:150`).
That is a property of the driver, modelled by what it does; see the first
finding (the findings are listed in `PROJECT.json`).  A consequence is that with PostgreSQL GetTenant and ListTenants never
install anything, which is why the strict route and engine invariants hold there
and not with the in-memory store.

**RateLimiter.**  Ticks stand for time; `Interval` ticks are `rl.interval`.  An
action reads the clock once (Allow reads it twice under its lock, nanoseconds
apart).  `spent` and `window` are observers: what a client used since its
bucket was last full, and the requests admitted since a moment of the observer's
choice (`Open`), however long ago.  `ImplementsWindows` maps a bucket that has lost a
token and is less than an interval old to an open window of `RateWindows`, any other
to none: since Allow moves `lastUpdate` to the time of the call and never to a
multiple of the interval, a bucket is a window that its first request opens.

**CertManager.**  `certs` and `index` are `m.certs` and `m.domainIndex`; `key[i]`
and `crt[i]` name the pair that the file of certificate `i` is part of, `meta[i]`
is its `.json` file.  A certificate is its id, its domains and its pair.  The id is
the tenant and the last twelve digits of the serial number, so the same id can be
uploaded again with other domains (sent along by the API) or another pair.
AddUploadedCert takes no lock, so it is a sequence: `BeginUpload` (key in place),
`WriteCrt` or `CrtFails`, `WriteMeta` or `MetaFails` and `UndoKey`, `IndexCert`, one
`IndexDomain` per domain.  DeleteCert excludes other holders of `m.mu`, but a crash or
an upload may come between its steps: `BeginDelete`, `DeleteKey`, `DeleteMeta`, then
for each domain `CheckDomain` (is the entry its own?) and `DropEntry` (delete it),
and `DropCert`.  Since index writes the entry without the lock, an upload may take the
domain between those two, and `DropEntry` then removes the entry of the new
certificate: a bug of the code, see the findings.  `DeleteSparesOthers` says exactly
how far the damage goes: the one entry a delete has just looked at (`found`) may be lost
if it changed hands since, every other entry of another certificate is spared; and a
domain that another certificate served when the delete took the lock (`others`, a
history variable) is spared even then.  A handshake looks a certificate up (`LookupName`, `LookupAny`) and reads the
files afterwards (`Serve`, `ServeFails`): without the lock if the client named a
server.  `Restart` is loadFromDisk after a crash or an exit at any moment.
`disturbed` is a history variable: the ids whose calls overlapped or were cut
short since their last upload began; most properties speak of the others, the
`Settled` ones.  Abstractions: a crash is one of the process (what was renamed
stays); `os.Remove` succeeds; a handshake reads its two files in one step, and
atomicWrite is one step - the temporary file two uploads of one id share
only affects ids that are `disturbed`; two goroutines in one map are either noticed
by the Go runtime, which ends the process, or happen in some order; requests that
are refused and look-ups that find nothing change nothing and are not actions.

**RequestPath.**  The composition of the data plane with `TenantManager`: a step is
one of a request (`Serve`), which leaves the tenants alone, or a call of the
tenant manager (`Manage`), which marks the requests about the tenants it changes.
Router: `Arrive` or, when the first GetTenantByDomain finds nothing,
`ArriveUnknown` and `TryWildcard`, with the checks of Middleware.  `PickEngine` is
GetWAFEngine, in a critical section of its own; ServeHTTP is `NewTransaction`,
`PassHeaders`, `PassBody`, `Forward`, `InspectResponse`, each with the ways it may
end otherwise (`Interrupt`, `BodyUnreadable`, `Panic`), and the deferred calls
`CloseTransaction`, `ProcessLogging` in the order in which they run.  What the WAF
finds and what the upstream answers are choices.  A request that holds an engine
keeps its content and whether it is open; `touched` (whether its tenant was
changed since it was routed) is a history variable.  `pool` counts how
often the WAF library's pool holds a transaction object: NewTransaction takes one,
Close puts it back.  GetTenant and ListTenants do not occur here: without a store,
and with PostgreSQL as it is read, they install nothing.  Of domain names
only this is kept: which wildcard covers which name, and which of them is "*".
Responses, headers and addresses are left out; that a request passes is a choice
whether or not the engine looks at bodies.  The handler between router and proxy
(`cmd/waf`) is not in the sources; it is taken to look the engine up and to
serve.

**Acme.**  A handshake that finds no certificate may start a provisioning
(`Trigger`), any number of them for one name.  provisionCert is the sequence
`Order`, `Store`, `Accept`, `Wait`, `Clean`, `Finalize` and then the steps of
AddUploadedCert in `CertManager` (`StoreCert`, `UploadFails`); `Fail` is any of
its error returns, the end of its five-minute context included.  The other uploaders
are calls of the API's upload handler: `UploadByHand` begins to store any certificate
of any tenant, for ACME's domains as for others, and goes through the same steps.  `Validate` is
HTTPHandler asked by the authority, `Refuse` an authority that does not get
through.  The authority may give two orders of one name the same authorization and
token, as it may do while an authorization counts; each certificate it issues has a
serial number, hence an id, of its own.  `Delete` and `Reboot` extend the
certificate manager's.  `asked`, `left` and `kept` are history variables.  `kept`,
which `KeptServed` is about, are the domains that were provisioned and that nothing has
endangered since.  A domain leaves it for one of these, each of which the code lets
unserve it: the certificate that serves it is deleted; it is uploaded again (a failure
then removes the files that serve it); the domain is given to another certificate just
when a delete has looked at its entry, or to one whose calls have overlapped or were cut
short (`Endangered`); the process restarts while a certificate uploaded by hand
that claims the domain is damaged or at work (it may come last in the directory and win
the domain).  That the domain passes to another certificate, by hand or by ACME, is no
such reason: it is served by that one then.
Abstractions: an order has one authorization, because it is for one name;
what autocert obtains and caches on its own is external and touches nothing
modelled here; no tenant is named "acme" (nothing forbids it; the ids of its certificates
could be those of ACME's if the serial numbers end alike); the key and
the CSR are part of the certificate.  The renewal checker is no action: it
renews what ExpiringSoon returns, which is nothing.

**Metrics.**  An atomic Add or Load is one step, as is a critical section of `m.mu`.
`slot[n]` is the object that the map holds for counter `n`, named after the call
that made it, and `value` its content, so that two first callers may hold different
objects.  RecordRequest: `Begin`, `CountOutcome`, then for each counter `Look`,
`Make` if there is none, `Add`, and `KeepLatency`; RecordRuleHit: `BeginHit` and
the same.  Handler: `ReadTotal`, `ReadBlocked`, `ReadAllowed`, `LockTenants`,
`ReadTenant` per counter in any order (a Go map), `UnlockTenants`, `LockRules`,
`EndPage`; creations wait while a scrape holds the read lock, Adds do not.  Of the
latencies only the length of the list is kept.  Counters do not overflow:
an int64 takes 2^63 requests.

The operators commented "Fault:" are the changed definitions used to show that
each property can fail; no specification uses them.

## 3. Runs

| Run | Bounds | Shows |
|---|---|---|
| `tm_postgres` | 2 tenants, 2 domains, 2 contents, one GetTenant, one ListTenants, failing statements | the safety invariants and `ImplementsRegistry` through all partial failures, restarts and Close |
| `tm_memory` | 2 tenants, 1 domain, one GetTenant, one ListTenants, in-memory store and cache | `StoredIsLoaded`, `CacheMatchesStore`, `WriteThrough`, and that orphaned routes and stale copies heal |
| `tm_persist` | 1 tenant, PostgreSQL | **violated**: a stored tenant is not found after a restart |
| `tm_resurrect` | 1 tenant, in-memory store | **violated**: ListTenants brings a deleted tenant back |
| `tm_isolation` | 2 tenants, 2 domains, no store | **violated**: an update takes a domain from another tenant |
| `ratelimit` | 2 clients, rate 2, interval 2 ticks, 7 ticks | the bounds on what gets through, no early denial, GetRemaining and clean-up, `ImplementsWindows` |
| `rate_burst` | 1 client, rate 2, interval 3 | **violated**: more than `rate` requests within one interval |
| `certs` | 2 ids, a domain and its wildcard, a certificate for both and 2 versions of another for either, 1 upload at a time, 1 handshake | files and memory agree, handshakes load what they found, restarts keep what was served and deleted, deletes spare other certificates |
| `cert_reupload` | the same without handshakes | **violated**: a certificate uploaded again for other domains keeps its former ones in the index |
| `metrics` | 2 tenants, 1 rule, 2 recording calls, 1 scrape, 2 requests, 1 rule hit | no count is lost, pages add up, `ImplementsTable` |
| `requests` | 2 tenants, PostgreSQL with failing statements, a wildcard domain that both claim and a host it covers, 2 contents (one of a disabled tenant), 2 requests, 2 transactions | requests next to every call that changes their tenant or the other one |
| `acme` | 1 domain, 2 certificates (one to be issued, one to be uploaded by hand), 2 provisionings, 1 upload by hand at a time, 1 token | answers, challenges, what stays served, that no provisioning goes back and that every one ends |

Why the bounds are enough.  Two tenants and one domain already give every
conflict over a route; a second domain gives updates that keep one and drop
one; two contents tell an engine of the old version from one of the new.  One
call of GetTenant and one of ListTenants race each other and any number of
locked calls; a second call of the same kind installs what the first one may.
For the rate limiter seven ticks hold three refills and a clean-up (which needs
five ticks without a refill) and counts that start anywhere and go on over several refills; rate 2
tells "one" from "all".  A certificate for two names and another one
that is uploaded now for the one, now for the other, give every conflict over an entry
of the index, an upload that takes an entry between a delete's two steps included; one upload at a time already meets deletes, handshakes and
crashes between its steps, and concurrent uploads, which are too many states for a
run of minutes, are covered by the proofs.  Two recording calls are
what it takes to race for a counter, and two requests to have one of each outcome;
a second tenant is one whose counters appear during a scrape.  Two requests with two
transactions can hold each other's.  Two tenants that claim one name are what
it takes to change the route under a request without touching its tenant: an engine
looked up by the name and not by the tenant found before is then the wrong one, which
`UndisturbedIsServed` notices and which no run with one tenant shows.  A second name, and
the catch-all, are too many states for a run of minutes and are left to the proofs.
The rows in storage are left out of the view in which TLC compares states: with
PostgreSQL nothing reads them back, and a delete does the same to the maps whether or not
the row is there.
Two provisionings of one name can share a token, overtake each other and fail
one by one; the certificate uploaded by hand takes the domain from the provisioned one
and gives it back, and each may be stored, fail or be deleted while the other is.
There is one certificate to issue, so that a second provisioning ends at its last step;
more certificates, tokens and domains are left to the proofs.
What the proofs cover does not depend on any of this.

Fairness (`FairSpec`, only for `RoutesHeal` and `StaleCopyHeals`): a call of
ListTenants that has read storage goes on to install it (a goroutine that needs
only a mutex nobody keeps), and ListTenants is called again and again while there
is something to list: `dashboard/src/pages/Dashboard.jsx:13` polls it every 5 s
while an operator has the page open.  Without any caller nothing heals, so the
two properties are statements about a system somebody looks at.  No fairness is
assumed of updates, expiry or restarts.

`AcmeSpec` (for `ProvisioningEnds`): a provisioning that can take a step without
the authority, or give up, does so in the end: it is a goroutine of its own, the
mutexes it needs are released by whoever holds them, every call of the
authority takes the context of five minutes (`acme.go:103`), and the writes of the
certificate's files return.  Of the authority, of handshakes, deletes and restarts
nothing is assumed; nor is it that any provisioning succeeds.

The run `metrics` does not check deadlock: its bounds let every call and every scrape
come to an end.

## 4. Proofs

`TenantManagerProofs`, for any finite or infinite sets of tenants, domains,
contents and calls:

* `TypeCorrect`: types are inductive as they stand, one lemma per action.
* `RoutesAlwaysLive`, `RoutedAlwaysServed`, `EnginesAccounted`: the three
  invariants are proved as one strengthened invariant, for every backend but
  the in-memory store.  None is inductive alone: that `UpdateTenant`
  may remove just `existing.Domains` needs that every route to a tenant lies
  within the domains of its version in memory; that a route is served needs the
  ledger, which needs that no GetTenant is past its read.  The latter
  (nobody has loaded anything, the backend reads nothing back) is the part that
  confines the theorems to the backends "none" and "postgres".
* `LoadedAlwaysPersisted`, `RoutedAlwaysPersisted` (PostgreSQL): a tenant in memory
  has a row, a routed one its very version - a failed save may leave another version in the row, but only after
  the routes were deleted.
* `StoredAlwaysLoaded`, `CacheAlwaysMatches` (in-memory store): rows without
  faults are a function of the calls; what GetTenant and ListTenants install
  only adds entries.
* `WritesGoThrough` (in-memory store): a step that changes a row or its copy in
  memory leaves the two equal, unless it installs what a reader holds.
* `RegistryImplemented`: every step is a step of `TenantRegistry` or changes
  none of its variables; uses the strengthened invariant.

Two theorems name the cause of what the violated runs show, and that there is no
other.  `DisjointIsIsolated`: as long as no two tenants in memory claim the same
domain, which nothing in the code enforces for updates, `Isolation` holds.
`GhostsAreReadCopies`: with the in-memory store, if no tenant is deleted while a
reader holds a copy of it, `DeletedStaysGone` holds; the invariant is `NoGhosts`
(what a reader holds is stored).  Both hypotheses restrict the behaviours, not the
constants, and many behaviours meet them: those of operators who share no domains,
and those in which deletes and reads take turns.

`RateLimiterProofs`, for any clients, any rate, any positive interval and an
unbounded number of requests up to any `MaxNow`: `WindowAlwaysBounded` says that
from any moment on, for any length of time, a client gets through at most `Rate`
requests for each interval that has begun and `Rate` more; it rests on an
invariant that relates the count, the tokens of the bucket, and the intervals begun
between the start of the count and the last refill (`Observed`).  `NobodyDeniedEarly` rests on
tokens + spent = Rate; `RemainingIsGranted` and `CleanupNeverObserved` follow from the
types.  `BucketsAreWindows` is the refinement: every step of the limiter, a clean-up
and a refill that comes late included, is a step of `RateWindows` or none.  It
needs that a bucket is only ever made or refilled for a request it then admits, so
that no full bucket stays behind (`PeriodInv`).

`CertManagerProofs`, for any certificates and domains and any number of uploads and
handshakes at once: all properties of the run `certs`.  `DiskAgrees` (memory and the
files of a settled certificate agree) is not inductive: the files of a
certificate whose call is under way differ from memory in a way that depends on the
step.  The strengthened invariant `IInv` adds what holds then:
`UploadsProgress` says for an undisturbed upload which files are already those of
the new certificate and what a failure will leave, `DeleteProgress` which files are
already gone, and `Keyed` that entries carry their own ids.  The action properties
`HandshakeFailsOnlyIfTouched`, `RestartAlwaysServes` and `DeleteNeverUndone`
follow from it.  `DeleteAlwaysSpares` needs one more invariant (`Spared`): a domain that
was another certificate's when the delete took the lock does not come to the id that is
being deleted unless an upload of that id is at work, which makes the id disturbed; so
the entry the delete has found was its own, and remained so, or has changed hands since.

`ServesOnlyConfigured` is about `OnlyConfigured`, which the run `cert_reupload` finds
violated: under `DomainsFixed` (an id is uploaded again only for the domains it had, which
the API does not check) it holds, through concurrent uploads, deletes and crashes, so
that changed domains are its only cause.  Its invariant: whatever is in memory, on disk
or in a call is one of the certificates offered (`Known`), an entry of the index names a
certificate that claims the domain (`Claimed`), and one that is there, unless calls have
met over it and the upload that follows has not yet come to the map (`Present`); and a
delete that has not finished still has before it every entry that leads to its
certificate (`ToGo`).

`RequestPathProofs`, for any tenants, domains, contents, transactions and any finite
set of requests: all properties of the run `requests`, without a store or with
PostgreSQL.  `ManagerGoesOn` shows that the composition is the tenant manager with
requests next to it, so that every theorem of `TenantManagerProofs` holds here
(`RequestsSeeRegistry`: what requests are routed by is the abstract registry).
`UndisturbedAlwaysServed` needs them: that a request between its look-ups finds an
engine of the version it was routed to is `RoutedIsServed` at the time of the
first look-up, carried over the calls about other tenants.  `TransactionsOwnedOnce`
counts: a step moves one object between the pool and the owners.

`AcmeProofs`, for any number of domains, tokens, certificates and provisionings.
`CertManagerGoesOn`: every behaviour with provisionings is one of the certificate
manager, so that what `CertManagerProofs` says holds here (`DiskAgreesWithAcme`).
`AlwaysAnswerable` is not inductive: that the map holds a token under examination
rests on the fact that whoever removes it has seen the authorization valid, and a
token that is not in the map any more has an authorization that was decided
(`Standing`).  `KeptAlwaysServed` holds with any number of uploads by hand of the same domains.  It
rests on `DiskAgrees`
and on what concurrent provisionings cannot do to each other, because each stores an
id that the authority has never issued before (`IssuedOnce`, `Young`, `Matched`); its
invariant `KeptOnDisk` says of each kept domain that it is `Safe`: the certificate that
serves it is on disk as it is in memory, claims it, and neither a delete nor a call over the
same id is about to take it away.  `AcmeServesOnlyConfigured` is
`OnlyConfigured` for the entries that lead to ACME's certificates, whatever is uploaded by
hand: it needs no `DomainsFixed`, since an id the authority issues once never changes
its domain.
`ProvisioningAdvances` is the safety half of `ProvisioningEnds`: `StepsLeft`, at most
ten, goes down with every step of a provisioning and of the upload it ends with, whatever
the authority answers.  With it only the fairness of single steps is left to TLC.

`MetricsProofs`, for any tenants, rules, scrapes, and any finite set of recording
calls: `NothingLost` with an invariant that the object a call holds is the one in
the map, which only the second look under the write lock guarantees;
`PagesAddUp` with one that relates a half-read page to the totals and to the calls
still under way; `CollectorIsTable`: a step makes no change that a reader sees, or is an Increment.

`MetricsPageProofs`, for the same and any set of tenants, even an infinite one:
`TenantPagesAddUp`.  A sum over the counters would need an induction over the set of
tenants, so it is stated as the number of units that the counters show, a set in which a
step adds one element and reading a counter moves some.  The invariant `TallyInv` says
that the units and the calls still owing one make up the totals (`Ledger`), and that what
a page has read and what it has still to read account for the totals it began with
(`PagesTallied`).

Assumptions: the named ASSUMEs of each module, nothing else.  A cache of kind
"redis", whose calls may fail, appears in no run but in all theorems of
`TenantManagerProofs` that do not name the in-memory store.

Only model-checked: the liveness properties `RoutesHeal`, `StaleCopyHeals` and
`ProvisioningEnds`, because fairness is out of the prover's reach.  Every other
property of the passing runs is a theorem.

## 5. Not modelled, and plan

* *The rule engine* (`internal/waf`) and the wiring in `cmd/waf` are not in the
  sources: a build error, a verdict, a panic are choices, and the restart is
  external.
* *API.*  The handlers keep no state.  Each makes one call of a manager, which is an
  action here; decoding and status codes are left out.
* *Configuration, logging.*  Read once at start-up, and output.
* *Dashboard.*  A client of the API; its poll is the fairness of `FairSpec`.
* *The cache's clock.*  An entry that has expired and is not cleaned up yet is still
  there for Exists and gone for Get; the tenant manager never reads the
  cache, so nothing depends on it.  `TenantCache` lets an entry expire at any time.
* *Renewal.*  checkAndRenew runs at an interval and never finds anything; see the findings.

A tenant's domain list is a set: its order and duplicates do not matter to any map
operation.

Read from the code while modelling `CertManager`, and not a finding: deleting
the newer of two certificates for a domain leaves the domain unserved, though the
older one is still there, until the next restart indexes it again; a restart
indexes certificates in directory order and may give a domain to an older one.

Left for later: `Cluster`, several tenant managers over one `TenantStorage`, which
accept the same domain because each checks its own maps (today a replica reads
nothing of another one's, since rows cannot be read back, see the first finding); and
a composition of `TenantManager` and `CertManager` for certificates of deleted
tenants.
