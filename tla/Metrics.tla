------------------------------- MODULE Metrics -------------------------------
(***************************************************************************)
(* internal/metrics/metrics.go: totals, per-tenant and per-rule counters   *)
(* that requests bump concurrently and a Prometheus scrape reads.          *)
(*                                                                         *)
(* Every counter is an atomic.Int64, so an Add or a Load is one step.  The *)
(* counter of a tenant or a rule is a heap object which its first caller   *)
(* makes: the look-up under m.mu.RLock and the creation under m.mu.Lock    *)
(* are steps of their own, and the Add follows after both locks are gone.  *)
(* An object is identified by the call that made it.                       *)
(***************************************************************************)
EXTENDS Integers, FiniteSets

CONSTANTS Tenants, Rules,
          Recorders,    \* concurrent calls of RecordRequest and RecordRuleHit
          Scrapers,     \* concurrent requests to the metrics endpoint
          KeepLatencies,\* 1000 in the code
          MaxRequests,  \* bound on the calls of RecordRequest,
          MaxHits,      \* and of RecordRuleHit for one rule
          Nil

(* The counters of m.TenantRequests, m.TenantBlocked and m.RuleHits. *)
Requests(t) == <<"requests", t>>
Blocked(t) == <<"blocked", t>>
Hits(k) == <<"hits", k>>

Counters == ({"requests", "blocked"} \X Tenants) \union ({"hits"} \X Rules)

ASSUME NilAssumption == Nil \notin Recorders /\ Nil \notin Counters

ASSUME BoundAssumption ==
    /\ KeepLatencies \in Nat /\ MaxRequests \in Nat /\ MaxHits \in Nat
    /\ IsFiniteSet(Recorders)

VARIABLES total, blocked, allowed,  \* the three atomic totals
          slot,         \* slot[n]: the call that made the object in the map
          value,        \* value[n][r]: the object that call r made for n
          latencies,    \* the length of m.RequestLatencies
          rec,          \* rec[r]: progress of the recording call r, or Nil
          scrape,       \* scrape[s]: what the scrape s has read, or Nil
          asked         \* asked[n]: calls that are to count in n (recorded
                        \* for the properties)

totals == <<total, blocked, allowed>>
vars == <<totals, slot, value, latencies, rec, scrape, asked>>

(* A call that has still to count in m.TenantBlocked goes on to             *)
(* m.TenantRequests, one that counts a rule hit ends there.                  *)
Call == [step : {"outcome", "look", "make", "add", "latency"},
         name : Counters, blocked : BOOLEAN, made : Recorders \union {Nil}]

(* What a scrape has read so far: the totals, the sums of the tenants'       *)
(* counters, and the counters of the tenants that it has still to read; and  *)
(* (recorded for the properties) how many calls were under way when it read  *)
(* the total, and when it read the blocked ones.                             *)
Page == [step : {"blocked", "allowed", "lock", "tenants", "unlocked", "rules"},
         total : Nat, blocked : Nat, allowed : Nat, late : Nat, lateBlocked : Nat,
         requests : Nat, refused : Nat, left : SUBSET Counters]

ASSUME CallAssumption == Nil \notin Call /\ Nil \notin Page

TypeOK ==
    /\ total \in Nat /\ blocked \in Nat /\ allowed \in Nat
    /\ slot \in [Counters -> Recorders \union {Nil}]
    /\ value \in [Counters -> [Recorders -> Nat]]
    /\ latencies \in 0 .. KeepLatencies
    /\ rec \in [Recorders -> Call \union {Nil}]
    /\ scrape \in [Scrapers -> Page \union {Nil}]
    /\ asked \in [Counters -> Nat]

(* NewMetrics *)
Init ==
    /\ total = 0 /\ blocked = 0 /\ allowed = 0
    /\ slot = [n \in Counters |-> Nil]
    /\ value = [n \in Counters |-> [r \in Recorders |-> 0]]
    /\ latencies = 0
    /\ rec = [r \in Recorders |-> Nil]
    /\ scrape = [s \in Scrapers |-> Nil]
    /\ asked = [n \in Counters |-> 0]

-----------------------------------------------------------------------------
(* RecordRequest(t, refused, _), up to m.TotalRequests.Add(1). *)
Begin(r, t, refused) ==
    /\ rec[r] = Nil
    /\ total < MaxRequests
    /\ total' = total + 1
    /\ rec' = [rec EXCEPT ![r] =
                  [step |-> "outcome", blocked |-> refused, made |-> Nil,
                   name |-> IF refused THEN Blocked(t) ELSE Requests(t)]]
    /\ asked' = [n \in Counters |->
                    IF n = Requests(t) \/ (refused /\ n = Blocked(t))
                    THEN asked[n] + 1 ELSE asked[n]]
    /\ UNCHANGED <<blocked, allowed, slot, value, latencies, scrape>>

At(r, step) == rec[r] # Nil /\ rec[r].step = step

(* Fault: the outcome of a blocked request is not counted. *)
CountAllowed(r) ==
    /\ At(r, "outcome")
    /\ allowed' = IF rec[r].blocked THEN allowed ELSE allowed + 1
    /\ rec' = [rec EXCEPT ![r].step = "look"]
    /\ UNCHANGED <<total, blocked, slot, value, latencies, scrape, asked>>

CountOutcome(r) ==
    /\ At(r, "outcome")
    /\ IF rec[r].blocked THEN blocked' = blocked + 1 /\ UNCHANGED allowed
       ELSE allowed' = allowed + 1 /\ UNCHANGED blocked
    /\ rec' = [rec EXCEPT ![r].step = "look"]
    /\ UNCHANGED <<total, slot, value, latencies, scrape, asked>>

(* RecordRuleHit(k) *)
BeginHit(r, k) ==
    /\ rec[r] = Nil
    /\ asked[Hits(k)] < MaxHits
    /\ rec' = [rec EXCEPT ![r] = [step |-> "look", blocked |-> FALSE,
                                  made |-> Nil, name |-> Hits(k)]]
    /\ asked' = [asked EXCEPT ![Hits(k)] = @ + 1]
    /\ UNCHANGED <<totals, slot, value, latencies, scrape>>

(* getTenantRequests, getTenantBlocked and getRuleHits: the look-up ...      *)
Look(r) ==
    /\ At(r, "look")
    /\ rec' = [rec EXCEPT ![r] =
                  [@ EXCEPT !.made = slot[rec[r].name],
                            !.step = IF slot[rec[r].name] = Nil THEN "make"
                                     ELSE "add"]]
    /\ UNCHANGED <<totals, slot, value, latencies, scrape, asked>>

(* A scrape holds m.mu.RLock. *)
ReadLocked == \E s \in Scrapers :
                 scrape[s] # Nil /\ scrape[s].step \in {"tenants", "rules"}

(* Fault: no second look under the write lock. *)
MakeUnseen(r) ==
    /\ At(r, "make")
    /\ ~ReadLocked
    /\ slot' = [slot EXCEPT ![rec[r].name] = r]
    /\ rec' = [rec EXCEPT ![r] = [@ EXCEPT !.step = "add", !.made = r]]
    /\ UNCHANGED <<totals, value, latencies, scrape, asked>>

(* ... and the creation, unless there is one by now. *)
Make(r) ==
    /\ At(r, "make")
    /\ ~ReadLocked
    /\ slot' = [slot EXCEPT ![rec[r].name] = IF @ = Nil THEN r ELSE @]
    /\ rec' = [rec EXCEPT ![r] = [@ EXCEPT !.step = "add",
                                        !.made = slot'[rec[r].name]]]
    /\ UNCHANGED <<totals, value, latencies, scrape, asked>>

(* Fault: a blocked request is not counted as one of the tenant. *)
AfterEither(c) ==
    IF c.name[1] = "hits" THEN Nil ELSE [c EXCEPT !.step = "latency"]

(* What follows the Add: the other counter of a blocked request, the latency, *)
(* or nothing.                                                                *)
After(c) ==
    IF c.name[1] = "blocked"
    THEN [c EXCEPT !.step = "look", !.name = Requests(c.name[2]), !.made = Nil]
    ELSE IF c.name[1] = "requests" THEN [c EXCEPT !.step = "latency"]
    ELSE Nil

Add(r) ==
    /\ At(r, "add")
    /\ value' = [value EXCEPT ![rec[r].name][rec[r].made] = @ + 1]
    /\ rec' = [rec EXCEPT ![r] = After(rec[r])]
    /\ UNCHANGED <<totals, slot, latencies, scrape, asked>>

(* Fault: the list is not cut. *)
KeepEveryLatency(r) ==
    /\ At(r, "latency")
    /\ latencies' = latencies + 1
    /\ rec' = [rec EXCEPT ![r] = Nil]
    /\ UNCHANGED <<totals, slot, value, scrape, asked>>

(* Only the length of the list matters: GetAverageLatency divides by it. *)
KeepLatency(r) ==
    /\ At(r, "latency")
    /\ latencies' = IF latencies = KeepLatencies THEN latencies ELSE latencies + 1
    /\ rec' = [rec EXCEPT ![r] = Nil]
    /\ UNCHANGED <<totals, slot, value, scrape, asked>>

-----------------------------------------------------------------------------
(* What a reader is told of counter n. *)
Shown(n) == IF slot[n] = Nil THEN 0 ELSE value[n][slot[n]]

UnderWay == Cardinality({r \in Recorders : rec[r] # Nil})

(* Handler: the totals one by one, *)
ReadTotal(s) ==
    /\ scrape[s] = Nil
    /\ scrape' = [scrape EXCEPT ![s] =
                     [step |-> "blocked", total |-> total, late |-> UnderWay,
                      blocked |-> 0, lateBlocked |-> 0, allowed |-> 0, requests |-> 0, refused |-> 0, left |-> {}]]
    /\ UNCHANGED <<totals, slot, value, latencies, rec, asked>>

Reading(s, step) == scrape[s] # Nil /\ scrape[s].step = step

ReadBlocked(s) ==
    /\ Reading(s, "blocked")
    /\ scrape' = [scrape EXCEPT ![s] =
                     [@ EXCEPT !.step = "allowed", !.blocked = blocked,
                               !.lateBlocked = UnderWay]]
    /\ UNCHANGED <<totals, slot, value, latencies, rec, asked>>

(* (and the average latency, which is compared with nothing) *)
ReadAllowed(s) ==
    /\ Reading(s, "allowed")
    /\ scrape' = [scrape EXCEPT ![s] =
                     [@ EXCEPT !.step = "lock", !.allowed = allowed]]
    /\ UNCHANGED <<totals, slot, value, latencies, rec, asked>>

(* the counters of the tenants, which may go up but not appear meanwhile, *)
LockTenants(s) ==
    /\ Reading(s, "lock")
    /\ scrape' = [scrape EXCEPT ![s] =
                     [@ EXCEPT !.step = "tenants",
                               !.left = {n \in Counters : n[1] # "hits"
                                                          /\ slot[n] # Nil}]]
    /\ UNCHANGED <<totals, slot, value, latencies, rec, asked>>

Adding(p, n) ==
    LET shown(kind) == IF n[1] = kind THEN Shown(n) ELSE 0
    IN  [p EXCEPT !.left = @ \ {n}, !.requests = @ + shown("requests"),
                  !.refused = @ + shown("blocked")]

ReadTenant(s, n) ==
    /\ Reading(s, "tenants")
    /\ n \in scrape[s].left
    /\ n[1] = "blocked" => \A m \in scrape[s].left : m[1] = "blocked"
    /\ scrape' = [scrape EXCEPT ![s] = Adding(@, n)]
    /\ UNCHANGED <<totals, slot, value, latencies, rec, asked>>

UnlockTenants(s) ==
    /\ Reading(s, "tenants")
    /\ scrape[s].left = {}
    /\ scrape' = [scrape EXCEPT ![s].step = "unlocked"]
    /\ UNCHANGED <<totals, slot, value, latencies, rec, asked>>

(* and those of the rules, under the lock again. *)
LockRules(s) ==
    /\ Reading(s, "unlocked")
    /\ scrape' = [scrape EXCEPT ![s].step = "rules"]
    /\ UNCHANGED <<totals, slot, value, latencies, rec, asked>>

EndPage(s) ==
    /\ Reading(s, "rules")
    /\ scrape' = [scrape EXCEPT ![s] = Nil]
    /\ UNCHANGED <<totals, slot, value, latencies, rec, asked>>

Next ==
    \/ \E r \in Recorders :
          \/ \E t \in Tenants, refused \in BOOLEAN : Begin(r, t, refused)
          \/ \E k \in Rules : BeginHit(r, k)
          \/ CountOutcome(r) \/ Look(r) \/ Make(r) \/ Add(r) \/ KeepLatency(r)
    \/ \E s \in Scrapers :
          \/ ReadTotal(s) \/ ReadBlocked(s) \/ ReadAllowed(s)
          \/ LockTenants(s) \/ UnlockTenants(s)
          \/ \E n \in Counters : ReadTenant(s, n)
          \/ LockRules(s) \/ EndPage(s)

Spec == Init /\ [][Next]_vars
-----------------------------------------------------------------------------
(* Call r has still to count in n. *)
Owes(r, n) ==
    /\ rec[r] # Nil
    /\ \/ rec[r].name = n /\ rec[r].step # "latency"
       \/ rec[r].name[1] = "blocked" /\ n = Requests(rec[r].name[2])

Owing(n) == {r \in Recorders : Owes(r, n)}

(* No count is lost and none is made twice, however the look-ups, creations  *)
(* and Adds of first requests interleave: what a counter shows and what the  *)
(* calls under way still owe it add up to the calls made.                    *)
NoneLost ==
    \A n \in Counters :
        asked[n] = Shown(n) + Cardinality(Owing(n))

(* The outcomes on a page account for its total, but for the calls that were *)
(* under way when it was read, although each is loaded on its own and calls  *)
(* go on meanwhile.  (The converse does not hold: later calls may show in    *)
(* the outcomes and not in the total.)                                       *)
Complete(s) == scrape[s] # Nil /\ scrape[s].step = "rules"

PageAddsUp ==
    \A s \in Scrapers : Complete(s) =>
        scrape[s].total <= scrape[s].blocked + scrape[s].allowed + scrape[s].late

(* The same for the tenants: every request of the total that was recorded    *)
(* when the page began shows under a tenant, and every blocked one under its *)
(* blocked ones, although counters come into being while the page is read.   *)
TenantsAddUp ==
    \A s \in Scrapers : Complete(s) =>
        /\ scrape[s].total <= scrape[s].requests + scrape[s].late
        /\ scrape[s].blocked <= scrape[s].refused + scrape[s].lateBlocked

(* For its readers this is a table of counters that one at a time go up: the *)
(* objects, locks and half-done calls do not show.                           *)
Totals == {<<"total">>, <<"blocked">>, <<"allowed">>}

TableCount ==
    [n \in Counters \union Totals |->
        CASE n = <<"total">> -> total
          [] n = <<"blocked">> -> blocked
          [] n = <<"allowed">> -> allowed
          [] OTHER -> Shown(n)]

Table == INSTANCE CounterTable WITH Names <- Counters \union Totals,
                                    count <- TableCount

ImplementsTable == Table!Spec
=============================================================================
