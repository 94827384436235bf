---------------------------- MODULE TenantManager ----------------------------
(***************************************************************************)
(* internal/tenant/manager.go: the tenants, the domain routes and the WAF  *)
(* engines of one process, over a storage and a cache.                     *)
(*                                                                         *)
(* CreateTenant, UpdateTenant and DeleteTenant hold tm.mu from start to    *)
(* end, and storage sees one call from each, so each way through them is   *)
(* one action.  GetTenant and ListTenants talk to storage WITHOUT tm.mu    *)
(* and take it afterwards to install what they read: each of their         *)
(* critical sections, and each storage call, is an action of its own.      *)
(*                                                                         *)
(* Requests that fail a check change nothing and are not actions.          *)
(***************************************************************************)
EXTENDS TenantCache, FiniteSets, Naturals, Functions

CONSTANTS Getters,      \* concurrent calls of GetTenant
          Listers       \* concurrent calls of ListTenants

VARIABLES tenants,      \* tm.tenants
          domains,      \* tm.domains
          wafs,         \* tm.wafs
          leaked,       \* an engine left tm.wafs without having been closed
          closing,      \* Close has been called (recorded for the properties)
          get,          \* get[g]: progress of the GetTenant call g, or Nil
          list          \* list[l]: what the ListTenants call l has read

maps == <<tenants, domains, wafs>>
calls == <<get, list>>
vars == <<maps, leaked, closing, calls, rows, cached>>

(* A *waf.Engine: the content it was built from, and whether it was closed. *)
Engine == [content : Contents, open : BOOLEAN]

Lookup == [step : {"missed"}, id : Ids, row : {Nil}]
          \union [step : {"loaded", "installed"}, id : Ids, row : Tenant]

ASSUME EngineNilAssumption == Nil \notin Engine /\ Nil \notin Lookup

TypeOK ==
    /\ StorageTypeOK
    /\ CacheTypeOK
    /\ tenants \in [Ids -> Tenant \union {Nil}]
    /\ domains \in [Domains -> Tenant \union {Nil}]
    /\ wafs \in [Ids -> Engine \union {Nil}]
    /\ leaked \in BOOLEAN
    /\ closing \in BOOLEAN
    /\ get \in [Getters -> Lookup \union {Nil}]
    /\ list \in [Listers -> SUBSET Tenant]

(* NewTenantManager *)
Init ==
    /\ StorageInit
    /\ CacheInit
    /\ tenants = [i \in Ids |-> Nil]
    /\ domains = [d \in Domains |-> Nil]
    /\ wafs = [i \in Ids |-> Nil]
    /\ leaked = FALSE
    /\ closing = FALSE
    /\ get = [g \in Getters |-> Nil]
    /\ list = [l \in Listers |-> {}]

-----------------------------------------------------------------------------
(* Fault: an engine remembers its tenant instead of the tenant's content. *)
NewEngineOfTenant(t) == [content |-> t, open |-> TRUE]

(* createWAFEngine *)
NewEngine(t) == [content |-> t.content, open |-> TRUE]

(* Close of the engine of tenant i, if it has one. *)
Closed(i) == IF wafs[i] = Nil THEN Nil ELSE [wafs[i] EXCEPT !.open = FALSE]

(* The entry of tenant i is overwritten while its engine is still open. *)
Abandons(i) == wafs[i] # Nil /\ wafs[i].open

(* Fault: the old routes are not deleted. *)
RoutesKept(ds) == domains

(* The maps after the routes of the domains ds are deleted. *)
Unrouted(ds) == [d \in Domains |-> IF d \in ds THEN Nil ELSE domains[d]]

(* Existing(i): the tenant UpdateTenant and DeleteTenant work on: the one in *)
(* memory, or else the stored one; Nil when the request fails.               *)
Existing(i) == IF tenants[i] # Nil THEN tenants[i] ELSE ReadRow(i)

-----------------------------------------------------------------------------
(* Fault: nobody asks whether the domains are mapped already. *)
CreatableAnywhere(t) == t.doms # {} /\ tenants[t.id] = Nil

Creatable(t) ==
    /\ t.doms # {}
    /\ tenants[t.id] = Nil
    /\ \A d \in t.doms : domains[d] = Nil

CreateTenant(t) ==
    /\ Creatable(t)
    /\ Save(t)
    /\ CacheSet(t)
    /\ tenants' = [tenants EXCEPT ![t.id] = t]
    /\ wafs' = [wafs EXCEPT ![t.id] = NewEngine(t)]
    /\ leaked' = (leaked \/ Abandons(t.id))
    /\ domains' = [d \in Domains |-> IF d \in t.doms THEN t ELSE domains[d]]
    /\ UNCHANGED <<closing, calls>>

(* Fault: no roll-back. *)
CreateUnsavedKept(t) ==
    /\ Creatable(t)
    /\ SaveFails(t)
    /\ tenants' = [tenants EXCEPT ![t.id] = t]
    /\ wafs' = [wafs EXCEPT ![t.id] = NewEngine(t)]
    /\ leaked' = (leaked \/ Abandons(t.id))
    /\ UNCHANGED <<domains, closing, cached, calls>>

(* SaveTenant fails: the new entries are rolled back, the new engine closed. *)
CreateUnsaved(t) ==
    /\ Creatable(t)
    /\ SaveFails(t)
    /\ tenants' = [tenants EXCEPT ![t.id] = Nil]
    /\ wafs' = [wafs EXCEPT ![t.id] = Nil]
    /\ leaked' = (leaked \/ Abandons(t.id))
    /\ UNCHANGED <<domains, closing, cached, calls>>

UpdateTenant(t) ==
    /\ Existing(t.id) # Nil
    /\ Save(t)
    /\ CacheReplace(t)
    /\ tenants' = [tenants EXCEPT ![t.id] = t]
    /\ wafs' = [wafs EXCEPT ![t.id] = NewEngine(t)]
    /\ domains' = [d \in Domains |->
                      IF d \in t.doms THEN t
                      ELSE Unrouted(Existing(t.id).doms)[d]]
    /\ UNCHANGED <<leaked, closing, calls>>

(* Fault: the old engine is closed before the routes to it are deleted. *)
UpdateBuildFailsRouted(i) ==
    /\ Existing(i) # Nil
    /\ wafs' = [wafs EXCEPT ![i] = Closed(i)]
    /\ UNCHANGED <<tenants, domains, leaked, closing, rows, cached, calls>>

(* The new engine cannot be built: waf.NewEngine rejects the rules, or the   *)
(* request carries no config and createWAFEngine dereferences nil (net/http  *)
(* recovers, the deferred unlock runs).  Routes and engine are gone already. *)
UpdateBuildFails(i) ==
    /\ Existing(i) # Nil
    /\ domains' = Unrouted(Existing(i).doms)
    /\ wafs' = [wafs EXCEPT ![i] = Closed(i)]
    /\ UNCHANGED <<tenants, leaked, closing, rows, cached, calls>>

(* Fault: the domains are mapped before the tenant is saved. *)
UpdateUnsavedRouted(t) ==
    /\ Existing(t.id) # Nil
    /\ SaveFails(t)
    /\ tenants' = [tenants EXCEPT ![t.id] = t]
    /\ wafs' = [wafs EXCEPT ![t.id] = NewEngine(t)]
    /\ domains' = [d \in Domains |->
                      IF d \in t.doms THEN t
                      ELSE Unrouted(Existing(t.id).doms)[d]]
    /\ UNCHANGED <<leaked, closing, cached, calls>>

(* SaveTenant fails: the new tenant stays in memory, without routes. *)
UpdateUnsaved(t) ==
    /\ Existing(t.id) # Nil
    /\ SaveFails(t)
    /\ tenants' = [tenants EXCEPT ![t.id] = t]
    /\ wafs' = [wafs EXCEPT ![t.id] = NewEngine(t)]
    /\ domains' = Unrouted(Existing(t.id).doms)
    /\ UNCHANGED <<leaked, closing, cached, calls>>

(* Fault: the engine is neither closed nor removed. *)
ForgetNotEngine(i) ==
    /\ Existing(i) # Nil
    /\ domains' = Unrouted(Existing(i).doms)
    /\ tenants' = [tenants EXCEPT ![i] = Nil]
    /\ UNCHANGED <<wafs, leaked, closing, calls>>

(* What DeleteTenant does to the maps before it turns to storage. *)
Forget(i) ==
    /\ Existing(i) # Nil
    /\ domains' = Unrouted(Existing(i).doms)
    /\ tenants' = [tenants EXCEPT ![i] = Nil]
    /\ wafs' = [wafs EXCEPT ![i] = Nil]
    /\ UNCHANGED <<leaked, closing, calls>>

(* Faults: the row, or the cached copy, is left behind. *)
DeleteTenantKeepingRow(i) == Forget(i) /\ CacheDelete(i) /\ UNCHANGED rows

DeleteTenantKeepingCopy(i) == Forget(i) /\ Remove(i) /\ UNCHANGED cached

DeleteTenant(i) ==
    /\ Forget(i)
    /\ Remove(i)
    /\ CacheDelete(i)

DeleteUnsaved(i) ==
    /\ Forget(i)
    /\ RemoveFails(i)
    /\ UNCHANGED cached

-----------------------------------------------------------------------------
(* GetTenant, on a tenant that is not in memory. *)
GetMiss(g, i) ==
    /\ get[g] = Nil
    /\ Backend # "none"
    /\ tenants[i] = Nil
    /\ get' = [get EXCEPT ![g] = [step |-> "missed", id |-> i, row |-> Nil]]
    /\ UNCHANGED <<maps, leaked, closing, list, rows, cached>>

At(g, step) == get[g] # Nil /\ get[g].step = step

GetNotFound(g) ==
    /\ At(g, "missed")
    /\ ReadRow(get[g].id) = Nil
    /\ get' = [get EXCEPT ![g] = Nil]
    /\ UNCHANGED <<maps, leaked, closing, list, rows, cached>>

GetLoad(g) ==
    /\ At(g, "missed")
    /\ ReadRow(get[g].id) # Nil
    /\ get' = [get EXCEPT ![g] = [step |-> "loaded", id |-> get[g].id,
                                  row |-> ReadRow(get[g].id)]]
    /\ UNCHANGED <<maps, leaked, closing, list, rows, cached>>

GetInstall(g) ==
    /\ At(g, "loaded")
    /\ tenants' = [tenants EXCEPT ![get[g].id] = get[g].row]
    /\ domains' = [d \in Domains |-> IF d \in get[g].row.doms THEN get[g].row
                                     ELSE domains[d]]
    /\ get' = [get EXCEPT ![g].step = "installed"]
    /\ UNCHANGED <<wafs, leaked, closing, list, rows, cached>>

GetPublish(g) ==
    /\ At(g, "installed")
    /\ wafs' = [wafs EXCEPT ![get[g].id] = NewEngine(get[g].row)]
    /\ leaked' = (leaked \/ Abandons(get[g].id))
    /\ get' = [get EXCEPT ![g] = Nil]
    /\ UNCHANGED <<tenants, domains, closing, list, rows, cached>>

GetBuildFails(g) ==
    /\ At(g, "installed")
    /\ get' = [get EXCEPT ![g] = Nil]
    /\ UNCHANGED <<maps, leaked, closing, list, rows, cached>>

(* ListTenants, when storage returns at least one tenant. *)
ListLoad(l) ==
    /\ list[l] = {}
    /\ ReadAll # {}
    /\ list' = [list EXCEPT ![l] = ReadAll]
    /\ UNCHANGED <<maps, leaked, closing, get, rows, cached>>

(* The tenants are installed in the order storage returned them, which for   *)
(* MemoryStore is the random order of a map iteration: of several that claim *)
(* a domain the last one gets it.                                            *)
Claimants(S, d) == {t \in S : d \in t.doms}

IsLast(t, S, rank) == t \in S /\ \A u \in S : rank[u] <= rank[t]

(* Fault: the listed tenants are not routed. *)
ListInstallUnrouted(l) ==
    /\ list[l] # {}
    /\ tenants' = [i \in Ids |-> IF \E t \in list[l] : t.id = i
                                 THEN CHOOSE t \in list[l] : t.id = i
                                 ELSE tenants[i]]
    /\ list' = [list EXCEPT ![l] = {}]
    /\ UNCHANGED <<domains, wafs, leaked, closing, get, rows, cached>>

(* Fault: the listed tenants that are in memory already are skipped. *)
ListInstallMissing(l) ==
    /\ list[l] # {}
    /\ tenants' = [i \in Ids |-> IF /\ tenants[i] = Nil
                                    /\ \E t \in list[l] : t.id = i
                                 THEN CHOOSE t \in list[l] : t.id = i
                                 ELSE tenants[i]]
    /\ list' = [list EXCEPT ![l] = {}]
    /\ UNCHANGED <<domains, wafs, leaked, closing, get, rows, cached>>

ListInstall(l) ==
    /\ list[l] # {}
    /\ tenants' = [i \in Ids |-> IF \E t \in list[l] : t.id = i
                                 THEN CHOOSE t \in list[l] : t.id = i
                                 ELSE tenants[i]]
    /\ \E rank \in Injection(list[l], 1 .. Cardinality(list[l])) :
       \E last \in [Domains -> list[l] \union {Nil}] :
          /\ \A d \in Domains :
                IF Claimants(list[l], d) = {} THEN last[d] = Nil
                ELSE IsLast(last[d], Claimants(list[l], d), rank)
          /\ domains' = [d \in Domains |-> IF last[d] = Nil THEN domains[d]
                                           ELSE last[d]]
    /\ list' = [list EXCEPT ![l] = {}]
    /\ UNCHANGED <<wafs, leaked, closing, get, rows, cached>>

-----------------------------------------------------------------------------
Expire(i) ==
    /\ CacheExpire(i)
    /\ UNCHANGED <<maps, leaked, closing, calls, rows>>

(* Close: every engine is closed and no map is cleared. *)
Close ==
    /\ wafs' = [i \in Ids |-> Closed(i)]
    /\ closing' = TRUE
    /\ UNCHANGED <<tenants, domains, leaked, calls, rows, cached>>

(* The process crashes or exits, and is started again. *)
Restart ==
    /\ StorageRestart
    /\ CacheRestart
    /\ tenants' = [i \in Ids |-> Nil]
    /\ domains' = [d \in Domains |-> Nil]
    /\ wafs' = [i \in Ids |-> Nil]
    /\ leaked' = FALSE
    /\ closing' = FALSE
    /\ get' = [g \in Getters |-> Nil]
    /\ list' = [l \in Listers |-> {}]

Next ==
    \/ \E t \in Tenant : \/ CreateTenant(t) \/ CreateUnsaved(t)
                         \/ UpdateTenant(t) \/ UpdateUnsaved(t)
    \/ \E i \in Ids : \/ UpdateBuildFails(i)
                      \/ DeleteTenant(i) \/ DeleteUnsaved(i)
                      \/ Expire(i)
    \/ \E g \in Getters : \/ \E i \in Ids : GetMiss(g, i)
                          \/ GetNotFound(g) \/ GetLoad(g) \/ GetInstall(g)
                          \/ GetPublish(g) \/ GetBuildFails(g)
    \/ \E l \in Listers : ListLoad(l) \/ ListInstall(l)
    \/ Close
    \/ Restart

Spec == Init /\ [][Next]_vars

(* A call of ListTenants that has read storage goes on, and while the        *)
(* dashboard shows its front page it calls ListTenants again every 5 s.      *)
FairSpec == Spec /\ \A l \in Listers : /\ WF_vars(ListLoad(l))
                                       /\ WF_vars(ListInstall(l))
-----------------------------------------------------------------------------
(* Every route leads to the version of its tenant that is in memory, and the *)
(* tenant still claims the domain: no update or delete, not even one that    *)
(* fails halfway, leaves a route to something that is gone or superseded.    *)
RoutesLive ==
    \A d \in Domains : domains[d] # Nil =>
        /\ tenants[domains[d].id] = domains[d]
        /\ d \in domains[d].doms

(* A tenant that a request can be routed to has an engine, built from that   *)
(* very version and open as long as the process is not shutting down: the    *)
(* engine swap of UpdateTenant never leaves routes to a closed or old engine.*)
RoutedIsServed ==
    \A d \in Domains : domains[d] # Nil =>
        /\ wafs[domains[d].id] \in Engine
        /\ wafs[domains[d].id].content = domains[d].content
        /\ wafs[domains[d].id].open \/ closing

(* The engines in tm.wafs are those of the tenants in memory, and none was   *)
(* ever overwritten open: Close reaches every engine that is still open.     *)
EngineLedger ==
    /\ \A i \in Ids : wafs[i] # Nil <=> tenants[i] # Nil
    /\ ~leaked

(* A request is only ever routed by a version that is in storage: after a    *)
(* failed save no route shows the version that may or may not be stored.     *)
RoutedIsPersisted ==
    \A d \in Domains : domains[d] # Nil => rows[domains[d].id] = domains[d]

(* A tenant in memory has a row: the roll-back of CreateTenant and the order *)
(* of DeleteTenant leave none that would be gone after a restart.            *)
LoadedIsPersisted == \A i \in Ids : tenants[i] # Nil => rows[i] # Nil

-----------------------------------------------------------------------------
(* The tenant manager implements the registry: whatever ListTenants,         *)
(* GetTenant, failing storage and the cache do in between, a client sees the *)
(* tenants and routes change only as one API call at a time changes them.    *)
Registry == INSTANCE TenantRegistry
    WITH reg <- tenants,
         routes <- [d \in Domains |-> IF domains[d] = Nil THEN Nil
                                      ELSE domains[d].id]

ImplementsRegistry == Registry!Spec

-----------------------------------------------------------------------------
(* The properties of the memory backend, whose rows can be read back.        *)

(* A stored tenant is in memory and has an engine entry: GetTenant's and     *)
(* UpdateTenant's way through storage is only ever taken in a race.          *)
StoredIsLoaded ==
    \A i \in Ids : rows[i] # Nil => tenants[i] # Nil /\ wafs[i] # Nil

(* A cached copy is the stored tenant: no call that changes or deletes the   *)
(* row leaves a copy of the former one behind.                               *)
CacheMatchesStore == \A i \in Ids : cached[i] \in {Nil, rows[i]}

(* A GetTenant or ListTenants still holds t, which it has read from storage. *)
ReadEarlier(t) == \/ \E g \in Getters : At(g, "loaded") /\ get[g].row = t
                  \/ \E l \in Listers : t \in list[l]

(* Memory and storage fall apart in one way only: GetTenant or ListTenants   *)
(* installs what it had read before somebody changed the row.  Every other   *)
(* step that touches a tenant leaves its row and its copy in memory equal,   *)
(* also when a race or a missing row had made them differ.                   *)
WriteThrough ==
    [][\A i \in Ids : \/ tenants'[i] = rows'[i]
                      \/ tenants'[i] = tenants[i] /\ rows'[i] = rows[i]
                      \/ rows' = rows /\ ReadEarlier(tenants'[i])]_vars

(* "Tenant should still exist" after a restart: GetTenant finds a tenant that *)
(* is not in memory, as long as there is a row for it.                       *)
StillExists ==
    [][\A g \in Getters : GetNotFound(g) /\ tenants[get[g].id] = Nil
                             => rows[get[g].id] = Nil]_vars

(* A domain that a stored tenant claims and no route serves (after a failed  *)
(* update, or because another tenant took the domain and dropped it) gets a  *)
(* route again, by the next ListTenants if by nothing else.                  *)
Orphaned(d) ==
    /\ domains[d] = Nil
    /\ \E i \in Ids : rows[i] # Nil /\ d \in rows[i].doms

RoutesHeal == \A d \in Domains : Orphaned(d) ~> ~Orphaned(d)

(* A tenant in memory that differs from its row (a ListTenants or GetTenant  *)
(* that read storage before an update installed the old version after it)    *)
(* does not stay behind for ever, however many more such races follow.       *)
Stale(i) == rows[i] # Nil /\ tenants[i] # rows[i]

StaleCopyHeals == \A i \in Ids : Stale(i) ~> ~Stale(i)

(* What "Tenant deleted successfully" says: a tenant without a row is not    *)
(* known to the process any more.                                            *)
DeletedStaysGone == \A i \in Ids : rows[i] = Nil => tenants[i] = Nil

(* "Isolated" tenants: a request about one tenant moves or removes no route  *)
(* of another one.                                                           *)
Isolation ==
    [][\A d \in Domains, t \in Tenant :
          /\ UpdateTenant(t) \/ DeleteTenant(t.id)
          /\ domains[d] # Nil
          /\ domains[d].id # t.id
          => domains'[d] = domains[d]]_vars
=============================================================================
