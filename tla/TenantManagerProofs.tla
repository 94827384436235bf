------------------------- MODULE TenantManagerProofs -------------------------
EXTENDS TenantManager, TLAPS

(***************************************************************************)
(* Facts about the actions, stated once so that the proofs below do not    *)
(* open the storage, the cache or ListInstall's ordering again.            *)
(***************************************************************************)

(* Without the memory backend nothing is ever read back from storage. *)
LEMMA NothingRead ==
    ASSUME Backend # "memory"
    PROVE  /\ \A i \in Ids : ReadRow(i) = Nil /\ Existing(i) = tenants[i]
           /\ ReadAll = {}
  BY DEF ReadRow, Existing, ReadAll

(* The operations that store or cache a tenant keep the types. *)
LEMMA WritesType ==
    ASSUME StorageTypeOK, CacheTypeOK, NEW t \in Tenant
    PROVE  /\ Save(t) => StorageTypeOK'
           /\ SaveFails(t) => StorageTypeOK'
           /\ CacheSet(t) => CacheTypeOK'
           /\ CacheReplace(t) => CacheTypeOK'
  BY DEF StorageTypeOK, CacheTypeOK, Save, SaveFails, CacheSet, CacheReplace,
         CacheDelete, Tenant

(* So do the operations on the entry of a tenant that goes away. *)
LEMMA RemovalsType ==
    ASSUME StorageTypeOK, CacheTypeOK, NEW i \in Ids
    PROVE  /\ Remove(i) => StorageTypeOK'
           /\ RemoveFails(i) => StorageTypeOK'
           /\ CacheDelete(i) => CacheTypeOK'
           /\ CacheExpire(i) => CacheTypeOK'
           /\ ReadRow(i) \in Tenant \union {Nil}
  BY DEF StorageTypeOK, CacheTypeOK, Remove, RemoveFails, CacheDelete,
         CacheExpire, ReadRow

(* The fields of a tenant, and the engine made for it. *)
LEMMA TenantType ==
    ASSUME NEW t \in Tenant
    PROVE  /\ t.id \in Ids /\ t.doms \in SUBSET Domains
           /\ t.content \in Contents
           /\ NewEngine(t) \in Engine
           /\ NewEngine(t).content = t.content /\ NewEngine(t).open
           /\ t # Nil /\ NewEngine(t) # Nil
<1>1. t.id \in Ids /\ t.doms \in SUBSET Domains /\ t.content \in Contents
  BY DEF Tenant
<1>2. NewEngine(t) \in Engine /\ NewEngine(t).content = t.content
  BY <1>1 DEF Engine, NewEngine
<1>3. NewEngine(t).open
  BY Zenon DEF NewEngine
<1> QED
  BY <1>1, <1>2, <1>3, NilAssumption, EngineNilAssumption

LEMMA ClosedType ==
    ASSUME TypeOK, NEW i \in Ids
    PROVE  /\ Closed(i) \in Engine \union {Nil}
           /\ Closed(i) = Nil <=> wafs[i] = Nil
           /\ wafs[i] # Nil => Closed(i) = [content |-> wafs[i].content,
                                           open |-> FALSE]
           /\ Abandons(i) \in BOOLEAN
<1>1. CASE wafs[i] = Nil
  BY <1>1, EngineNilAssumption DEF Closed, Abandons
<1>2. CASE wafs[i] # Nil
  <2>1. wafs[i] \in Engine
    BY <1>2 DEF TypeOK
  <2>2. Closed(i) = [wafs[i] EXCEPT !.open = FALSE]
    BY <1>2 DEF Closed
  <2>3. Closed(i) = [content |-> wafs[i].content, open |-> FALSE]
    BY <2>1, <2>2 DEF Engine
  <2>4. Closed(i) \in Engine
    BY <2>1, <2>3 DEF Engine
  <2>5. Abandons(i) \in BOOLEAN
    BY <1>2, <2>1 DEF Engine, Abandons
  <2> QED
    BY <1>2, <2>3, <2>4, <2>5, EngineNilAssumption
<1> QED
  BY <1>1, <1>2

(***************************************************************************)
(* Type correctness, for every backend.                                    *)
(***************************************************************************)
LEMMA TypeInit == Init => TypeOK
  BY DEF Init, TypeOK, StorageInit, CacheInit, StorageTypeOK, CacheTypeOK

LEMMA TypeStep == TypeOK /\ [Next]_vars => TypeOK'
<1> SUFFICES ASSUME TypeOK, [Next]_vars PROVE TypeOK'
  OBVIOUS
<1>0. StorageTypeOK /\ CacheTypeOK
  BY DEF TypeOK
<1>c. UNCHANGED cached => CacheTypeOK'
  BY <1>0 DEF CacheTypeOK
<1>r. UNCHANGED rows => StorageTypeOK'
  BY <1>0 DEF StorageTypeOK
<1>1. ASSUME NEW t \in Tenant, CreateTenant(t) PROVE TypeOK'
  <2>1. StorageTypeOK' /\ CacheTypeOK'
    BY <1>0, <1>1, WritesType, TenantType DEF CreateTenant
  <2> QED
    BY <1>1, <2>1, TenantType, ClosedType DEF CreateTenant, TypeOK, calls
<1>2. ASSUME NEW t \in Tenant, CreateUnsaved(t) PROVE TypeOK'
  <2>1. StorageTypeOK' /\ CacheTypeOK'
    BY <1>0, <1>c, <1>2, WritesType DEF CreateUnsaved, calls
  <2> QED
    BY <1>2, <2>1, TenantType, ClosedType DEF CreateUnsaved, TypeOK, calls
<1>3. ASSUME NEW t \in Tenant, UpdateTenant(t) PROVE TypeOK'
  <2>1. StorageTypeOK' /\ CacheTypeOK'
    BY <1>0, <1>3, WritesType, TenantType DEF UpdateTenant
  <2> QED
    BY <1>3, <2>1, TenantType, ClosedType DEF UpdateTenant, TypeOK, calls, Unrouted
<1>4. ASSUME NEW t \in Tenant, UpdateUnsaved(t) PROVE TypeOK'
  <2>1. StorageTypeOK' /\ CacheTypeOK'
    BY <1>0, <1>c, <1>4, WritesType DEF UpdateUnsaved, calls
  <2> QED
    BY <1>4, <2>1, TenantType, ClosedType DEF UpdateUnsaved, TypeOK, calls, Unrouted
<1>5. ASSUME NEW i \in Ids, UpdateBuildFails(i) PROVE TypeOK'
  <2>1. StorageTypeOK' /\ CacheTypeOK'
    BY <1>c, <1>r, <1>5 DEF UpdateBuildFails, calls
  <2> QED
    BY <1>5, <2>1, ClosedType DEF UpdateBuildFails, TypeOK, calls, Unrouted
<1>6. ASSUME NEW i \in Ids, Forget(i), StorageTypeOK', CacheTypeOK' PROVE TypeOK'
  BY <1>6 DEF Forget, TypeOK, calls, Unrouted
<1>7. ASSUME NEW i \in Ids, DeleteTenant(i) PROVE TypeOK'
  BY <1>0, <1>6, <1>7, RemovalsType DEF DeleteTenant
<1>8. ASSUME NEW i \in Ids, DeleteUnsaved(i) PROVE TypeOK'
  BY <1>0, <1>c, <1>6, <1>8, RemovalsType DEF DeleteUnsaved
<1>9. ASSUME NEW i \in Ids, Expire(i) PROVE TypeOK'
  <2>1. CacheTypeOK'
    BY <1>0, <1>9, RemovalsType DEF Expire
  <2> QED
    BY <1>r, <1>9, <2>1 DEF Expire, TypeOK, maps, calls
<1>10. ASSUME NEW g \in Getters, NEW i \in Ids, GetMiss(g, i) PROVE TypeOK'
  <2>1. [step |-> "missed", id |-> i, row |-> Nil] \in Lookup
    BY DEF Lookup
  <2> QED
    BY <1>c, <1>r, <1>10, <2>1 DEF GetMiss, TypeOK, maps
<1>11. ASSUME NEW g \in Getters, GetNotFound(g) \/ GetBuildFails(g) PROVE TypeOK'
  BY <1>c, <1>r, <1>11 DEF GetNotFound, GetBuildFails, TypeOK, maps
<1>12. ASSUME NEW g \in Getters, GetLoad(g) PROVE TypeOK'
  <2>1. get[g].id \in Ids
    BY <1>12 DEF GetLoad, At, TypeOK, Lookup
  <2>2. [step |-> "loaded", id |-> get[g].id, row |-> ReadRow(get[g].id)] \in Lookup
    <3>1. ReadRow(get[g].id) \in Tenant
      BY <1>0, <1>12, <2>1, RemovalsType DEF GetLoad
    <3> QED
      BY <2>1, <3>1 DEF Lookup
  <2> QED
    BY <1>c, <1>r, <1>12, <2>2 DEF GetLoad, TypeOK, maps
<1>13. ASSUME NEW g \in Getters, GetInstall(g) PROVE TypeOK'
  <2>1. /\ get[g].id \in Ids /\ get[g].row \in Tenant
        /\ get[g] = [step |-> "loaded", id |-> get[g].id, row |-> get[g].row]
    BY <1>13 DEF GetInstall, At, TypeOK, Lookup
  <2>2. [get[g] EXCEPT !.step = "installed"]
           = [step |-> "installed", id |-> get[g].id, row |-> get[g].row]
    BY <2>1
  <2>3. get' \in [Getters -> Lookup \union {Nil}]
    BY <1>13, <2>1, <2>2 DEF GetInstall, TypeOK, Lookup
  <2>4. /\ tenants' \in [Ids -> Tenant \union {Nil}]
        /\ domains' \in [Domains -> Tenant \union {Nil}]
    BY <1>13, <2>1 DEF GetInstall, TypeOK
  <2> QED
    BY <1>c, <1>r, <1>13, <2>3, <2>4 DEF GetInstall, TypeOK
<1>14. ASSUME NEW g \in Getters, GetPublish(g) PROVE TypeOK'
  <2>1. get[g].id \in Ids /\ get[g].row \in Tenant
    BY <1>14 DEF GetPublish, At, TypeOK, Lookup
  <2>2. NewEngine(get[g].row) \in Engine /\ Abandons(get[g].id) \in BOOLEAN
    BY <2>1, TenantType, ClosedType
  <2> QED
    BY <1>c, <1>r, <1>14, <2>1, <2>2 DEF GetPublish, TypeOK
<1>15. ASSUME NEW l \in Listers, ListLoad(l) PROVE TypeOK'
  <2>1. ReadAll \in SUBSET Tenant
    BY <1>0 DEF ReadAll, ReadRow, StorageTypeOK
  <2> QED
    BY <1>c, <1>r, <1>15, <2>1 DEF ListLoad, TypeOK, maps
<1>16. ASSUME NEW l \in Listers, ListInstall(l) PROVE TypeOK'
  <2>1. list[l] \in SUBSET Tenant
    BY DEF TypeOK
  <2>2. tenants' \in [Ids -> Tenant \union {Nil}]
    BY <1>16, <2>1 DEF ListInstall, TypeOK
  <2>3. domains' \in [Domains -> Tenant \union {Nil}]
    BY <1>16, <2>1 DEF ListInstall, TypeOK
  <2> QED
    BY <1>c, <1>r, <1>16, <2>2, <2>3 DEF ListInstall, TypeOK
<1>17. ASSUME Close PROVE TypeOK'
  BY <1>c, <1>r, <1>17, ClosedType DEF Close, TypeOK, calls
<1>18. ASSUME Restart PROVE TypeOK'
  <2>1. StorageTypeOK' /\ CacheTypeOK'
    BY <1>0, <1>18 DEF Restart, StorageRestart, CacheRestart, StorageTypeOK,
                       CacheTypeOK
  <2> QED
    BY <1>18, <2>1 DEF Restart, TypeOK
<1>19. ASSUME UNCHANGED vars PROVE TypeOK'
  BY <1>c, <1>r, <1>19 DEF vars, maps, calls, TypeOK
<1> QED
  BY <1>1, <1>2, <1>3, <1>4, <1>5, <1>7, <1>8, <1>9, <1>10, <1>11, <1>12,
     <1>13, <1>14, <1>15, <1>16, <1>17, <1>18, <1>19 DEF Next

(* No interleaving of API calls, readers, failures and restarts puts a value *)
(* of the wrong shape into a map of the manager, its storage or its cache.   *)
THEOREM TypeCorrect == Spec => []TypeOK
  BY TypeInit, TypeStep, PTL DEF Spec

(***************************************************************************)
(* Backends other than "memory": readers never bring anything in.          *)
(***************************************************************************)

(* No ListTenants call holds tenants, and no GetTenant call gets past its    *)
(* storage call.                                                             *)
ReadersIdle ==
    /\ \A l \in Listers : list[l] = {}
    /\ \A g \in Getters : ~At(g, "loaded") /\ ~At(g, "installed")

LEMMA ReadersIdleStep ==
    ASSUME Backend # "memory", TypeOK, ReadersIdle, [Next]_vars
    PROVE  ReadersIdle'
<1>1. CASE calls' = calls
  BY <1>1 DEF ReadersIdle, calls, At
<1>2. ASSUME NEW g \in Getters, NEW i \in Ids, GetMiss(g, i) PROVE ReadersIdle'
  BY <1>2 DEF GetMiss, ReadersIdle, At, TypeOK
<1>3. ASSUME NEW g \in Getters, GetNotFound(g) PROVE ReadersIdle'
  BY <1>3 DEF GetNotFound, ReadersIdle, At, TypeOK
<1>4. ASSUME NEW g \in Getters, GetLoad(g) PROVE FALSE
  BY <1>4 DEF GetLoad, ReadRow
<1>5. ASSUME NEW g \in Getters,
             GetInstall(g) \/ GetPublish(g) \/ GetBuildFails(g)
      PROVE  FALSE
  BY <1>5 DEF GetInstall, GetPublish, GetBuildFails, ReadersIdle
<1>6. ASSUME NEW l \in Listers, ListLoad(l) \/ ListInstall(l) PROVE FALSE
  BY <1>6, NothingRead DEF ListLoad, ListInstall, ReadersIdle
<1>7. CASE Restart
  BY <1>7 DEF Restart, ReadersIdle, At
<1> QED
  BY <1>1, <1>2, <1>3, <1>4, <1>5, <1>6, <1>7
  DEF Next, CreateTenant, CreateUnsaved, UpdateTenant, UpdateUnsaved,
      UpdateBuildFails, DeleteTenant, DeleteUnsaved, Forget, Expire, Close,
      vars

(* What remains of a step when the readers are idle. *)
LEMMA StepCases ==
    ASSUME Backend # "memory", TypeOK, ReadersIdle, [Next]_vars
    PROVE  \/ \E t \in Tenant : \/ CreateTenant(t) \/ CreateUnsaved(t)
                                \/ UpdateTenant(t) \/ UpdateUnsaved(t)
           \/ \E i \in Ids : \/ UpdateBuildFails(i)
                             \/ DeleteTenant(i) \/ DeleteUnsaved(i)
           \/ Close
           \/ Restart
           \/ UNCHANGED <<maps, leaked, closing, rows>>
  BY NothingRead
  DEF Next, GetMiss, GetNotFound, GetLoad, GetInstall, GetPublish,
      GetBuildFails, ListLoad, ListInstall, Expire, ReadersIdle, vars

(***************************************************************************)
(* Routes.                                                                 *)
(***************************************************************************)

(* A route that a request about tenant i leaves alone is not one of i's: all *)
(* of i's routes are among the domains i claims.                             *)
LEMMA ForeignRoute ==
    ASSUME TypeOK, RoutesLive, NEW i \in Ids, NEW d \in Domains,
           domains[d] # Nil, tenants[i] # Nil => d \notin tenants[i].doms
    PROVE  /\ domains[d] \in Tenant
           /\ domains[d].id \in Ids \ {i}
           /\ tenants[domains[d].id] = domains[d]
           /\ d \in domains[d].doms
<1>1. domains[d] \in Tenant /\ domains[d].id \in Ids
  BY DEF TypeOK, Tenant
<1>2. tenants[domains[d].id] = domains[d] /\ d \in domains[d].doms
  BY DEF RoutesLive
<1> QED
  BY <1>1, <1>2

LEMMA RoutesLiveStep ==
    ASSUME Backend # "memory", TypeOK, ReadersIdle, RoutesLive, [Next]_vars
    PROVE  RoutesLive'
<1> SUFFICES ASSUME NEW d \in Domains, domains'[d] # Nil
             PROVE  /\ tenants'[domains'[d].id] = domains'[d]
                    /\ d \in domains'[d].doms
  BY DEF RoutesLive
<1>0. \A i \in Ids : Existing(i) = tenants[i]
  BY NothingRead
<1>1. ASSUME NEW t \in Tenant, CreateTenant(t)
      PROVE  tenants'[domains'[d].id] = domains'[d] /\ d \in domains'[d].doms
  <2>1. CASE d \in t.doms
    BY <1>1, <2>1, TenantType DEF CreateTenant, TypeOK
  <2>2. CASE d \notin t.doms
    <3>1. domains'[d] = domains[d]
      BY <1>1, <2>2 DEF CreateTenant
    <3>2. domains[d].id \in Ids \ {t.id}
      BY <1>1, <3>1, TenantType, ForeignRoute DEF CreateTenant, Creatable
    <3> QED
      BY <1>1, <3>1, <3>2 DEF CreateTenant, TypeOK, RoutesLive
  <2> QED
    BY <2>1, <2>2
<1>2. ASSUME NEW t \in Tenant, CreateUnsaved(t)
      PROVE  tenants'[domains'[d].id] = domains'[d] /\ d \in domains'[d].doms
  <2>1. domains[d].id \in Ids \ {t.id}
    BY <1>2, TenantType, ForeignRoute DEF CreateUnsaved, Creatable
  <2> QED
    BY <1>2, <2>1 DEF CreateUnsaved, TypeOK, RoutesLive
<1>3. ASSUME NEW t \in Tenant, UpdateTenant(t)
      PROVE  tenants'[domains'[d].id] = domains'[d] /\ d \in domains'[d].doms
  <2>1. CASE d \in t.doms
    BY <1>3, <2>1, TenantType DEF UpdateTenant, TypeOK
  <2>2. CASE d \notin t.doms
    <3>1. domains'[d] = domains[d] /\ d \notin tenants[t.id].doms
      BY <1>0, <1>3, <2>2, TenantType DEF UpdateTenant, Unrouted
    <3>2. domains[d].id \in Ids \ {t.id}
      BY <3>1, TenantType, ForeignRoute
    <3> QED
      BY <1>3, <3>1, <3>2 DEF UpdateTenant, TypeOK, RoutesLive
  <2> QED
    BY <2>1, <2>2
<1>4. ASSUME NEW t \in Tenant, UpdateUnsaved(t)
      PROVE  tenants'[domains'[d].id] = domains'[d] /\ d \in domains'[d].doms
  <2>1. domains'[d] = domains[d] /\ d \notin tenants[t.id].doms
    BY <1>0, <1>4, TenantType DEF UpdateUnsaved, Unrouted
  <2>2. domains[d].id \in Ids \ {t.id}
    BY <2>1, TenantType, ForeignRoute
  <2> QED
    BY <1>4, <2>1, <2>2 DEF UpdateUnsaved, TypeOK, RoutesLive
<1>5. ASSUME NEW i \in Ids, UpdateBuildFails(i)
      PROVE  tenants'[domains'[d].id] = domains'[d] /\ d \in domains'[d].doms
  BY <1>5 DEF UpdateBuildFails, Unrouted, RoutesLive
<1>6. ASSUME NEW i \in Ids, DeleteTenant(i) \/ DeleteUnsaved(i)
      PROVE  tenants'[domains'[d].id] = domains'[d] /\ d \in domains'[d].doms
  <2>1. Forget(i)
    BY <1>6 DEF DeleteTenant, DeleteUnsaved
  <2>2. domains'[d] = domains[d] /\ d \notin tenants[i].doms
    BY <1>0, <2>1 DEF Forget, Unrouted
  <2>3. domains[d].id \in Ids \ {i}
    BY <2>2, ForeignRoute
  <2> QED
    BY <2>1, <2>2, <2>3 DEF Forget, TypeOK, RoutesLive
<1>7. CASE Close
  BY <1>7 DEF Close, RoutesLive
<1>8. CASE Restart
  BY <1>8 DEF Restart
<1>9. CASE UNCHANGED maps
  BY <1>9 DEF maps, RoutesLive
<1> QED
  BY <1>1, <1>2, <1>3, <1>4, <1>5, <1>6, <1>7, <1>8, <1>9, StepCases

(***************************************************************************)
(* Engines.                                                                *)
(***************************************************************************)
LEMMA EngineLedgerStep ==
    ASSUME Backend # "memory", TypeOK, ReadersIdle, EngineLedger, [Next]_vars
    PROVE  EngineLedger'
<1>0. \A i \in Ids : Existing(i) = tenants[i]
  BY NothingRead
<1>1. ASSUME NEW t \in Tenant, CreateTenant(t) \/ CreateUnsaved(t)
      PROVE  EngineLedger'
  <2>1. ~Abandons(t.id)
    BY <1>1, TenantType DEF CreateTenant, CreateUnsaved, Creatable, Abandons,
                            EngineLedger
  <2>2. ~leaked'
    BY <1>1, <2>1 DEF CreateTenant, CreateUnsaved, EngineLedger
  <2> QED
    BY <1>1, <2>2, TenantType DEF CreateTenant, CreateUnsaved, EngineLedger, TypeOK
<1>2. ASSUME NEW t \in Tenant, UpdateTenant(t) \/ UpdateUnsaved(t)
      PROVE  EngineLedger'
  BY <1>2, TenantType DEF UpdateTenant, UpdateUnsaved, EngineLedger, TypeOK
<1>3. ASSUME NEW i \in Ids, UpdateBuildFails(i) PROVE EngineLedger'
  BY <1>3, ClosedType DEF UpdateBuildFails, EngineLedger, TypeOK
<1>4. ASSUME NEW i \in Ids, DeleteTenant(i) \/ DeleteUnsaved(i)
      PROVE  EngineLedger'
  BY <1>4 DEF DeleteTenant, DeleteUnsaved, Forget, EngineLedger, TypeOK
<1>5. CASE Close
  BY <1>5, ClosedType DEF Close, EngineLedger, TypeOK
<1>6. CASE Restart
  BY <1>6 DEF Restart, EngineLedger
<1>7. CASE UNCHANGED <<maps, leaked>>
  BY <1>7 DEF maps, EngineLedger
<1> QED
  BY <1>1, <1>2, <1>3, <1>4, <1>5, <1>6, <1>7, StepCases

(* The engine that serves domain d is the one made for the tenant d is       *)
(* routed to.                                                                *)
Served(d) ==
    /\ wafs[domains[d].id] \in Engine
    /\ wafs[domains[d].id].content = domains[d].content
    /\ wafs[domains[d].id].open \/ closing

LEMMA ServedKept ==
    ASSUME TypeOK, NEW d \in Domains, NEW i \in Ids, NEW e,
           domains[d].id \in Ids \ {i}, domains'[d] = domains[d],
           wafs' = [wafs EXCEPT ![i] = e], closing' = closing, Served(d)
    PROVE  Served(d)'
<1>1. wafs'[domains'[d].id] = wafs[domains[d].id]
  BY DEF TypeOK
<1> QED
  BY <1>1 DEF Served

LEMMA ServedNew ==
    ASSUME TypeOK, NEW d \in Domains, NEW t \in Tenant, domains'[d] = t,
           wafs' = [wafs EXCEPT ![t.id] = NewEngine(t)]
    PROVE  Served(d)'
<1>1. wafs'[domains'[d].id] = NewEngine(t)
  BY TenantType DEF TypeOK
<1> QED
  BY <1>1, TenantType DEF Served

LEMMA RoutedIsServedStep ==
    ASSUME Backend # "memory", TypeOK, ReadersIdle, RoutesLive, RoutedIsServed,
           [Next]_vars
    PROVE  RoutedIsServed'
<1> SUFFICES ASSUME NEW d \in Domains, domains'[d] # Nil PROVE Served(d)'
  BY DEF RoutedIsServed, Served
<1>0. \A i \in Ids : Existing(i) = tenants[i]
  BY NothingRead
<1>a. domains[d] # Nil => Served(d)
  BY DEF RoutedIsServed, Served
<1>1. ASSUME NEW t \in Tenant, CreateTenant(t) PROVE Served(d)'
  <2>1. CASE d \in t.doms
    BY <1>1, <2>1, ServedNew DEF CreateTenant
  <2>2. CASE d \notin t.doms
    <3>1. domains'[d] = domains[d]
      BY <1>1, <2>2 DEF CreateTenant
    <3>2. domains[d].id \in Ids \ {t.id}
      BY <1>1, <3>1, TenantType, ForeignRoute DEF CreateTenant, Creatable
    <3> QED
      BY <1>a, <1>1, <3>1, <3>2, TenantType, ServedKept DEF CreateTenant
  <2> QED
    BY <2>1, <2>2
<1>2. ASSUME NEW t \in Tenant, CreateUnsaved(t) PROVE Served(d)'
  <2>1. domains[d].id \in Ids \ {t.id}
    BY <1>2, TenantType, ForeignRoute DEF CreateUnsaved, Creatable
  <2> QED
    BY <1>a, <1>2, <2>1, TenantType, ServedKept DEF CreateUnsaved
<1>3. ASSUME NEW t \in Tenant, UpdateTenant(t) PROVE Served(d)'
  <2>1. CASE d \in t.doms
    BY <1>3, <2>1, ServedNew DEF UpdateTenant
  <2>2. CASE d \notin t.doms
    <3>1. domains'[d] = domains[d] /\ d \notin tenants[t.id].doms
      BY <1>0, <1>3, <2>2, TenantType DEF UpdateTenant, Unrouted
    <3>2. domains[d].id \in Ids \ {t.id}
      BY <3>1, TenantType, ForeignRoute
    <3> QED
      BY <1>a, <1>3, <3>1, <3>2, TenantType, ServedKept DEF UpdateTenant
  <2> QED
    BY <2>1, <2>2
<1>4. ASSUME NEW t \in Tenant, UpdateUnsaved(t) PROVE Served(d)'
  <2>1. domains'[d] = domains[d] /\ d \notin tenants[t.id].doms
    BY <1>0, <1>4, TenantType DEF UpdateUnsaved, Unrouted
  <2>2. domains[d].id \in Ids \ {t.id}
    BY <2>1, TenantType, ForeignRoute
  <2> QED
    BY <1>a, <1>4, <2>1, <2>2, TenantType, ServedKept DEF UpdateUnsaved
<1>5. ASSUME NEW i \in Ids, UpdateBuildFails(i) PROVE Served(d)'
  <2>1. domains'[d] = domains[d] /\ d \notin tenants[i].doms
    BY <1>0, <1>5 DEF UpdateBuildFails, Unrouted
  <2>2. domains[d].id \in Ids \ {i}
    BY <2>1, ForeignRoute
  <2> QED
    BY <1>a, <1>5, <2>1, <2>2, ServedKept DEF UpdateBuildFails
<1>6. ASSUME NEW i \in Ids, DeleteTenant(i) \/ DeleteUnsaved(i) PROVE Served(d)'
  <2>1. Forget(i)
    BY <1>6 DEF DeleteTenant, DeleteUnsaved
  <2>2. domains'[d] = domains[d] /\ d \notin tenants[i].doms
    BY <1>0, <2>1 DEF Forget, Unrouted
  <2>3. domains[d].id \in Ids \ {i}
    BY <2>2, ForeignRoute
  <2> QED
    BY <1>a, <2>1, <2>2, <2>3, ServedKept DEF Forget
<1>7. CASE Close
  <2>1. domains'[d] = domains[d] /\ domains[d] \in Tenant /\ closing'
    BY <1>7 DEF Close, TypeOK
  <2>2. /\ wafs[domains[d].id] # Nil /\ domains[d].id \in Ids
        /\ wafs'[domains[d].id] = Closed(domains[d].id)
    BY <1>a, <1>7, <2>1, TenantType, EngineNilAssumption DEF Close, Served
  <2>3. /\ Closed(domains[d].id) \in Engine
        /\ Closed(domains[d].id).content = wafs[domains[d].id].content
    BY <2>2, ClosedType, EngineNilAssumption
  <2> QED
    BY <1>a, <2>1, <2>2, <2>3 DEF Served
<1>8. CASE Restart
  BY <1>8 DEF Restart
<1>9. CASE UNCHANGED <<maps, closing>>
  BY <1>a, <1>9 DEF maps, Served
<1> QED
  BY <1>1, <1>2, <1>3, <1>4, <1>5, <1>6, <1>7, <1>8, <1>9, StepCases

(***************************************************************************)
(* Everything above in one inductive invariant.                            *)
(***************************************************************************)
RoutingInv == TypeOK /\ ReadersIdle /\ RoutesLive /\ EngineLedger /\ RoutedIsServed

LEMMA RoutingInvInit == Init => RoutingInv
  BY TypeInit DEF Init, RoutingInv, ReadersIdle, At, RoutesLive, EngineLedger,
                  RoutedIsServed

LEMMA RoutingInvariant ==
    ASSUME Backend # "memory"
    PROVE  Spec => []RoutingInv
<1>1. RoutingInv /\ [Next]_vars => RoutingInv'
  BY TypeStep, ReadersIdleStep, RoutesLiveStep, EngineLedgerStep,
     RoutedIsServedStep DEF RoutingInv
<1> QED
  BY <1>1, RoutingInvInit, PTL DEF Spec

(* Without the memory backend, every domain is routed to the version of its  *)
(* tenant that is in memory, through any sequence of successful and failed   *)
(* creates, updates, deletes and restarts.                                   *)
THEOREM RoutesAlwaysLive ==
    ASSUME Backend # "memory"
    PROVE  Spec => []RoutesLive
<1>1. RoutingInv => RoutesLive
  BY DEF RoutingInv
<1> QED
  BY <1>1, RoutingInvariant, PTL

(* A routed request always finds an engine, open and built from the version  *)
(* it was routed by.                                                         *)
THEOREM RoutedAlwaysServed ==
    ASSUME Backend # "memory"
    PROVE  Spec => []RoutedIsServed
<1>1. RoutingInv => RoutedIsServed
  BY DEF RoutingInv
<1> QED
  BY <1>1, RoutingInvariant, PTL

(* No engine is lost: Close reaches every engine that was ever opened and    *)
(* not closed since.                                                         *)
THEOREM EnginesAccounted ==
    ASSUME Backend # "memory"
    PROVE  Spec => []EngineLedger
<1>1. RoutingInv => EngineLedger
  BY DEF RoutingInv
<1> QED
  BY <1>1, RoutingInvariant, PTL

(***************************************************************************)
(* Tenants whose claims overlap are the only ones that disturb each other. *)
(***************************************************************************)

(* No two tenants in memory claim the same domain.  CreateTenant asks whether *)
(* a domain has a route, not whether it is claimed, and UpdateTenant does not *)
(* ask at all: it is up to the operators to keep to this.                     *)
ClaimsDisjoint ==
    \A i, j \in Ids : i # j /\ tenants[i] # Nil /\ tenants[j] # Nil =>
        tenants[i].doms \intersect tenants[j].doms = {}

LEMMA IsolationStep ==
    ASSUME Backend # "memory", RoutingInv, ClaimsDisjoint, ClaimsDisjoint',
           NEW d \in Domains, NEW t \in Tenant,
           UpdateTenant(t) \/ DeleteTenant(t.id),
           domains[d] # Nil, domains[d].id # t.id
    PROVE  domains'[d] = domains[d]
<1>1. /\ TypeOK /\ RoutesLive
      /\ t.id \in Ids /\ t # Nil
      /\ Existing(t.id) = tenants[t.id]
  BY TenantType, NothingRead DEF RoutingInv
<1>2. /\ domains[d].id \in Ids
      /\ tenants[domains[d].id] = domains[d]
      /\ d \in domains[d].doms
  BY <1>1 DEF TypeOK, Tenant, RoutesLive
<1>3. tenants[t.id] # Nil => d \notin tenants[t.id].doms
  BY <1>1, <1>2 DEF ClaimsDisjoint
<1>4. CASE UpdateTenant(t)
  <2>1. tenants'[t.id] = t /\ tenants'[domains[d].id] = domains[d]
    BY <1>1, <1>2, <1>4 DEF UpdateTenant, TypeOK
  <2>2. d \notin t.doms
    BY <1>1, <1>2, <2>1 DEF ClaimsDisjoint
  <2> QED
    BY <1>1, <1>3, <1>4, <2>2 DEF UpdateTenant, Unrouted
<1>5. CASE DeleteTenant(t.id)
  BY <1>1, <1>3, <1>5 DEF DeleteTenant, Forget, Unrouted
<1> QED
  BY <1>4, <1>5

(* As long as no two tenants claim the same domain, no update and no delete  *)
(* of one moves or removes a route of another, through any failing storage,  *)
(* failing builds and restarts: overlapping claims are the only cause of the *)
(* interference that breaks Isolation.                                       *)
THEOREM DisjointIsIsolated ==
    ASSUME Backend # "memory"
    PROVE  Spec /\ []ClaimsDisjoint => Isolation
<1>1. RoutingInv /\ ClaimsDisjoint /\ ClaimsDisjoint' =>
         \A d \in Domains, t \in Tenant :
            /\ UpdateTenant(t) \/ DeleteTenant(t.id)
            /\ domains[d] # Nil
            /\ domains[d].id # t.id
            => domains'[d] = domains[d]
  BY IsolationStep
<1> QED
  BY <1>1, RoutingInvariant, PTL DEF Isolation

(***************************************************************************)
(* The PostgreSQL backend.                                                 *)
(***************************************************************************)
LEMMA PersistedStep ==
    ASSUME Backend = "postgres", RoutingInv, RoutedIsPersisted,
           LoadedIsPersisted, [Next]_vars
    PROVE  RoutedIsPersisted' /\ LoadedIsPersisted'
<1>0. /\ Backend # "memory" /\ TypeOK /\ ReadersIdle /\ RoutesLive
      /\ rows \in [Ids -> Tenant \union {Nil}]
      /\ \A i \in Ids : Existing(i) = tenants[i]
  BY NothingRead DEF RoutingInv, TypeOK, StorageTypeOK
<1>1. ASSUME NEW i \in Ids,
             \A j \in Ids \ {i} : rows'[j] = rows[j] /\ tenants'[j] = tenants[j],
             tenants'[i] # Nil => rows'[i] # Nil,
             \A d \in Domains :
                domains'[d] # Nil =>
                   \/ domains'[d] = rows'[i] /\ domains'[d].id = i
                   \/ /\ domains'[d] = domains[d]
                      /\ tenants[i] # Nil => d \notin tenants[i].doms
      PROVE  RoutedIsPersisted' /\ LoadedIsPersisted'
  <2>1. LoadedIsPersisted'
    BY <1>1 DEF LoadedIsPersisted
  <2>2. ASSUME NEW d \in Domains, domains'[d] # Nil
        PROVE  rows'[domains'[d].id] = domains'[d]
    <3>1. CASE domains'[d] = rows'[i] /\ domains'[d].id = i
      BY <3>1
    <3>2. CASE /\ domains'[d] = domains[d]
               /\ tenants[i] # Nil => d \notin tenants[i].doms
      <4>1. domains[d].id \in Ids \ {i}
        BY <1>0, <2>2, <3>2, ForeignRoute
      <4> QED
        BY <1>1, <2>2, <3>2, <4>1 DEF RoutedIsPersisted
    <3> QED
      BY <1>1, <2>2, <3>1, <3>2
  <2> QED
    BY <2>1, <2>2 DEF RoutedIsPersisted
<1>2. ASSUME NEW t \in Tenant, CreateTenant(t)
      PROVE  RoutedIsPersisted' /\ LoadedIsPersisted'
  BY <1>0, <1>1, <1>2, TenantType DEF CreateTenant, Creatable, Save, TypeOK
<1>3. ASSUME NEW t \in Tenant, CreateUnsaved(t)
      PROVE  RoutedIsPersisted' /\ LoadedIsPersisted'
  BY <1>0, <1>1, <1>3, TenantType DEF CreateUnsaved, Creatable, SaveFails, TypeOK
<1>4. ASSUME NEW t \in Tenant, UpdateTenant(t)
      PROVE  RoutedIsPersisted' /\ LoadedIsPersisted'
  BY <1>0, <1>1, <1>4, TenantType DEF UpdateTenant, Unrouted, Save, TypeOK
<1>5. ASSUME NEW t \in Tenant, UpdateUnsaved(t)
      PROVE  RoutedIsPersisted' /\ LoadedIsPersisted'
  <2>1. rows[t.id] # Nil
    BY <1>0, <1>5, TenantType DEF UpdateUnsaved, LoadedIsPersisted
  <2> QED
    BY <1>0, <1>1, <1>5, <2>1, TenantType
    DEF UpdateUnsaved, Unrouted, SaveFails, TypeOK
<1>6. ASSUME NEW i \in Ids, UpdateBuildFails(i)
      PROVE  RoutedIsPersisted' /\ LoadedIsPersisted'
  BY <1>6 DEF UpdateBuildFails, Unrouted, RoutedIsPersisted, LoadedIsPersisted
<1>7. ASSUME NEW i \in Ids, DeleteTenant(i) \/ DeleteUnsaved(i)
      PROVE  RoutedIsPersisted' /\ LoadedIsPersisted'
  <2>1. /\ tenants' = [tenants EXCEPT ![i] = Nil]
        /\ domains' = Unrouted(tenants[i].doms)
        /\ Remove(i) \/ RemoveFails(i)
    BY <1>0, <1>7 DEF DeleteTenant, DeleteUnsaved, Forget
  <2> QED
    BY <1>0, <1>1, <2>1 DEF Unrouted, Remove, RemoveFails, TypeOK
<1>8. CASE Close
  BY <1>8 DEF Close, RoutedIsPersisted, LoadedIsPersisted
<1>9. CASE Restart
  BY <1>9 DEF Restart, RoutedIsPersisted, LoadedIsPersisted
<1>10. CASE UNCHANGED <<maps, rows>>
  BY <1>10 DEF maps, RoutedIsPersisted, LoadedIsPersisted
<1> QED
  BY <1>0, <1>2, <1>3, <1>4, <1>5, <1>6, <1>7, <1>8, <1>9, <1>10, StepCases

LEMMA PersistedInvariant ==
    ASSUME Backend = "postgres"
    PROVE  Spec => [](RoutedIsPersisted /\ LoadedIsPersisted)
<1>1. Init => RoutedIsPersisted /\ LoadedIsPersisted
  BY DEF Init, RoutedIsPersisted, LoadedIsPersisted
<1>2. RoutingInv /\ RoutedIsPersisted /\ LoadedIsPersisted /\ [Next]_vars
         => RoutedIsPersisted' /\ LoadedIsPersisted'
  BY PersistedStep
<1>3. Spec => []RoutingInv
  BY RoutingInvariant
<1> QED
  BY <1>1, <1>2, <1>3, PTL DEF Spec

(* With PostgreSQL, the version a request is routed by is the stored one,    *)
(* even though a failed statement may or may not have been applied.          *)
THEOREM RoutedAlwaysPersisted ==
    ASSUME Backend = "postgres"
    PROVE  Spec => []RoutedIsPersisted
BY PersistedInvariant, PTL

(* With PostgreSQL, every tenant in memory has a row.                        *)
THEOREM LoadedAlwaysPersisted ==
    ASSUME Backend = "postgres"
    PROVE  Spec => []LoadedIsPersisted
BY PersistedInvariant, PTL

(***************************************************************************)
(* The memory backend.                                                     *)
(***************************************************************************)
LEMMA StoredIsLoadedStep ==
    ASSUME Backend = "memory", TypeOK, StoredIsLoaded, [Next]_vars
    PROVE  StoredIsLoaded'
<1>0. rows \in [Ids -> Tenant \union {Nil}]
  BY DEF TypeOK, StorageTypeOK
<1>1. ASSUME NEW t \in Tenant, CreateTenant(t) \/ UpdateTenant(t)
      PROVE  StoredIsLoaded'
  BY <1>0, <1>1, TenantType DEF CreateTenant, UpdateTenant, Save, StoredIsLoaded,
                                TypeOK
<1>2. ASSUME NEW t \in Tenant, CreateUnsaved(t) \/ UpdateUnsaved(t) PROVE FALSE
  BY <1>2 DEF CreateUnsaved, UpdateUnsaved, SaveFails
<1>3. ASSUME NEW i \in Ids, UpdateBuildFails(i) PROVE StoredIsLoaded'
  BY <1>3, ClosedType DEF UpdateBuildFails, StoredIsLoaded, TypeOK
<1>4. ASSUME NEW i \in Ids, DeleteTenant(i) \/ DeleteUnsaved(i)
      PROVE  StoredIsLoaded'
  BY <1>0, <1>4 DEF DeleteTenant, DeleteUnsaved, Forget, Remove, RemoveFails,
                    StoredIsLoaded, TypeOK
<1>5. ASSUME NEW g \in Getters, GetInstall(g) PROVE StoredIsLoaded'
  <2>1. get[g].row \in Tenant
    BY <1>5 DEF GetInstall, At, TypeOK, Lookup
  <2> QED
    BY <1>5, <2>1, NilAssumption DEF GetInstall, StoredIsLoaded, TypeOK
<1>6. ASSUME NEW g \in Getters, GetPublish(g) PROVE StoredIsLoaded'
  <2>1. get[g].row \in Tenant
    BY <1>6 DEF GetPublish, At, TypeOK, Lookup
  <2> QED
    BY <1>6, <2>1, TenantType DEF GetPublish, StoredIsLoaded, TypeOK
<1>7. ASSUME NEW l \in Listers, ListInstall(l) PROVE StoredIsLoaded'
  <2>1. \A t \in list[l] : t \in Tenant /\ t # Nil
    BY TenantType DEF TypeOK
  <2> QED
    BY <1>7, <2>1 DEF ListInstall, StoredIsLoaded
<1>8. CASE Close
  BY <1>8, ClosedType DEF Close, StoredIsLoaded
<1>9. CASE Restart
  BY <1>9 DEF Restart, StorageRestart, StoredIsLoaded
<1>10. CASE UNCHANGED <<maps, rows>>
  BY <1>10 DEF maps, StoredIsLoaded
<1> QED
  BY <1>1, <1>2, <1>3, <1>4, <1>5, <1>6, <1>7, <1>8, <1>9, <1>10
  DEF Next, Expire, GetMiss, GetNotFound, GetLoad, GetBuildFails, ListLoad, vars

(* With the memory backend, for any number of concurrent readers, a stored   *)
(* tenant is never missing from memory: the branches of UpdateTenant and     *)
(* DeleteTenant that load it from storage are unreachable.                   *)
THEOREM StoredAlwaysLoaded ==
    ASSUME Backend = "memory"
    PROVE  Spec => []StoredIsLoaded
<1>1. Init => StoredIsLoaded
  BY DEF Init, StorageInit, StoredIsLoaded
<1>2. TypeOK /\ StoredIsLoaded /\ [Next]_vars => StoredIsLoaded'
  BY StoredIsLoadedStep
<1> QED
  BY <1>1, <1>2, TypeCorrect, PTL DEF Spec

LEMMA CacheMatchesStep ==
    ASSUME Backend = "memory", CacheKind = "memory", TypeOK, CacheMatchesStore,
           [Next]_vars
    PROVE  CacheMatchesStore'
<1>0. /\ rows \in [Ids -> Tenant \union {Nil}]
      /\ cached \in [Ids -> Tenant \union {Nil}]
  BY DEF TypeOK, StorageTypeOK, CacheTypeOK
<1>1. ASSUME NEW t \in Tenant, CreateTenant(t) \/ UpdateTenant(t)
      PROVE  CacheMatchesStore'
  <2>1. /\ rows' = [rows EXCEPT ![t.id] = t]
        /\ cached' = [cached EXCEPT ![t.id] = t]
    BY <1>1 DEF CreateTenant, UpdateTenant, Save, CacheReplace, CacheSet, MayKeep
  <2> QED
    BY <1>0, <2>1, TenantType DEF CacheMatchesStore
<1>2. ASSUME NEW t \in Tenant, CreateUnsaved(t) \/ UpdateUnsaved(t) PROVE FALSE
  BY <1>2 DEF CreateUnsaved, UpdateUnsaved, SaveFails
<1>3. ASSUME NEW i \in Ids, DeleteTenant(i) PROVE CacheMatchesStore'
  <2>1. /\ rows' = [rows EXCEPT ![i] = Nil]
        /\ cached' = [cached EXCEPT ![i] = Nil]
    BY <1>3 DEF DeleteTenant, Remove, CacheDelete, MayKeep
  <2> QED
    BY <1>0, <2>1 DEF CacheMatchesStore
<1>4. ASSUME NEW i \in Ids, DeleteUnsaved(i) PROVE CacheMatchesStore'
  BY <1>4 DEF DeleteUnsaved, RemoveFails, CacheMatchesStore
<1>5. ASSUME NEW i \in Ids, Expire(i) PROVE CacheMatchesStore'
  BY <1>0, <1>5 DEF Expire, CacheExpire, CacheMatchesStore
<1>6. CASE Restart
  BY <1>6 DEF Restart, CacheRestart, CacheMatchesStore
<1>7. CASE UNCHANGED <<rows, cached>>
  BY <1>7 DEF CacheMatchesStore
<1> QED
  BY <1>1, <1>2, <1>3, <1>4, <1>5, <1>6, <1>7
  DEF Next, UpdateBuildFails, GetMiss, GetNotFound, GetLoad, GetInstall,
      GetPublish, GetBuildFails, ListLoad, ListInstall, Close, vars

(* With the memory store and the memory cache a cached copy is never stale,  *)
(* whatever the unlocked readers do to the maps in between.                  *)
THEOREM CacheAlwaysMatches ==
    ASSUME Backend = "memory", CacheKind = "memory"
    PROVE  Spec => []CacheMatchesStore
<1>1. Init => CacheMatchesStore
  BY DEF Init, CacheInit, CacheMatchesStore
<1>2. TypeOK /\ CacheMatchesStore /\ [Next]_vars => CacheMatchesStore'
  BY CacheMatchesStep
<1> QED
  BY <1>1, <1>2, TypeCorrect, PTL DEF Spec

(* Memory and storage only fall apart when a reader installs a copy it had   *)
(* read before: every call under the lock writes through.                    *)
THEOREM WritesGoThrough ==
    ASSUME Backend = "memory"
    PROVE  Spec => WriteThrough
<1>1. TypeOK /\ [Next]_vars =>
         \A i \in Ids : \/ tenants'[i] = rows'[i]
                        \/ tenants'[i] = tenants[i] /\ rows'[i] = rows[i]
                        \/ rows' = rows /\ ReadEarlier(tenants'[i])
  <2> SUFFICES ASSUME TypeOK, [Next]_vars, NEW i \in Ids
               PROVE  \/ tenants'[i] = rows'[i]
                      \/ tenants'[i] = tenants[i] /\ rows'[i] = rows[i]
                      \/ rows' = rows /\ ReadEarlier(tenants'[i])
    OBVIOUS
  <2>0. /\ rows \in [Ids -> Tenant \union {Nil}]
        /\ tenants \in [Ids -> Tenant \union {Nil}]
    BY DEF TypeOK, StorageTypeOK
  <2>1. CASE \E t \in Tenant : CreateTenant(t) \/ UpdateTenant(t)
    BY <2>0, <2>1, TenantType DEF CreateTenant, UpdateTenant, Save
  <2>2. CASE \E t \in Tenant : CreateUnsaved(t) \/ UpdateUnsaved(t)
    BY <2>2 DEF CreateUnsaved, UpdateUnsaved, SaveFails
  <2>3. CASE \E j \in Ids : DeleteTenant(j) \/ DeleteUnsaved(j)
    BY <2>0, <2>3 DEF DeleteTenant, DeleteUnsaved, Forget, Remove, RemoveFails
  <2>4. CASE \E g \in Getters : GetInstall(g)
    BY <2>0, <2>4 DEF GetInstall, ReadEarlier
  <2>5. CASE \E l \in Listers : ListInstall(l)
    <3>1. PICK l \in Listers : ListInstall(l)
      BY <2>5
    <3>2. rows' = rows
      BY <3>1 DEF ListInstall
    <3>3. tenants'[i] = IF \E t \in list[l] : t.id = i
                        THEN CHOOSE t \in list[l] : t.id = i ELSE tenants[i]
      BY <3>1 DEF ListInstall
    <3>4. CASE \E t \in list[l] : t.id = i
      <4>1. tenants'[i] \in list[l]
        BY <3>3, <3>4
      <4> QED
        BY <3>2, <4>1 DEF ReadEarlier
    <3> QED
      BY <3>2, <3>3, <3>4
  <2>6. CASE Restart
    BY <2>6 DEF Restart, StorageRestart
  <2>7. CASE UNCHANGED <<tenants, rows>>
    BY <2>7
  <2> QED
    BY <2>1, <2>2, <2>3, <2>4, <2>5, <2>6, <2>7
    DEF Next, UpdateBuildFails, Expire, GetMiss, GetNotFound, GetLoad, GetPublish,
        GetBuildFails, ListLoad, Close, vars, maps
<1> QED
  BY <1>1, TypeCorrect, PTL DEF Spec, WriteThrough

(* A call of GetTenant or ListTenants has read tenant i and will install it. *)
ReadCopy(i) == \/ \E g \in Getters : At(g, "loaded") /\ get[g].id = i
               \/ \E l \in Listers : \E t \in list[l] : t.id = i

(* No tenant is deleted while somebody holds a copy of it. *)
DeletesUnread ==
    [][\A i \in Ids : DeleteTenant(i) \/ DeleteUnsaved(i) => ~ReadCopy(i)]_vars

(* What a reader holds is stored: only a delete could make it a ghost. *)
NoGhosts ==
    /\ \A i \in Ids : rows[i] # Nil => rows[i].id = i
    /\ DeletedStaysGone
    /\ \A i \in Ids : ReadCopy(i) => rows[i] # Nil

LEMMA NoGhostsStep ==
    ASSUME Backend = "memory", TypeOK, NoGhosts, [Next]_vars,
           \A i \in Ids : DeleteTenant(i) \/ DeleteUnsaved(i) => ~ReadCopy(i)
    PROVE  NoGhosts'
<1>0. /\ rows \in [Ids -> Tenant \union {Nil}]
      /\ tenants \in [Ids -> Tenant \union {Nil}]
      /\ \A i \in Ids : ReadRow(i) = rows[i]
  BY DEF TypeOK, StorageTypeOK, ReadRow
<1>1. ASSUME NEW t \in Tenant, CreateTenant(t) \/ UpdateTenant(t)
      PROVE  NoGhosts'
  <2>1. /\ rows' = [rows EXCEPT ![t.id] = t]
        /\ tenants' = [tenants EXCEPT ![t.id] = t]
        /\ calls' = calls
    BY <1>1 DEF CreateTenant, UpdateTenant, Save
  <2>2. \A i \in Ids : ReadCopy(i)' <=> ReadCopy(i)
    BY <2>1 DEF ReadCopy, At, calls
  <2> QED
    BY <1>0, <2>1, <2>2, TenantType DEF NoGhosts, DeletedStaysGone
<1>2. ASSUME NEW t \in Tenant, CreateUnsaved(t) \/ UpdateUnsaved(t) PROVE FALSE
  BY <1>2 DEF CreateUnsaved, UpdateUnsaved, SaveFails
<1>3. ASSUME NEW i \in Ids, DeleteTenant(i) \/ DeleteUnsaved(i)
      PROVE  NoGhosts'
  <2>1. /\ rows' = [rows EXCEPT ![i] = Nil]
        /\ tenants' = [tenants EXCEPT ![i] = Nil]
        /\ calls' = calls
    BY <1>0, <1>3 DEF DeleteTenant, DeleteUnsaved, Forget, Remove, RemoveFails
  <2>2. \A j \in Ids : ReadCopy(j)' <=> ReadCopy(j)
    BY <2>1 DEF ReadCopy, At, calls
  <2>3. ~ReadCopy(i)
    BY <1>3
  <2> QED
    BY <1>0, <2>1, <2>2, <2>3 DEF NoGhosts, DeletedStaysGone
<1>4. ASSUME NEW g \in Getters, GetInstall(g) PROVE NoGhosts'
  <2>1. get[g].id \in Ids /\ ReadCopy(get[g].id)
    BY <1>4 DEF GetInstall, At, ReadCopy, TypeOK, Lookup
  <2>2. \A j \in Ids : ReadCopy(j)' => ReadCopy(j)
    BY <1>4 DEF GetInstall, At, ReadCopy, TypeOK, Lookup
  <2>3. /\ rows' = rows
        /\ \A j \in Ids : j # get[g].id => tenants'[j] = tenants[j]
    BY <1>0, <1>4 DEF GetInstall
  <2> QED
    BY <2>1, <2>2, <2>3 DEF NoGhosts, DeletedStaysGone
<1>5. ASSUME NEW l \in Listers, ListInstall(l) PROVE NoGhosts'
  <2>1. \A j \in Ids : ReadCopy(j)' => ReadCopy(j)
    BY <1>5 DEF ListInstall, At, ReadCopy, TypeOK
  <2>2. /\ rows' = rows
        /\ \A j \in Ids : ~ReadCopy(j) => tenants'[j] = tenants[j]
    BY <1>5 DEF ListInstall, ReadCopy
  <2> QED
    BY <2>1, <2>2 DEF NoGhosts, DeletedStaysGone
<1>6. ASSUME NEW l \in Listers, ListLoad(l) PROVE NoGhosts'
  <2>1. list' = [list EXCEPT ![l] = ReadAll] /\ get' = get
        /\ tenants' = tenants /\ rows' = rows
    BY <1>6 DEF ListLoad, maps
  <2>2. \A t \in ReadAll : \E j \in Ids : t = rows[j] /\ rows[j] # Nil
    BY <1>0 DEF ReadAll
  <2>3. ASSUME NEW j \in Ids, ReadCopy(j)' PROVE rows[j] # Nil
    <3>1. CASE ReadCopy(j)
      BY <3>1 DEF NoGhosts
    <3>2. CASE \E t \in ReadAll : t.id = j
      BY <2>2, <3>2 DEF NoGhosts
    <3> QED
      BY <2>1, <2>3, <3>1, <3>2 DEF ReadCopy, At, TypeOK
  <2> QED
    BY <2>1, <2>3 DEF NoGhosts, DeletedStaysGone
<1>7. ASSUME NEW g \in Getters, GetLoad(g) PROVE NoGhosts'
  <2>1. get[g].id \in Ids /\ rows[get[g].id] # Nil
    BY <1>0, <1>7 DEF GetLoad, At, TypeOK, Lookup
  <2>2. \A j \in Ids : ReadCopy(j)' => ReadCopy(j) \/ j = get[g].id
    BY <1>7 DEF GetLoad, At, ReadCopy, TypeOK
  <2>3. tenants' = tenants /\ rows' = rows
    BY <1>7 DEF GetLoad, maps
  <2> QED
    BY <2>1, <2>2, <2>3 DEF NoGhosts, DeletedStaysGone
<1>8. ASSUME NEW g \in Getters,
             \/ \E i \in Ids : GetMiss(g, i)
             \/ GetNotFound(g) \/ GetPublish(g) \/ GetBuildFails(g)
      PROVE  NoGhosts'
  <2>1. tenants' = tenants /\ rows' = rows /\ list' = list
    BY <1>8 DEF GetMiss, GetNotFound, GetPublish, GetBuildFails, maps
  <2>2. \A j \in Ids : ReadCopy(j)' => ReadCopy(j)
    BY <1>8, <2>1 DEF GetMiss, GetNotFound, GetPublish, GetBuildFails, ReadCopy,
                      At, TypeOK
  <2> QED
    BY <2>1, <2>2 DEF NoGhosts, DeletedStaysGone
<1>9. CASE Restart
  BY <1>9 DEF Restart, StorageRestart, NoGhosts, DeletedStaysGone, ReadCopy, At
<1>10. CASE UNCHANGED <<tenants, rows, calls>>
  BY <1>10 DEF calls, NoGhosts, DeletedStaysGone, ReadCopy, At
<1> QED
  BY <1>1, <1>2, <1>3, <1>4, <1>5, <1>6, <1>7, <1>8, <1>9, <1>10
  DEF Next, UpdateBuildFails, Expire, Close, vars, maps

(* A deleted tenant comes back only if somebody who had read it before the   *)
(* delete installs it afterwards: that race is the only cause of the ghosts. *)
(* (With PostgreSQL DeletedStaysGone is LoadedIsPersisted the other way      *)
(* round, and holds without the hypothesis.)                                 *)
THEOREM GhostsAreReadCopies ==
    ASSUME Backend = "memory"
    PROVE  Spec /\ DeletesUnread => []DeletedStaysGone
<1>1. Init => NoGhosts
  BY DEF Init, StorageInit, NoGhosts, DeletedStaysGone, ReadCopy, At
<1>2. /\ TypeOK /\ NoGhosts /\ [Next]_vars
      /\ [\A i \in Ids : DeleteTenant(i) \/ DeleteUnsaved(i) => ~ReadCopy(i)]_vars
      => NoGhosts'
  <2> SUFFICES ASSUME TypeOK, NoGhosts, [Next]_vars,
                      [\A i \in Ids : DeleteTenant(i) \/ DeleteUnsaved(i)
                                      => ~ReadCopy(i)]_vars
               PROVE  NoGhosts'
    OBVIOUS
  <2>1. CASE UNCHANGED vars
    BY <2>1 DEF vars, maps, calls, NoGhosts, DeletedStaysGone, ReadCopy, At
  <2> QED
    BY <2>1, NoGhostsStep
<1>3. NoGhosts => DeletedStaysGone
  BY DEF NoGhosts
<1> QED
  BY <1>1, <1>2, <1>3, TypeCorrect, PTL DEF Spec, DeletesUnread

(***************************************************************************)
(* The registry.                                                           *)
(***************************************************************************)
LEMMA RegistryStep ==
    ASSUME Backend # "memory", TypeOK, ReadersIdle, [Next]_vars
    PROVE  [Registry!Next]_(Registry!vars)
<1> USE DEF Registry!Without, Registry!Tenant
<1>0. /\ \A i \in Ids : Existing(i) = tenants[i]
      /\ \A t \in Tenant : t \in Registry!Tenant
  BY NothingRead DEF Tenant
<1>1. ASSUME NEW t \in Tenant, CreateTenant(t) PROVE Registry!Register(t)
  BY <1>1, TenantType DEF CreateTenant, Creatable, Registry!Register
<1>2. ASSUME NEW t \in Tenant, CreateUnsaved(t) PROVE UNCHANGED <<tenants, domains>>
  BY <1>2, TenantType DEF CreateUnsaved, Creatable, TypeOK
<1>3. ASSUME NEW t \in Tenant, UpdateTenant(t) PROVE Registry!Revise(t)
  BY <1>0, <1>3, TenantType DEF UpdateTenant, Unrouted, Registry!Revise
<1>4. ASSUME NEW t \in Tenant, UpdateUnsaved(t) PROVE Registry!ReviseWithdrawn(t)
  BY <1>0, <1>4, TenantType DEF UpdateUnsaved, Unrouted, Registry!ReviseWithdrawn
<1>5. ASSUME NEW i \in Ids, UpdateBuildFails(i) PROVE Registry!Withdraw(i)
  BY <1>0, <1>5 DEF UpdateBuildFails, Unrouted, Registry!Withdraw
<1>6. ASSUME NEW i \in Ids, DeleteTenant(i) \/ DeleteUnsaved(i)
      PROVE  Registry!Remove(i)
  BY <1>0, <1>6 DEF DeleteTenant, DeleteUnsaved, Forget, Unrouted, Registry!Remove
<1>7. ASSUME Restart PROVE Registry!Reset
  BY <1>7 DEF Restart, Registry!Reset, Registry!Init
<1>8. CASE \E t \in Tenant : \/ CreateTenant(t) \/ CreateUnsaved(t)
                             \/ UpdateTenant(t) \/ UpdateUnsaved(t)
  BY <1>0, <1>1, <1>2, <1>3, <1>4, <1>8 DEF Registry!Next, Registry!vars
<1>9. CASE \E i \in Ids : UpdateBuildFails(i) \/ DeleteTenant(i) \/ DeleteUnsaved(i)
  BY <1>5, <1>6, <1>9 DEF Registry!Next
<1>10. CASE Restart
  BY <1>7, <1>10 DEF Registry!Next
<1>11. CASE Close
  BY <1>11 DEF Close, Registry!vars
<1>12. CASE UNCHANGED <<maps, leaked, closing, rows>>
  BY <1>12 DEF maps, Registry!vars
<1> QED
  BY <1>8, <1>9, <1>10, <1>11, <1>12, StepCases

(* Without the memory backend the manager, with its readers, engines, cache  *)
(* and failing storage, implements the registry of TenantRegistry.           *)
THEOREM RegistryImplemented ==
    ASSUME Backend # "memory"
    PROVE  Spec => ImplementsRegistry
<1>1. Init => Registry!Init
  BY DEF Init, Registry!Init
<1>2. RoutingInv /\ [Next]_vars => [Registry!Next]_(Registry!vars)
  BY RegistryStep DEF RoutingInv
<1> QED
  BY <1>1, <1>2, RoutingInvariant, PTL DEF Spec, ImplementsRegistry, Registry!Spec
=============================================================================
