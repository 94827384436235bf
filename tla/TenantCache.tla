----------------------------- MODULE TenantCache -----------------------------
(***************************************************************************)
(* The copies the tenant manager keeps under "tenant:<id>" in cache.Cache. *)
(* Its callers ignore the error of every call, so a call is modelled by    *)
(* the contents it may leave behind.                                       *)
(*   "none"    tm.cache == nil                                             *)
(*   "memory"  MemoryCache: a map of the process, its calls cannot fail    *)
(*   "redis"   RedisCache: outlives the process, each call may do nothing  *)
(***************************************************************************)
EXTENDS TenantStorage

CONSTANT CacheKind

ASSUME CacheAssumption == CacheKind \in {"none", "memory", "redis"}

VARIABLE cached         \* cached[i]: the copy of tenant i, or Nil

CacheTypeOK == cached \in [Ids -> Tenant \union {Nil}]

CacheInit == cached = [i \in Ids |-> Nil]

-----------------------------------------------------------------------------
MayKeep == IF CacheKind = "redis" THEN {TRUE, FALSE} ELSE {FALSE}

(* cache.Set *)
CacheSet(t) ==
    IF CacheKind = "none" THEN UNCHANGED cached
    ELSE \E lost \in MayKeep :
            cached' = IF lost THEN cached ELSE [cached EXCEPT ![t.id] = t]

(* cache.Delete *)
CacheDelete(i) ==
    IF CacheKind = "none" THEN UNCHANGED cached
    ELSE \E lost \in MayKeep :
            cached' = IF lost THEN cached ELSE [cached EXCEPT ![i] = Nil]

(* cache.Delete then cache.Set: the new copy, nothing, or the old copy. *)
CacheReplace(t) == CacheSet(t) \/ (CacheKind = "redis" /\ CacheDelete(t.id))

(* The entry reaches its time to live. *)
CacheExpire(i) ==
    /\ cached[i] # Nil
    /\ cached' = [cached EXCEPT ![i] = Nil]

CacheRestart ==
    cached' = IF CacheKind = "redis" THEN cached ELSE [i \in Ids |-> Nil]
=============================================================================
