---------------------------- MODULE TenantStorage ----------------------------
(***************************************************************************)
(* The persistent side of the tenant manager: internal/storage.            *)
(*                                                                         *)
(* A tenant is what storage.TenantData and tenant.Tenant carry and what    *)
(* the rest of the program tells apart: its id, the domains it claims, and *)
(* one value standing for its remaining content (name, rules, config,      *)
(* metadata, time stamps).                                                 *)
(*                                                                         *)
(* Backend selects what the storage interface is bound to:                 *)
(*   "none"      tm.storage == nil                                         *)
(*   "memory"    MemoryStore: lives and dies with the process              *)
(*   "postgres"  PostgresStore: the rows survive the process, a statement  *)
(*               may fail, and a failed statement may have been applied.   *)
(***************************************************************************)
CONSTANTS Ids,          \* tenant ids
          Domains,      \* domain names a tenant may claim
          Contents,     \* everything else a tenant consists of
          Nil,          \* an absent map entry, a nil pointer
          Backend,
          StoreFaults   \* whether PostgreSQL statements may fail

Tenant == [id : Ids, doms : SUBSET Domains, content : Contents]

ASSUME BackendAssumption ==
    /\ Backend \in {"none", "memory", "postgres"}
    /\ StoreFaults \in BOOLEAN

ASSUME NilAssumption == Nil \notin Tenant /\ Nil \notin Ids

VARIABLE rows           \* rows[i]: the stored tenant i, or Nil

StorageTypeOK == rows \in [Ids -> Tenant \union {Nil}]

StorageInit == rows = [i \in Ids |-> Nil]

-----------------------------------------------------------------------------
(* SaveTenant: an upsert by id. *)
Save(t) ==
    rows' = IF Backend = "none" THEN rows ELSE [rows EXCEPT ![t.id] = t]

(* SaveTenant returns an error.  When the connection or the request context *)
(* breaks after the server has run the statement, the row is written anyway. *)
SaveFails(t) ==
    /\ Backend = "postgres" /\ StoreFaults
    /\ \/ rows' = rows
       \/ rows' = [rows EXCEPT ![t.id] = t]

(* DeleteTenant: one row must have been there, or there is no storage. *)
Remove(i) ==
    /\ Backend = "none" \/ rows[i] # Nil
    /\ rows' = [rows EXCEPT ![i] = Nil]

(* DeleteTenant returns an error: there was no such row (ErrTenantNotFound), *)
(* or the statement failed, before or after the server ran it.               *)
RemoveFails(i) ==
    \/ /\ Backend # "none" /\ rows[i] = Nil
       /\ UNCHANGED rows
    \/ /\ Backend = "postgres" /\ StoreFaults
       /\ \/ rows' = rows
          \/ rows' = [rows EXCEPT ![i] = Nil]

(* GetTenant: what the caller gets, Nil standing for an error.  PostgresStore *)
(* scans the TEXT[] columns into plain []string variables, a conversion       *)
(* database/sql does not have: Scan returns an error for every existing row.  *)
ReadRow(i) == IF Backend = "memory" THEN rows[i] ELSE Nil

(* ListTenants: the tenants the caller gets; {} stands for an error as well,  *)
(* which its only caller treats like an empty list.                           *)
ReadAll == {ReadRow(i) : i \in Ids} \ {Nil}

(* The process ends and starts again: only PostgreSQL keeps its rows. *)
StorageRestart ==
    rows' = IF Backend = "postgres" THEN rows ELSE [i \in Ids |-> Nil]
=============================================================================
