--------------------------- MODULE TenantRegistry ---------------------------
(***************************************************************************)
(* What the tenant API promises its callers when nothing is read back from *)
(* storage: a table of tenants and a routing table, changed by one request *)
(* at a time.  There are no locks, engines, storage, cache or half-done    *)
(* calls here; a request that reports an error may still have taken one of *)
(* three visible effects (Withdraw, ReviseWithdrawn, Remove).              *)
(*                                                                         *)
(* TenantManager implements this specification for the backends "none" and *)
(* "postgres".                                                             *)
(***************************************************************************)
CONSTANTS Ids, Domains, Contents, Nil

Tenant == [id : Ids, doms : SUBSET Domains, content : Contents]

VARIABLES reg,          \* reg[i]: the tenant registered under id i, or Nil
          routes        \* routes[d]: the id requests for d are routed to, or Nil

vars == <<reg, routes>>

Init ==
    /\ reg = [i \in Ids |-> Nil]
    /\ routes = [d \in Domains |-> Nil]

-----------------------------------------------------------------------------
(* The routing table without the domains ds. *)
Without(ds) == [d \in Domains |-> IF d \in ds THEN Nil ELSE routes[d]]

Register(t) ==
    /\ reg[t.id] = Nil
    /\ \A d \in t.doms : routes[d] = Nil
    /\ reg' = [reg EXCEPT ![t.id] = t]
    /\ routes' = [d \in Domains |-> IF d \in t.doms THEN t.id ELSE routes[d]]

Revise(t) ==
    /\ reg[t.id] # Nil
    /\ reg' = [reg EXCEPT ![t.id] = t]
    /\ routes' = [d \in Domains |-> IF d \in t.doms THEN t.id
                                    ELSE Without(reg[t.id].doms)[d]]

(* An update fails before it touches the tenant. *)
Withdraw(i) ==
    /\ reg[i] # Nil
    /\ routes' = Without(reg[i].doms)
    /\ UNCHANGED reg

(* An update fails after it has replaced the tenant. *)
ReviseWithdrawn(t) ==
    /\ reg[t.id] # Nil
    /\ reg' = [reg EXCEPT ![t.id] = t]
    /\ routes' = Without(reg[t.id].doms)

Remove(i) ==
    /\ reg[i] # Nil
    /\ reg' = [reg EXCEPT ![i] = Nil]
    /\ routes' = Without(reg[i].doms)

(* The process starts again with nothing registered. *)
Reset == Init'

Next ==
    \/ \E t \in Tenant : Register(t) \/ Revise(t) \/ ReviseWithdrawn(t)
    \/ \E i \in Ids : Withdraw(i) \/ Remove(i)
    \/ Reset

Spec == Init /\ [][Next]_vars

-----------------------------------------------------------------------------
(* Whoever a domain is routed to is registered and claims that domain. *)
RoutedToClaimant ==
    \A d \in Domains : routes[d] # Nil =>
        reg[routes[d]] # Nil /\ d \in reg[routes[d]].doms
=============================================================================
