----------------------------- MODULE RequestPath -----------------------------
(***************************************************************************)
(* The way of a request through the program, next to the calls that change *)
(* the tenants meanwhile (TenantManager):                                  *)
(*   internal/tenant/router.go   which tenant the host name leads to       *)
(*   GetWAFEngine                the engine of that tenant                 *)
(*   internal/proxy/proxy.go     inspection by the engine, the upstream    *)
(*                                                                         *)
(* Each look-up takes tm.mu of its own, so tenants come and go between the *)
(* look-ups, and while the engine is in use.  The WAF and the upstream are *)
(* external: their verdicts, errors and panics are choices.  The handler   *)
(* behind the router, which is not in the repository, is taken to do what  *)
(* GetWAFEngine and NewReverseProxy are for.                               *)
(***************************************************************************)
EXTENDS TenantManager

CONSTANTS Hosts,        \* what requests ask for: domains of tenants, and others
          WildcardOf,   \* WildcardOf[h]: "*." and the parent of h, or Nil
          CatchAll,     \* the domain "*", or Nil if no tenant may claim it
          Disabled,     \* the contents of tenants that are not enabled
          Requests,     \* concurrent requests
          Txs           \* the WAF's transaction objects

(* A request that has been routed: by which version of which tenant, to an   *)
(* engine of what content and whether that is open still; its transaction;   *)
(* whether the WAF has let its headers pass, and has refused it; and whether  *)
(* its tenant was changed since it was routed (recorded for the properties). *)
Routed == [step : {"routed", "engine", "headers", "body", "upstream",
                   "response", "close", "log"},
           tenant : Tenant, content : Contents \union {Nil}, open : BOOLEAN,
           tx : Txs \union {Nil}, refused : BOOLEAN, touched : BOOLEAN]

(* A request whose host has led nowhere yet, and its wildcard name. *)
Unplaced == [step : {"wildcard"}, host : Hosts]

ASSUME WildcardAssumption ==
    /\ Domains \subseteq Hosts
    /\ WildcardOf \in [Hosts -> Hosts \union {Nil}]
    /\ CatchAll \in Domains \union {Nil}
    /\ Nil \notin Hosts \union Contents \union Txs
    /\ Nil \notin Routed \union Unplaced

ASSUME RequestsAssumption == IsFiniteSet(Requests)

VARIABLES req,          \* req[q]: progress of the request q, or Nil
          pool          \* pool[x]: how often x lies in the pool of unused ones

requestVars == <<req, pool>>

RequestTypeOK ==
    /\ req \in [Requests -> Routed \union Unplaced \union {Nil}]
    /\ pool \in [Txs -> Nat]

RequestInit ==
    /\ Init
    /\ req = [q \in Requests |-> Nil]
    /\ pool = [x \in Txs |-> 1]

-----------------------------------------------------------------------------
(* The step of a request leaves the tenants alone. *)
Reads == UNCHANGED vars

Reached(q, step) == req[q] # Nil /\ req[q].step = step

GoOn(q, step) == req' = [req EXCEPT ![q].step = step]

(* GetTenantByDomain: the name itself, the catch-all, the wildcard name. *)
TenantOf(h) ==
    LET of(d) == IF d \in Domains THEN domains[d] ELSE Nil
    IN  IF of(h) # Nil THEN of(h)
        ELSE IF of(CatchAll) # Nil THEN of(CatchAll)
        ELSE of(WildcardOf[h])

(* Middleware answers 503 for a tenant that is disabled, and hands the       *)
(* request on for any other.                                                 *)
Route(q, t) ==
    req' = [req EXCEPT ![q] =
               IF t.content \in Disabled THEN Nil
               ELSE [step |-> "routed", tenant |-> t, content |-> Nil,
                     open |-> FALSE, tx |-> Nil, refused |-> FALSE,
                     touched |-> FALSE]]

(* GetTenantFromRequest.  (A host that leads nowhere and has no wildcard     *)
(* name is answered 404 without a trace.)                                    *)
Arrive(q, h) ==
    /\ req[q] = Nil
    /\ TenantOf(h) # Nil
    /\ Route(q, TenantOf(h))
    /\ UNCHANGED pool /\ Reads

ArriveUnknown(q, h) ==
    /\ req[q] = Nil
    /\ TenantOf(h) = Nil
    /\ WildcardOf[h] # Nil
    /\ req' = [req EXCEPT ![q] = [step |-> "wildcard", host |-> WildcardOf[h]]]
    /\ UNCHANGED pool /\ Reads

(* The second look-up, under the lock again; 404 if it fails, too. *)
TryWildcard(q) ==
    /\ Reached(q, "wildcard")
    /\ IF TenantOf(req[q].host) = Nil THEN req' = [req EXCEPT ![q] = Nil]
       ELSE Route(q, TenantOf(req[q].host))
    /\ UNCHANGED pool /\ Reads

(* Fault: the tenant is looked up once more, by one of its domains. *)
PickEngineByHost(q) ==
    /\ Reached(q, "routed")
    /\ \E d \in req[q].tenant.doms :
          LET w == IF domains[d] = Nil THEN Nil ELSE wafs[domains[d].id]
          IN  req' = [req EXCEPT ![q] =
                         IF w = Nil THEN Nil
                         ELSE [@ EXCEPT !.step = "engine",
                                        !.content = w.content,
                                        !.open = w.open]]
    /\ UNCHANGED pool /\ Reads

(* GetWAFEngine for the tenant the request was routed to. *)
PickEngine(q) ==
    /\ Reached(q, "routed")
    /\ LET w == wafs[req[q].tenant.id]
       IN  req' = [req EXCEPT ![q] =
                      IF w = Nil THEN Nil
                      ELSE [@ EXCEPT !.step = "engine", !.content = w.content,
                                     !.open = w.open]]
    /\ UNCHANGED pool /\ Reads

-----------------------------------------------------------------------------
(* Fault: the pool hands out objects that are in use. *)
NewTransactionUsed(q, x) ==
    /\ Reached(q, "engine")
    /\ pool' = [pool EXCEPT ![x] = @ - 1]
    /\ req' = [req EXCEPT ![q] = [@ EXCEPT !.step = "headers", !.tx = x]]
    /\ Reads

(* ServeHTTP: NewTransaction takes an object nobody uses, *)
NewTransaction(q, x) ==
    /\ Reached(q, "engine")
    /\ pool[x] > 0
    /\ pool' = [pool EXCEPT ![x] = @ - 1]
    /\ req' = [req EXCEPT ![q] = [@ EXCEPT !.step = "headers", !.tx = x]]
    /\ Reads

(* the headers are inspected, *)
PassHeaders(q) ==
    /\ Reached(q, "headers")
    /\ GoOn(q, "body")
    /\ UNCHANGED pool /\ Reads

(* Fault: handleInterruption closes the transaction already. *)
InterruptAndClose(q, step) ==
    /\ Reached(q, step)
    /\ req' = [req EXCEPT ![q] = [@ EXCEPT !.step = "close", !.refused = TRUE]]
    /\ pool' = [pool EXCEPT ![req[q].tx] = @ + 1]
    /\ Reads

(* Fault: ServeHTTP does not return after handleInterruption. *)
InterruptAndGoOn(q, step) ==
    /\ Reached(q, step)
    /\ req' = [req EXCEPT ![q] = [@ EXCEPT !.step = "upstream", !.refused = TRUE]]
    /\ UNCHANGED pool /\ Reads

(* (handleInterruption has answered the request: it is over but for the      *)
(* deferred calls) *)
Interrupt(q, step) ==
    /\ Reached(q, step)
    /\ req' = [req EXCEPT ![q] = [@ EXCEPT !.step = "close", !.refused = TRUE]]
    /\ UNCHANGED pool /\ Reads

(* the body, too, if the engine asks for it and unless the WAF fails, *)
PassBody(q) ==
    /\ Reached(q, "body")
    /\ GoOn(q, "upstream")
    /\ UNCHANGED pool /\ Reads

(* (the client does not send it: 400) *)
BodyUnreadable(q) ==
    /\ Reached(q, "body")
    /\ GoOn(q, "close")
    /\ UNCHANGED pool /\ Reads

(* the upstream answers, or ErrorHandler does, *)
Forward(q) ==
    /\ Reached(q, "upstream")
    /\ GoOn(q, "response")
    /\ UNCHANGED pool /\ Reads

(* (or its answer breaks off: httputil.ReverseProxy panics) *)
Panic(q) ==
    /\ Reached(q, "upstream")
    /\ GoOn(q, "close")
    /\ UNCHANGED pool /\ Reads

(* the response is shown to the WAF, which cannot refuse it any more, *)
InspectResponse(q) ==
    /\ Reached(q, "response")
    /\ GoOn(q, "close")
    /\ UNCHANGED pool /\ Reads

(* and the deferred calls run, the last one first: Close puts the            *)
(* transaction back into the pool, then ProcessLogging works on it.          *)
CloseTransaction(q) ==
    /\ Reached(q, "close")
    /\ pool' = [pool EXCEPT ![req[q].tx] = @ + 1]
    /\ GoOn(q, "log")
    /\ Reads

ProcessLogging(q) ==
    /\ Reached(q, "log")
    /\ req' = [req EXCEPT ![q] = Nil]
    /\ UNCHANGED pool /\ Reads

Serve ==
    \E q \in Requests :
       \/ \E h \in Hosts : Arrive(q, h) \/ ArriveUnknown(q, h)
       \/ TryWildcard(q) \/ PickEngine(q)
       \/ \E x \in Txs : NewTransaction(q, x)
       \/ PassHeaders(q) \/ PassBody(q) \/ BodyUnreadable(q)
       \/ Interrupt(q, "headers") \/ Interrupt(q, "body")
       \/ Forward(q) \/ Panic(q) \/ InspectResponse(q)
       \/ CloseTransaction(q) \/ ProcessLogging(q)

-----------------------------------------------------------------------------
(* The engines of the tenants S are closed; the requests they were routed to *)
(* may hold them.                                                            *)
About(q, S) == req[q] # Nil /\ req[q].step # "wildcard" /\ req[q].tenant.id \in S

Touch(S) ==
    /\ req' = [q \in Requests |->
                  IF About(q, S)
                  THEN [req[q] EXCEPT !.open = FALSE, !.touched = TRUE]
                  ELSE req[q]]
    /\ UNCHANGED pool

(* The process ends, and its requests with it. *)
Abort ==
    /\ req' = [q \in Requests |-> Nil]
    /\ pool' = [x \in Txs |-> 1]

Manage ==
    \/ \E t \in Tenant : \/ CreateTenant(t) /\ UNCHANGED requestVars
                         \/ CreateUnsaved(t) /\ UNCHANGED requestVars
                         \/ UpdateTenant(t) /\ Touch({t.id})
                         \/ UpdateUnsaved(t) /\ Touch({t.id})
    \/ \E i \in Ids : \/ UpdateBuildFails(i) /\ Touch({i})
                      \/ DeleteTenant(i) /\ Touch({i})
                      \/ DeleteUnsaved(i) /\ Touch({i})
    \/ Close /\ Touch(Ids)
    \/ Restart /\ Abort

RequestSpec == RequestInit /\ [][Serve \/ Manage]_<<vars, requestVars>>
-----------------------------------------------------------------------------
(* The engine a request will be given, or has been given. *)
Held(r) == IF r.step = "routed" THEN wafs[r.tenant.id]
           ELSE [content |-> r.content, open |-> r.open]

(* A request whose tenant was not updated, deleted or shut down since it was *)
(* routed gets an engine and is inspected by the one it was routed to: of    *)
(* the very version of the tenant, and open to the last.  The engine is      *)
(* looked up in a critical section after that of the route, and used in none.*)
UndisturbedIsServed ==
    \A q \in Requests : About(q, Ids) /\ ~req[q].touched =>
        /\ Held(req[q]) \in Engine
        /\ Held(req[q]).content = req[q].tenant.content
        /\ Held(req[q]).open \/ closing

(* Request q has taken the transaction x and not closed it. *)
Owns(q, x) == About(q, Ids) /\ req[q].tx = x /\ req[q].step # "log"

Owners(x) == {q \in Requests : Owns(q, x)}

(* From NewTransaction to its Close a transaction belongs to one request, and *)
(* it gets back to the pool once, whichever way the request ends: passed,     *)
(* refused in either phase, unreadable, or by a panic.                        *)
OneOwner == \A x \in Txs : pool[x] + Cardinality(Owners(x)) = 1

(* Nothing reaches the upstream that the WAF has refused in either phase, or *)
(* that was routed to a tenant that was disabled.                            *)
RefusedStays ==
    \A q \in Requests : Reached(q, "upstream") \/ Reached(q, "response") =>
        ~req[q].refused /\ req[q].tenant.content \notin Disabled
=============================================================================
