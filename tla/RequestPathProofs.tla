-------------------------- MODULE RequestPathProofs --------------------------
EXTENDS RequestPath, TenantManagerProofs, FiniteSetTheorems

(***************************************************************************)
(* The requests run next to the tenant manager and do not disturb it.      *)
(***************************************************************************)

LEMMA ServeReads == Serve => UNCHANGED vars
BY DEF Serve, Reads, Arrive, ArriveUnknown, TryWildcard, PickEngine,
       NewTransaction, PassHeaders, PassBody, BodyUnreadable, Interrupt, Forward,
       Panic, InspectResponse, CloseTransaction, ProcessLogging

(* The requests, whatever they do, make the tenant manager take no step that *)
(* it would not take without them: what is proved of TenantManager holds here.*)
THEOREM ManagerGoesOn == RequestSpec => Spec
<1>1. RequestInit => Init
  BY DEF RequestInit
<1>2. Manage => Next
  BY DEF Manage, Next
<1>3. [Serve \/ Manage]_<<vars, requestVars>> => [Next]_vars
  BY <1>2, ServeReads
<1> QED
  BY <1>1, <1>3, PTL DEF RequestSpec, Spec

(* What a call that changes tenants may do to the requests: nothing, if its  *)
(* tenant was not there before; or it touches those of the tenants whose     *)
(* engines it may close or replace; or it ends them.                         *)
LEMMA ManageKinds ==
    ASSUME TypeOK, Manage
    PROVE  \/ /\ UNCHANGED requestVars /\ closing' = closing
              /\ \E t \in Tenant : /\ tenants[t.id] = Nil
                                   /\ \A i \in Ids \ {t.id} : wafs'[i] = wafs[i]
           \/ \E S \in SUBSET Ids :
                 /\ Touch(S)
                 /\ \A i \in Ids \ S : wafs'[i] = wafs[i]
                 /\ closing => closing'
           \/ Abort
<1>1. ASSUME NEW t \in Tenant, CreateTenant(t) \/ CreateUnsaved(t),
             UNCHANGED requestVars
      PROVE  /\ UNCHANGED requestVars /\ closing' = closing
             /\ tenants[t.id] = Nil
             /\ \A i \in Ids \ {t.id} : wafs'[i] = wafs[i]
  BY <1>1 DEF CreateTenant, CreateUnsaved, Creatable, TypeOK
<1>2. ASSUME NEW t \in Tenant, UpdateTenant(t) \/ UpdateUnsaved(t), Touch({t.id})
      PROVE  /\ t.id \in Ids /\ closing' = closing
             /\ \A i \in Ids \ {t.id} : wafs'[i] = wafs[i]
  BY <1>2 DEF UpdateTenant, UpdateUnsaved, TypeOK, Tenant
<1>3. ASSUME NEW i \in Ids, UpdateBuildFails(i) \/ DeleteTenant(i) \/ DeleteUnsaved(i)
      PROVE  closing' = closing /\ \A j \in Ids \ {i} : wafs'[j] = wafs[j]
  BY <1>3 DEF UpdateBuildFails, DeleteTenant, DeleteUnsaved, Forget, TypeOK
<1>4. Close => closing'
  BY DEF Close
<1>5. CASE \E t \in Tenant : \/ CreateTenant(t) /\ UNCHANGED requestVars
                             \/ CreateUnsaved(t) /\ UNCHANGED requestVars
  BY <1>1, <1>5
<1>6. CASE \E t \in Tenant : \/ UpdateTenant(t) /\ Touch({t.id})
                             \/ UpdateUnsaved(t) /\ Touch({t.id})
  <2>1. PICK t \in Tenant : /\ UpdateTenant(t) \/ UpdateUnsaved(t)
                            /\ Touch({t.id})
    BY <1>6
  <2>2. {t.id} \in SUBSET Ids
    BY <1>2, <2>1
  <2> QED
    BY <1>2, <2>1, <2>2
<1>7. CASE \E i \in Ids : \/ UpdateBuildFails(i) /\ Touch({i})
                          \/ DeleteTenant(i) /\ Touch({i})
                          \/ DeleteUnsaved(i) /\ Touch({i})
  <2>1. PICK i \in Ids : /\ \/ UpdateBuildFails(i) \/ DeleteTenant(i)
                            \/ DeleteUnsaved(i)
                         /\ Touch({i})
    BY <1>7
  <2>2. {i} \in SUBSET Ids
    OBVIOUS
  <2> QED
    BY <1>3, <2>1, <2>2
<1>8. CASE Close /\ Touch(Ids)
  BY <1>4, <1>8
<1>9. CASE Restart /\ Abort
  BY <1>9
<1> QED
  BY <1>5, <1>6, <1>7, <1>8, <1>9 DEF Manage

(***************************************************************************)
(* Types.                                                                  *)
(***************************************************************************)

(* A request is about a tenant exactly if it has been routed. *)
LEMMA RoutedRequest ==
    ASSUME RequestTypeOK, NEW q \in Requests
    PROVE  /\ About(q, Ids) <=> req[q] \in Routed
           /\ \A s : s # "wildcard" /\ Reached(q, s) =>
                        req[q] \in Routed /\ req[q].step = s
           /\ Reached(q, "wildcard") =>
                 req[q] \in Unplaced /\ req[q].host \in Hosts
<1>1. req[q] \in Routed \union Unplaced \union {Nil}
  BY DEF RequestTypeOK
<1>2. req[q] \in Routed => /\ req[q] # Nil /\ req[q].step # "wildcard"
                           /\ req[q].tenant.id \in Ids
  BY WildcardAssumption DEF Routed, Tenant
<1>3. req[q] \in Unplaced => /\ req[q] # Nil /\ req[q].step = "wildcard"
                             /\ req[q].host \in Hosts
  BY WildcardAssumption DEF Unplaced
<1> QED
  BY <1>1, <1>2, <1>3 DEF About, Reached

(* Where a host leads to is a tenant that some domain is routed to. *)
LEMMA TenantOfIsRouted ==
    ASSUME TypeOK, NEW h \in Hosts, TenantOf(h) # Nil
    PROVE  /\ TenantOf(h) \in Tenant
           /\ \E d \in Domains : domains[d] = TenantOf(h)
<1>1. \A d \in Domains : domains[d] \in Tenant \union {Nil}
  BY DEF TypeOK
<1>2. \E d \in Domains : domains[d] = TenantOf(h)
  BY DEF TenantOf
<1> QED
  BY <1>1, <1>2

(***************************************************************************)
(* What holds of each request.                                             *)
(***************************************************************************)

(* A routed request of an enabled tenant that has a transaction in the middle *)
(* of its way, is only being cleaned up if it was refused, ...                *)
Proper(r) ==
    r \in Routed =>
        /\ r.tenant.content \notin Disabled
        /\ r.tx = Nil <=> r.step \in {"routed", "engine"}
        /\ r.refused => r.step \in {"close", "log"}

(* ... and is served by the right engine unless its tenant was touched. *)
Entitled(r) ==
    r \in Routed /\ ~r.touched =>
        /\ Held(r) \in Engine
        /\ Held(r).content = r.tenant.content
        /\ Held(r).open \/ closing

LEMMA NewRoute ==
    ASSUME RoutingInv, NEW h \in Hosts, TenantOf(h) # Nil,
           NEW q \in Requests, RequestTypeOK, Route(q, TenantOf(h)), UNCHANGED vars
    PROVE  /\ req'[q] \in Routed \union {Nil}
           /\ Proper(req'[q]) /\ Entitled(req'[q])
           /\ req'[q] # Nil => req'[q].tx = Nil
           /\ \A p \in Requests \ {q} : req'[p] = req[p]
<1> DEFINE t == TenantOf(h)
           new == [step |-> "routed", tenant |-> t, content |-> Nil,
                   open |-> FALSE, tx |-> Nil, refused |-> FALSE, touched |-> FALSE]
<1>1. t \in Tenant /\ \E d \in Domains : domains[d] = t /\ domains[d] # Nil
  BY TenantOfIsRouted DEF RoutingInv
<1>2. /\ wafs[t.id] \in Engine /\ wafs[t.id].content = t.content
      /\ wafs[t.id].open \/ closing
  BY <1>1 DEF RoutingInv, RoutedIsServed
<1>3. /\ new \in Routed /\ new.step = "routed" /\ new.tenant = t /\ new.tx = Nil
      /\ ~new.refused
  BY <1>1 DEF Routed
<1>4. Nil \notin Routed
  BY WildcardAssumption
<1>5. /\ req'[q] = IF t.content \in Disabled THEN Nil ELSE new
      /\ \A p \in Requests \ {q} : req'[p] = req[p]
  BY DEF Route, RequestTypeOK
<1> HIDE DEF new, t
<1>6. CASE t.content \in Disabled
  BY <1>4, <1>5, <1>6 DEF Proper, Entitled
<1>7. CASE t.content \notin Disabled
  <2>1. Held(new) = wafs[t.id]
    BY <1>3 DEF Held
  <2> QED
    BY <1>2, <1>3, <1>5, <1>7, <2>1 DEF Proper, Entitled
<1> QED
  BY <1>6, <1>7

(* A step along the way that leaves tenant, engine and transaction alone. *)
LEMMA GoesOn ==
    ASSUME RequestTypeOK, NEW q \in Requests, NEW c,
           \/ c = req[q]
           \/ \E s \in {"body", "upstream", "response", "close", "log"} :
                 c = [req[q] EXCEPT !.step = s]
           \/ c = [req[q] EXCEPT !.step = "close", !.refused = TRUE],
           req[q] \in Routed, req[q].step \notin {"routed", "engine"},
           Proper(req[q]), Entitled(req[q]), c.refused => c.step \in {"close", "log"}
    PROVE  /\ c \in Routed /\ Proper(c) /\ Entitled(c) /\ c.tx = req[q].tx
           /\ c.step \notin {"routed", "engine"}
<1>1. /\ c \in Routed /\ c.tenant = req[q].tenant /\ c.tx = req[q].tx
      /\ c.content = req[q].content /\ c.open = req[q].open
      /\ c.touched = req[q].touched /\ c.step \notin {"routed", "engine"}
  BY DEF Routed
<1>2. Held(c) = Held(req[q])
  BY <1>1 DEF Held
<1> QED
  BY <1>1, <1>2 DEF Proper, Entitled

RInv == /\ RequestTypeOK
        /\ \A q \in Requests : Proper(req[q]) /\ Entitled(req[q])
        /\ OneOwner

(* A step of q keeps the ledger of transactions.  (Holds(r, x): a request in *)
(* the state r owns x.)                                                      *)
Holds(r, x) == r \in Routed /\ r.tx = x /\ r.step # "log"

LEMMA OwnersBy ==
    ASSUME RequestTypeOK, RequestTypeOK', NEW q \in Requests, NEW x \in Txs,
           pool[x] + Cardinality(Owners(x)) = 1,
           \A p \in Requests \ {q} : req'[p] = req[p],
           \/ pool'[x] = pool[x] /\ (Holds(req'[q], x) <=> Holds(req[q], x))
           \/ pool'[x] = pool[x] - 1 /\ Holds(req'[q], x) /\ ~Holds(req[q], x)
           \/ pool'[x] = pool[x] + 1 /\ ~Holds(req'[q], x) /\ Holds(req[q], x)
    PROVE  pool'[x] + Cardinality(Owners(x)') = 1
<1>1. \A p \in Requests : /\ Owns(p, x) <=> Holds(req[p], x)
                          /\ Owns(p, x)' <=> Holds(req'[p], x)
  <2> SUFFICES ASSUME NEW p \in Requests
               PROVE  /\ Owns(p, x) <=> Holds(req[p], x)
                      /\ Owns(p, x)' <=> Holds(req'[p], x)
    OBVIOUS
  <2>1. About(p, Ids) <=> req[p] \in Routed
    BY RoutedRequest
  <2>2. About(p, Ids)' <=> req'[p] \in Routed
    BY WildcardAssumption DEF RequestTypeOK, About, Routed, Unplaced, Tenant
  <2> QED
    BY <2>1, <2>2 DEF Owns, Holds
<1>2. /\ Owners(x) = {p \in Requests : Holds(req[p], x)}
      /\ Owners(x)' = {p \in Requests : Holds(req'[p], x)}
  BY <1>1 DEF Owners
<1>3. /\ Owners(x) \in SUBSET Requests /\ IsFiniteSet(Owners(x))
      /\ Cardinality(Owners(x)) \in Nat /\ pool[x] \in Nat
  BY <1>2, FS_Subset, FS_CardinalityType, RequestsAssumption DEF RequestTypeOK
<1>4. CASE pool'[x] = pool[x] /\ (Holds(req'[q], x) <=> Holds(req[q], x))
  <2>1. Owners(x)' = Owners(x)
    BY <1>2, <1>4
  <2> QED
    BY <1>4, <2>1
<1>5. CASE pool'[x] = pool[x] - 1 /\ Holds(req'[q], x) /\ ~Holds(req[q], x)
  <2>1. Owners(x)' = Owners(x) \union {q} /\ q \notin Owners(x)
    BY <1>2, <1>5
  <2>2. Cardinality(Owners(x)') = Cardinality(Owners(x)) + 1
    BY <1>3, <2>1, FS_AddElement
  <2> QED
    BY <1>3, <1>5, <2>2
<1>6. CASE pool'[x] = pool[x] + 1 /\ ~Holds(req'[q], x) /\ Holds(req[q], x)
  <2>1. Owners(x)' = Owners(x) \ {q} /\ q \in Owners(x)
    BY <1>2, <1>6
  <2>2. Cardinality(Owners(x)') = Cardinality(Owners(x)) - 1
    BY <1>3, <2>1, FS_RemoveElement
  <2> QED
    BY <1>3, <1>6, <2>2
<1> QED
  BY <1>4, <1>5, <1>6

LEMMA RInvInit == RequestInit => RInv
<1> SUFFICES ASSUME RequestInit PROVE RInv
  OBVIOUS
<1>1. \A q \in Requests : req[q] = Nil /\ req[q] \notin Routed
  BY WildcardAssumption DEF RequestInit
<1>2. RequestTypeOK
  BY DEF RequestInit, RequestTypeOK
<1>3. \A x \in Txs : Owners(x) = {}
  BY <1>1 DEF Owners, Owns, About
<1>4. OneOwner
  BY <1>3, FS_EmptySet DEF RequestInit, OneOwner
<1> QED
  BY <1>1, <1>2, <1>4 DEF RInv, Proper, Entitled

(* What a step of request q has to show. *)
Kept(q) ==
    /\ \A p \in Requests \ {q} : req'[p] = req[p]
    /\ req' \in [Requests -> Routed \union Unplaced \union {Nil}]
    /\ Proper(req'[q]) /\ Entitled(req'[q])
    /\ pool' \in [Txs -> Nat]
    /\ \A x \in Txs :
         \/ pool'[x] = pool[x] /\ (Holds(req'[q], x) <=> Holds(req[q], x))
         \/ pool'[x] = pool[x] - 1 /\ Holds(req'[q], x) /\ ~Holds(req[q], x)
         \/ pool'[x] = pool[x] + 1 /\ ~Holds(req'[q], x) /\ Holds(req[q], x)

LEMMA KeptIsEnough ==
    ASSUME RInv, NEW q \in Requests, Kept(q), UNCHANGED vars
    PROVE  RInv'
<1>1. RequestTypeOK'
  BY DEF Kept, RequestTypeOK
<1>2. OneOwner'
  BY <1>1, OwnersBy DEF RInv, OneOwner, Kept
<1>3. \A p \in Requests : Proper(req'[p]) /\ Entitled(req'[p])
  BY DEF Kept, RInv
<1>4. \A p \in Requests : Proper(req[p])' /\ Entitled(req[p])'
  BY <1>3 DEF Proper, Entitled, Held, vars, maps
<1> QED
  BY <1>1, <1>2, <1>4 DEF RInv

LEMMA ServeStep ==
    ASSUME RoutingInv, RInv, Serve
    PROVE  RInv'
<1>0. UNCHANGED vars
  BY ServeReads
<1>a. RequestTypeOK /\ TypeOK /\ Nil \notin Routed \union Unplaced \union Txs
  BY WildcardAssumption DEF RInv, RoutingInv
<1>b. PICK q \in Requests :
         \/ \E h \in Hosts : Arrive(q, h) \/ ArriveUnknown(q, h)
         \/ TryWildcard(q) \/ PickEngine(q)
         \/ \E x \in Txs : NewTransaction(q, x)
         \/ PassHeaders(q) \/ PassBody(q) \/ BodyUnreadable(q)
         \/ Interrupt(q, "headers") \/ Interrupt(q, "body")
         \/ Forward(q) \/ Panic(q) \/ InspectResponse(q)
         \/ CloseTransaction(q) \/ ProcessLogging(q)
  BY DEF Serve
<1>c. Proper(req[q]) /\ Entitled(req[q])
  BY DEF RInv
<1>1. ASSUME NEW h \in Hosts, TenantOf(h) # Nil, Route(q, TenantOf(h)),
             UNCHANGED pool, req[q] \notin Routed
      PROVE  Kept(q)
  <2>1. /\ req'[q] \in Routed \union {Nil}
        /\ Proper(req'[q]) /\ Entitled(req'[q])
        /\ req'[q] # Nil => req'[q].tx = Nil
        /\ \A p \in Requests \ {q} : req'[p] = req[p]
    BY <1>0, <1>1, <1>a, NewRoute
  <2>2. req' \in [Requests -> Routed \union Unplaced \union {Nil}]
    <3>1. req' = [p \in Requests |-> req'[p]]
      BY <1>1, <1>a DEF Route, RequestTypeOK
    <3> QED
      BY <2>1, <3>1, <1>a DEF RequestTypeOK
  <2>3. \A x \in Txs : ~Holds(req[q], x) /\ ~Holds(req'[q], x)
    BY <1>1, <1>a, <2>1 DEF Holds
  <2> QED
    BY <1>1, <1>a, <2>1, <2>2, <2>3 DEF Kept, RequestTypeOK
<1>2. ASSUME NEW c \in Unplaced \union {Nil}, req' = [req EXCEPT ![q] = c],
             UNCHANGED pool, \A x \in Txs : ~Holds(req[q], x)
      PROVE  Kept(q)
  <2>1. c \notin Routed
    BY WildcardAssumption DEF Routed, Unplaced
  <2> QED
    BY <1>2, <1>a, <2>1 DEF Kept, RequestTypeOK, Proper, Entitled, Holds
<1>3. ASSUME NEW h \in Hosts, Arrive(q, h) PROVE Kept(q)
  BY <1>1, <1>3, <1>a DEF Arrive
<1>4. ASSUME NEW h \in Hosts, ArriveUnknown(q, h) PROVE Kept(q)
  <2>1. [step |-> "wildcard", host |-> WildcardOf[h]] \in Unplaced
    BY <1>4, WildcardAssumption DEF ArriveUnknown, Unplaced
  <2> QED
    BY <1>2, <1>4, <1>a, <2>1 DEF ArriveUnknown, Holds
<1>5. ASSUME TryWildcard(q) PROVE Kept(q)
  <2>1. req[q] \in Unplaced /\ req[q].host \in Hosts
    BY <1>5, <1>a, RoutedRequest DEF TryWildcard
  <2>2. req[q] \notin Routed
    BY <2>1 DEF Routed, Unplaced
  <2> QED
    BY <1>1, <1>2, <1>5, <2>1, <2>2 DEF TryWildcard, Holds
<1>6. ASSUME PickEngine(q) PROVE Kept(q)
  <2> DEFINE w == wafs[req[q].tenant.id]
             c == [req[q] EXCEPT !.step = "engine", !.content = w.content,
                                 !.open = w.open]
  <2>1. req[q] \in Routed /\ req[q].step = "routed" /\ req[q].tenant.id \in Ids
    BY <1>6, <1>a, RoutedRequest DEF PickEngine, Routed, Tenant
  <2>2. req[q].tx = Nil
    BY <1>c, <2>1 DEF Proper
  <2>3. UNCHANGED pool /\ req' = [req EXCEPT ![q] = IF w = Nil THEN Nil ELSE c]
    BY <1>6 DEF PickEngine
  <2>4. CASE w = Nil
    BY <1>2, <1>a, <2>2, <2>3, <2>4 DEF Holds
  <2>5. CASE w # Nil
    <3>1. w \in Engine /\ w.content \in Contents /\ w.open \in BOOLEAN
      BY <1>a, <2>1, <2>5 DEF TypeOK, Engine
    <3>2. /\ c \in Routed /\ c.step = "engine" /\ c.tx = Nil
          /\ c.tenant = req[q].tenant /\ c.refused = req[q].refused
          /\ c.touched = req[q].touched
          /\ c.content = w.content /\ c.open = w.open
      BY <2>1, <2>2, <3>1 DEF Routed
    <3>3. Held(c) \in Engine /\ Held(c).content = w.content /\ Held(c).open = w.open
      BY <3>1, <3>2 DEF Held, Engine
    <3>4. Held(req[q]) = w
      BY <2>1 DEF Held
    <3>5. req' = [req EXCEPT ![q] = c]
      BY <2>3, <2>5
    <3> HIDE DEF c, w
    <3>6. Proper(c)
      BY <1>c, <2>1, <3>2 DEF Proper
    <3>7. Entitled(c)
      BY <1>c, <2>1, <3>2, <3>3, <3>4 DEF Entitled
    <3>8. \A x \in Txs : ~Holds(req[q], x) /\ ~Holds(c, x)
      BY <1>a, <2>2, <3>2 DEF Holds
    <3>9. /\ req'[q] = c /\ \A p \in Requests \ {q} : req'[p] = req[p]
          /\ req' \in [Requests -> Routed \union Unplaced \union {Nil}]
      BY <1>a, <3>2, <3>5 DEF RequestTypeOK
    <3> QED
      BY <1>a, <2>3, <3>6, <3>7, <3>8, <3>9 DEF Kept, RequestTypeOK
  <2> QED
    BY <2>4, <2>5
<1>7. ASSUME NEW x \in Txs, NewTransaction(q, x) PROVE Kept(q)
  <2> DEFINE c == [req[q] EXCEPT !.step = "headers", !.tx = x]
  <2>1. req[q] \in Routed /\ req[q].step = "engine"
    BY <1>7, <1>a, RoutedRequest DEF NewTransaction
  <2>2. req[q].tx = Nil /\ ~req[q].refused
    BY <1>c, <2>1 DEF Proper
  <2>3. /\ c \in Routed /\ c.step = "headers" /\ c.tx = x
        /\ c.tenant = req[q].tenant /\ c.refused = req[q].refused
        /\ c.touched = req[q].touched
        /\ c.content = req[q].content /\ c.open = req[q].open
    BY <2>1 DEF Routed
  <2>4. req' = [req EXCEPT ![q] = c] /\ pool[x] > 0 /\ pool' = [pool EXCEPT ![x] = @ - 1]
    BY <1>7 DEF NewTransaction
  <2> HIDE DEF c
  <2>5. /\ req'[q] = c /\ \A p \in Requests \ {q} : req'[p] = req[p]
        /\ req' \in [Requests -> Routed \union Unplaced \union {Nil}]
        /\ pool' \in [Txs -> Nat] /\ pool'[x] = pool[x] - 1
        /\ \A y \in Txs \ {x} : pool'[y] = pool[y]
    BY <1>a, <2>3, <2>4 DEF RequestTypeOK
  <2>6. Proper(c)
    BY <1>c, <1>a, <2>1, <2>2, <2>3 DEF Proper
  <2>7. Held(c) = Held(req[q])
    BY <2>1, <2>3 DEF Held
  <2>8. Entitled(c)
    BY <1>c, <2>1, <2>3, <2>7 DEF Entitled
  <2>9. \A y \in Txs : ~Holds(req[q], y) /\ (Holds(c, y) <=> y = x)
    BY <1>a, <2>2, <2>3 DEF Holds
  <2> QED
    BY <2>5, <2>6, <2>8, <2>9 DEF Kept
<1>8. ASSUME NEW c, req' = [req EXCEPT ![q] = c],
             \/ c = req[q]
             \/ \E s \in {"body", "upstream", "response", "close", "log"} :
                   c = [req[q] EXCEPT !.step = s]
             \/ c = [req[q] EXCEPT !.step = "close", !.refused = TRUE],
             req[q] \in Routed, req[q].step \notin {"routed", "engine"},
             c.refused => c.step \in {"close", "log"}
      PROVE  /\ \A p \in Requests \ {q} : req'[p] = req[p]
             /\ req'[q] = c
             /\ req' \in [Requests -> Routed \union Unplaced \union {Nil}]
             /\ c \in Routed /\ Proper(c) /\ Entitled(c) /\ c.tx = req[q].tx
  <2>1. c \in Routed /\ Proper(c) /\ Entitled(c) /\ c.tx = req[q].tx
    BY <1>8, <1>a, <1>c, GoesOn
  <2> QED
    BY <1>8, <1>a, <2>1 DEF RequestTypeOK
<1>9. ASSUME NEW s \in {"body", "upstream", "response", "close"}, GoOn(q, s),
             UNCHANGED pool, req[q] \in Routed,
             req[q].step \notin {"routed", "engine", "close", "log"}
      PROVE  Kept(q)
  <2> DEFINE c == [req[q] EXCEPT !.step = s]
  <2>1. req' = [req EXCEPT ![q] = c]
    BY <1>9 DEF GoOn
  <2>2. ~req[q].refused /\ c.refused = req[q].refused /\ c.step = s /\ s # "log"
    BY <1>9, <1>c DEF Proper, Routed
  <2>3. s \in {"body", "upstream", "response", "close", "log"}
    OBVIOUS
  <2>4. /\ \A p \in Requests \ {q} : req'[p] = req[p]
        /\ req'[q] = c
        /\ req' \in [Requests -> Routed \union Unplaced \union {Nil}]
        /\ c \in Routed /\ Proper(c) /\ Entitled(c) /\ c.tx = req[q].tx
    BY <1>8, <1>9, <2>1, <2>2, <2>3
  <2>5. \A x \in Txs : Holds(c, x) <=> Holds(req[q], x)
    BY <1>9, <2>2, <2>4 DEF Holds
  <2> QED
    BY <1>9, <1>a, <2>4, <2>5 DEF Kept, RequestTypeOK
<1>10. ASSUME \/ PassHeaders(q) \/ PassBody(q) \/ BodyUnreadable(q)
              \/ Forward(q) \/ Panic(q) \/ InspectResponse(q)
       PROVE  Kept(q)
  <2>1. /\ \E s \in {"body", "upstream", "response", "close"} : GoOn(q, s)
        /\ UNCHANGED pool
        /\ \E s \in {"headers", "body", "upstream", "response"} : Reached(q, s)
    BY <1>10 DEF PassHeaders, PassBody, BodyUnreadable, Forward, Panic, InspectResponse
  <2>2. req[q] \in Routed /\ req[q].step \in {"headers", "body", "upstream", "response"}
    BY <1>a, <2>1, RoutedRequest
  <2> QED
    BY <1>9, <2>1, <2>2
<1>11. ASSUME Interrupt(q, "headers") \/ Interrupt(q, "body") PROVE Kept(q)
  <2> DEFINE c == [req[q] EXCEPT !.step = "close", !.refused = TRUE]
  <2>1. req[q] \in Routed /\ req[q].step \in {"headers", "body"}
    BY <1>11, <1>a, RoutedRequest DEF Interrupt
  <2>2. req' = [req EXCEPT ![q] = c] /\ UNCHANGED pool
    BY <1>11 DEF Interrupt
  <2>3. c.step = "close"
    BY <2>1 DEF Routed
  <2>4. /\ \A p \in Requests \ {q} : req'[p] = req[p]
        /\ req'[q] = c
        /\ req' \in [Requests -> Routed \union Unplaced \union {Nil}]
        /\ c \in Routed /\ Proper(c) /\ Entitled(c) /\ c.tx = req[q].tx
    BY <1>8, <2>1, <2>2, <2>3
  <2>5. \A x \in Txs : Holds(c, x) <=> Holds(req[q], x)
    BY <2>1, <2>3, <2>4 DEF Holds
  <2> QED
    BY <1>a, <2>2, <2>4, <2>5 DEF Kept, RequestTypeOK
<1>12. ASSUME CloseTransaction(q) PROVE Kept(q)
  <2> DEFINE c == [req[q] EXCEPT !.step = "log"]
  <2>1. req[q] \in Routed /\ req[q].step = "close"
    BY <1>12, <1>a, RoutedRequest DEF CloseTransaction
  <2>2. /\ req' = [req EXCEPT ![q] = c]
        /\ pool' = [pool EXCEPT ![req[q].tx] = @ + 1]
    BY <1>12 DEF CloseTransaction, GoOn
  <2>3. c.step = "log" /\ "log" \in {"body", "upstream", "response", "close", "log"}
    BY <2>1 DEF Routed
  <2>4. /\ \A p \in Requests \ {q} : req'[p] = req[p]
        /\ req'[q] = c
        /\ req' \in [Requests -> Routed \union Unplaced \union {Nil}]
        /\ c \in Routed /\ Proper(c) /\ Entitled(c) /\ c.tx = req[q].tx
    BY <1>8, <2>1, <2>2, <2>3
  <2>5. req[q].tx \in Txs
    BY <1>c, <2>1 DEF Proper, Routed
  <2>6. /\ pool' \in [Txs -> Nat] /\ pool'[req[q].tx] = pool[req[q].tx] + 1
        /\ \A x \in Txs \ {req[q].tx} : pool'[x] = pool[x]
    BY <1>a, <2>2, <2>5 DEF RequestTypeOK
  <2>7. \A x \in Txs : ~Holds(c, x) /\ (Holds(req[q], x) <=> x = req[q].tx)
    BY <2>1, <2>3 DEF Holds
  <2> QED
    BY <2>4, <2>6, <2>7 DEF Kept
<1>13. ASSUME ProcessLogging(q) PROVE Kept(q)
  <2>1. req[q] \in Routed /\ req[q].step = "log"
    BY <1>13, <1>a, RoutedRequest DEF ProcessLogging
  <2> QED
    BY <1>2, <1>13, <2>1 DEF ProcessLogging, Holds
<1> QED
  BY <1>0, <1>b, <1>3, <1>4, <1>5, <1>6, <1>7, <1>10, <1>11, <1>12, <1>13,
     KeptIsEnough

(* A call that changes tenants.  Its first kind cannot concern a request that *)
(* has been routed and not touched: the tenant of such a one has an engine.   *)
LEMMA ManageStep ==
    ASSUME RoutingInv, RInv, Manage
    PROVE  RInv'
<1>a. /\ RequestTypeOK /\ TypeOK /\ EngineLedger
      /\ \A q \in Requests : Proper(req[q]) /\ Entitled(req[q])
  BY DEF RInv, RoutingInv
<1>b. \A q \in Requests : req[q] \in Routed => req[q].tenant.id \in Ids
  BY DEF Routed, Tenant
<1>1. ASSUME UNCHANGED requestVars, closing' = closing,
             NEW t \in Tenant, tenants[t.id] = Nil,
             \A i \in Ids \ {t.id} : wafs'[i] = wafs[i]
      PROVE  RInv'
  <2>1. UNCHANGED <<req, pool>>
    BY <1>1 DEF requestVars
  <2>2. RequestTypeOK'
    BY <1>a, <2>1 DEF RequestTypeOK
  <2>3. \A x \in Txs : Owners(x)' = Owners(x)
    BY <2>1 DEF Owners, Owns, About
  <2>4. OneOwner'
    BY <2>1, <2>3 DEF OneOwner, RInv
  <2>5. \A q \in Requests : Proper(req[q])'
    BY <1>a, <2>1 DEF Proper
  <2>6. ASSUME NEW q \in Requests, req[q] \in Routed, ~req[q].touched
        PROVE  Held(req[q])' = Held(req[q])
    <3>1. CASE req[q].step = "routed"
      <4>1. wafs[req[q].tenant.id] \in Engine
        BY <1>a, <2>6, <3>1 DEF Entitled, Held
      <4>2. wafs[t.id] = Nil /\ t.id \in Ids
        BY <1>1, <1>a DEF EngineLedger, Tenant
      <4>3. req[q].tenant.id # t.id
        BY <4>1, <4>2, EngineNilAssumption
      <4> QED
        BY <1>1, <1>b, <2>1, <2>6, <3>1, <4>3 DEF Held
    <3>2. CASE req[q].step # "routed"
      BY <2>1, <3>2 DEF Held
    <3> QED
      BY <3>1, <3>2
  <2>7. \A q \in Requests : Entitled(req[q])'
    BY <1>1, <1>a, <2>1, <2>6 DEF Entitled
  <2> QED
    BY <2>2, <2>4, <2>5, <2>7 DEF RInv
<1>2. ASSUME NEW S \in SUBSET Ids, Touch(S),
             \A i \in Ids \ S : wafs'[i] = wafs[i], closing => closing'
      PROVE  RInv'
  <2>1. /\ req' = [q \in Requests |->
                      IF About(q, S)
                      THEN [req[q] EXCEPT !.open = FALSE, !.touched = TRUE]
                      ELSE req[q]]
        /\ pool' = pool
    BY <1>2 DEF Touch
  <2>2. ASSUME NEW q \in Requests, About(q, S)
        PROVE  /\ req[q] \in Routed /\ req'[q] \in Routed
               /\ req'[q].tenant = req[q].tenant /\ req'[q].step = req[q].step
               /\ req'[q].tx = req[q].tx /\ req'[q].refused = req[q].refused
               /\ req'[q].touched
    <3>1. About(q, Ids)
      BY <2>2 DEF About
    <3>2. req[q] \in Routed
      BY <1>a, <3>1, RoutedRequest
    <3> QED
      BY <2>1, <2>2, <3>2 DEF Routed
  <2>3. \A q \in Requests : ~About(q, S) => req'[q] = req[q]
    BY <2>1
  <2>4. RequestTypeOK'
    BY <1>a, <2>1, <2>2, <2>3 DEF RequestTypeOK
  <2>5. \A q \in Requests : Proper(req[q])'
    BY <1>a, <2>2, <2>3 DEF Proper
  <2>6. \A x \in Txs : Owners(x)' = Owners(x)
    <3> SUFFICES ASSUME NEW x \in Txs, NEW q \in Requests
                 PROVE  Owns(q, x)' <=> Owns(q, x)
      BY DEF Owners
    <3>1. CASE About(q, S)
      <4>1. About(q, Ids)' /\ About(q, Ids)
        BY <1>b, <2>2, <2>4, <3>1, <1>a, WildcardAssumption DEF About, Routed
      <4> QED
        BY <2>2, <3>1, <4>1 DEF Owns
    <3>2. CASE ~About(q, S)
      BY <2>3, <3>2 DEF Owns, About
    <3> QED
      BY <3>1, <3>2
  <2>7. OneOwner'
    BY <2>1, <2>6 DEF OneOwner, RInv
  <2>8. \A q \in Requests : Entitled(req[q])'
    <3> SUFFICES ASSUME NEW q \in Requests PROVE Entitled(req[q])'
      OBVIOUS
    <3>1. CASE About(q, S)
      BY <2>2, <3>1 DEF Entitled
    <3>2. CASE ~About(q, S) /\ req[q] \in Routed
      <4>1. req'[q] = req[q] /\ req[q].tenant.id \in Ids \ S
        BY <1>a, <1>b, <2>3, <3>2, RoutedRequest DEF About
      <4>2. Held(req[q])' = Held(req[q])
        BY <1>2, <4>1 DEF Held
      <4> QED
        BY <1>2, <1>a, <4>1, <4>2 DEF Entitled
    <3>3. CASE ~About(q, S) /\ req[q] \notin Routed
      BY <2>3, <3>3 DEF Entitled
    <3> QED
      BY <3>1, <3>2, <3>3
  <2> QED
    BY <2>4, <2>5, <2>7, <2>8 DEF RInv
<1>3. ASSUME Abort PROVE RInv'
  <2>1. \A q \in Requests : req'[q] = Nil /\ req'[q] \notin Routed
    BY <1>3, WildcardAssumption DEF Abort
  <2>2. RequestTypeOK'
    BY <1>3 DEF Abort, RequestTypeOK
  <2>3. \A x \in Txs : Owners(x)' = {}
    BY <2>1 DEF Owners, Owns, About
  <2>4. OneOwner'
    BY <1>3, <2>3, FS_EmptySet DEF Abort, OneOwner
  <2>5. \A q \in Requests : Proper(req[q])' /\ Entitled(req[q])'
    BY <2>1 DEF Proper, Entitled
  <2> QED
    BY <2>2, <2>4, <2>5 DEF RInv
<1> QED
  BY <1>a, <1>1, <1>2, <1>3, ManageKinds

LEMMA RInvHolds ==
    ASSUME Backend # "memory"
    PROVE  RequestSpec => []RInv
<1>1. RInv /\ RoutingInv /\ [Serve \/ Manage]_<<vars, requestVars>> => RInv'
  <2> SUFFICES ASSUME RInv, RoutingInv, UNCHANGED <<vars, requestVars>>
               PROVE  RInv'
    BY ServeStep, ManageStep
  <2> QED
    BY DEF RInv, RequestTypeOK, Proper, Entitled, Held, OneOwner, Owners, Owns,
           About, vars, maps, requestVars
<1>2. RequestSpec => []RoutingInv
  BY ManagerGoesOn, RoutingInvariant, PTL
<1> QED
  BY <1>1, <1>2, RInvInit, PTL DEF RequestSpec

(***************************************************************************)
(* Theorems.                                                               *)
(***************************************************************************)

(* The variables keep their types. *)
THEOREM RequestsTypeCorrect ==
    ASSUME Backend # "memory"
    PROVE  RequestSpec => []RequestTypeOK
<1>1. RInv => RequestTypeOK
  BY DEF RInv
<1> QED
  BY <1>1, RInvHolds, PTL

(* A request whose tenant was left alone since it was routed is inspected by *)
(* the engine of the version it was routed to, and that is open.             *)
THEOREM UndisturbedAlwaysServed ==
    ASSUME Backend # "memory"
    PROVE  RequestSpec => []UndisturbedIsServed
<1>1. RInv => UndisturbedIsServed
  BY RoutedRequest DEF RInv, UndisturbedIsServed, Entitled
<1> QED
  BY <1>1, RInvHolds, PTL

(* Every transaction is in the pool once or owned by one request. *)
THEOREM TransactionsOwnedOnce ==
    ASSUME Backend # "memory"
    PROVE  RequestSpec => []OneOwner
<1>1. RInv => OneOwner
  BY DEF RInv
<1> QED
  BY <1>1, RInvHolds, PTL

(* No refused request and none of a disabled tenant reaches the upstream. *)
THEOREM RefusedNeverForwarded ==
    ASSUME Backend # "memory"
    PROVE  RequestSpec => []RefusedStays
<1>1. RInv => RefusedStays
  BY RoutedRequest DEF RInv, RefusedStays, Proper
<1> QED
  BY <1>1, RInvHolds, PTL

(* What requests meet while they run is the registry: tenants and routes     *)
(* change between any two of their look-ups only by whole API calls.         *)
THEOREM RequestsSeeRegistry ==
    ASSUME Backend # "memory"
    PROVE  RequestSpec => ImplementsRegistry
BY ManagerGoesOn, RegistryImplemented, PTL
=============================================================================
