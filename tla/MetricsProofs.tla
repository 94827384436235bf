---------------------------- MODULE MetricsProofs ----------------------------
EXTENDS Metrics, FiniteSetTheorems, TLAPS

(***************************************************************************)
(* The inductive invariant.                                                *)
(***************************************************************************)

(* Between a look-up or a creation and the Add nobody replaces the object.   *)
MadeIsSlot ==
    \A r \in Recorders : At(r, "add") =>
        /\ rec[r].made \in Recorders
        /\ rec[r].made = slot[rec[r].name]

(* Only the object in the map has ever been counted in. *)
OneObject ==
    \A n \in Counters, r \in Recorders : r # slot[n] => value[n][r] = 0

(* What follows the latency of a request is nothing. *)
LatencyLast == \A r \in Recorders : At(r, "latency") => rec[r].name[1] = "requests"

(* Every request has an outcome, but for those that are just being counted. *)
Undecided == {r \in Recorders : At(r, "outcome")}

Accounted == total = blocked + allowed + Cardinality(Undecided)

(* What a page has read and what it has still to read account for its total. *)
Backed(p) ==
    CASE p.step = "blocked" -> p.total <= blocked + allowed + p.late
      [] p.step = "allowed" -> p.total <= p.blocked + allowed + p.late
      [] OTHER -> p.total <= p.blocked + p.allowed + p.late

PagesBacked == \A s \in Scrapers : scrape[s] # Nil => Backed(scrape[s])

IInv == /\ TypeOK /\ MadeIsSlot /\ OneObject /\ LatencyLast
        /\ NoneLost /\ Accounted /\ PagesBacked

(***************************************************************************)
(* Names and sets.                                                         *)
(***************************************************************************)

(* The counters of a tenant and of a rule. *)
LEMMA Naming ==
    /\ \A t \in Tenants : /\ Requests(t) \in Counters /\ Blocked(t) \in Counters
                          /\ Requests(t)[1] = "requests" /\ Blocked(t)[1] = "blocked"
                          /\ Requests(t)[2] = t /\ Blocked(t)[2] = t
    /\ \A k \in Rules : Hits(k) \in Counters /\ Hits(k)[1] = "hits"
    /\ \A n \in Counters : /\ n[1] \in {"requests", "blocked", "hits"}
                           /\ n[1] # "hits" => n[2] \in Tenants
                           /\ n[1] = "requests" => n = Requests(n[2])
                           /\ n[1] = "blocked" => n = Blocked(n[2])
    /\ \A n \in Counters : n \notin Totals
<1>1. \A t \in Tenants : /\ Requests(t) \in Counters /\ Blocked(t) \in Counters
                         /\ Requests(t)[1] = "requests" /\ Blocked(t)[1] = "blocked"
                         /\ Requests(t)[2] = t /\ Blocked(t)[2] = t
  BY DEF Counters, Requests, Blocked
<1>2. \A k \in Rules : Hits(k) \in Counters /\ Hits(k)[1] = "hits"
  BY DEF Counters, Hits
<1>3. \A n \in Counters : /\ n[1] \in {"requests", "blocked", "hits"}
                          /\ n[1] # "hits" => n[2] \in Tenants
                          /\ n[1] = "requests" => n = Requests(n[2])
                          /\ n[1] = "blocked" => n = Blocked(n[2])
  BY DEF Counters, Requests, Blocked
<1>4. \A n \in Counters : n \notin Totals
  <2> SUFFICES ASSUME NEW n \in Counters PROVE n \notin Totals
    OBVIOUS
  <2>1. DOMAIN n = 1 .. 2
    BY DEF Counters
  <2>2. \A w \in Totals : DOMAIN w = 1 .. 1
    BY DEF Totals
  <2>3. 2 \in 1 .. 2 /\ 2 \notin 1 .. 1
    OBVIOUS
  <2> QED
    BY <2>1, <2>2, <2>3
<1> QED
  BY <1>1, <1>2, <1>3, <1>4

LEMMA CountOfRecorders ==
    ASSUME NEW S \in SUBSET Recorders
    PROVE  /\ IsFiniteSet(S)
           /\ Cardinality(S) \in Nat
           /\ \A T \in SUBSET S : Cardinality(T) <= Cardinality(S)
           /\ \A r \in Recorders \ S :
                 Cardinality(S \union {r}) = Cardinality(S) + 1
           /\ \A r \in S : Cardinality(S \ {r}) = Cardinality(S) - 1
<1>1. IsFiniteSet(S)
  BY FS_Subset, BoundAssumption
<1>2. Cardinality(S) \in Nat
  BY <1>1, FS_CardinalityType
<1>3. \A T \in SUBSET S : Cardinality(T) <= Cardinality(S)
  BY <1>1, FS_Subset
<1>4. \A r \in Recorders \ S : Cardinality(S \union {r}) = Cardinality(S) + 1
  BY <1>1, FS_AddElement
<1>5. \A r \in S : Cardinality(S \ {r}) = Cardinality(S) - 1
  BY <1>1, FS_RemoveElement
<1> QED
  BY <1>1, <1>2, <1>3, <1>4, <1>5

LEMMA InvInit == Init => IInv
<1> SUFFICES ASSUME Init PROVE IInv
  OBVIOUS
<1>1. TypeOK
  BY BoundAssumption DEF Init, TypeOK
<1>2. MadeIsSlot /\ OneObject /\ LatencyLast /\ PagesBacked
  BY DEF Init, MadeIsSlot, OneObject, LatencyLast, PagesBacked, At
<1>3. Undecided = {} /\ \A n \in Counters : Owing(n) = {}
  BY DEF Init, Undecided, Owing, Owes, At
<1>4. Accounted /\ NoneLost
  BY <1>3, FS_EmptySet DEF Init, Accounted, NoneLost, Shown
<1> QED
  BY <1>1, <1>2, <1>4 DEF IInv

(***************************************************************************)
(* Every step keeps the types.                                             *)
(***************************************************************************)

LEMMA TypeStep == IInv /\ [Next]_vars => TypeOK'
<1> SUFFICES ASSUME IInv, [Next]_vars PROVE TypeOK'
  OBVIOUS
<1> USE DEF IInv, totals
<1>1. ASSUME NEW r \in Recorders, NEW t \in Tenants, NEW refused \in BOOLEAN,
             Begin(r, t, refused)
      PROVE  TypeOK'
  <2>1. rec' \in [Recorders -> Call \union {Nil}]
    BY <1>1, Naming DEF Begin, TypeOK, Call
  <2>2. asked' \in [Counters -> Nat]
    BY <1>1 DEF Begin, TypeOK
  <2> QED
    BY <1>1, <2>1, <2>2 DEF Begin, TypeOK
<1>2. ASSUME NEW r \in Recorders, CountOutcome(r) PROVE TypeOK'
  <2>1. rec[r] \in Call /\ [rec[r] EXCEPT !.step = "look"] \in Call
    BY <1>2 DEF CountOutcome, At, TypeOK, Call
  <2> QED
    BY <1>2, <2>1 DEF CountOutcome, TypeOK
<1>3. ASSUME NEW r \in Recorders, NEW k \in Rules, BeginHit(r, k) PROVE TypeOK'
  <2>1. rec' \in [Recorders -> Call \union {Nil}]
    BY <1>3, Naming DEF BeginHit, TypeOK, Call
  <2>2. asked' \in [Counters -> Nat]
    BY <1>3, Naming DEF BeginHit, TypeOK
  <2> QED
    BY <1>3, <2>1, <2>2 DEF BeginHit, TypeOK
<1>4. ASSUME NEW r \in Recorders, Look(r) PROVE TypeOK'
  <2> DEFINE n == rec[r].name
             c == [rec[r] EXCEPT !.made = slot[n],
                                 !.step = IF slot[n] = Nil THEN "make" ELSE "add"]
  <2>1. rec[r] \in Call /\ slot[n] \in Recorders \union {Nil}
    BY <1>4 DEF Look, At, TypeOK, Call
  <2>2. c \in Call
    BY <2>1 DEF Call
  <2>3. rec' = [rec EXCEPT ![r] = c]
    BY <1>4 DEF Look
  <2> HIDE DEF c
  <2> QED
    BY <1>4, <2>2, <2>3 DEF Look, TypeOK
<1>5. ASSUME NEW r \in Recorders, Make(r) PROVE TypeOK'
  <2> DEFINE n == rec[r].name
             c == [rec[r] EXCEPT !.step = "add", !.made = slot'[n]]
  <2>1. rec[r] \in Call /\ n \in Counters
    BY <1>5 DEF Make, At, TypeOK, Call
  <2>2. slot' \in [Counters -> Recorders \union {Nil}]
    BY <1>5, <2>1 DEF Make, TypeOK
  <2>3. c \in Call
    BY <2>1, <2>2 DEF Call
  <2>4. rec' = [rec EXCEPT ![r] = c]
    BY <1>5 DEF Make
  <2> HIDE DEF c
  <2> QED
    BY <1>5, <2>2, <2>3, <2>4 DEF Make, TypeOK
<1>6. ASSUME NEW r \in Recorders, Add(r) PROVE TypeOK'
  <2>1. rec[r] \in Call /\ rec[r].name \in Counters /\ rec[r].made \in Recorders
    BY <1>6 DEF Add, At, TypeOK, Call, MadeIsSlot
  <2>2. value' \in [Counters -> [Recorders -> Nat]]
    BY <1>6, <2>1 DEF Add, TypeOK
  <2>3. After(rec[r]) \in Call \union {Nil}
    <3>1. CASE rec[r].name[1] = "blocked"
      BY <2>1, <3>1, Naming DEF After, Call
    <3>2. CASE rec[r].name[1] # "blocked"
      BY <2>1, <3>2 DEF After, Call
    <3> QED
      BY <3>1, <3>2
  <2> QED
    BY <1>6, <2>2, <2>3 DEF Add, TypeOK
<1>7. ASSUME NEW r \in Recorders, KeepLatency(r) PROVE TypeOK'
  BY <1>7, BoundAssumption DEF KeepLatency, At, TypeOK
<1>8. UnderWay \in Nat
  BY CountOfRecorders DEF UnderWay
<1>9. ASSUME NEW s \in Scrapers, ReadTotal(s) PROVE TypeOK'
  BY <1>8, <1>9 DEF ReadTotal, TypeOK, Page
<1>10. ASSUME NEW s \in Scrapers, ReadBlocked(s) PROVE TypeOK'
  <2> DEFINE p == [scrape[s] EXCEPT !.step = "allowed", !.blocked = blocked,
                                   !.lateBlocked = UnderWay]
  <2>1. scrape[s] \in Page
    BY <1>10 DEF ReadBlocked, Reading, TypeOK
  <2>2. p \in Page
    BY <1>8, <2>1 DEF Page, TypeOK
  <2>3. scrape' = [scrape EXCEPT ![s] = p]
    BY <1>10 DEF ReadBlocked
  <2> HIDE DEF p
  <2> QED
    BY <1>10, <2>2, <2>3 DEF ReadBlocked, TypeOK
<1>11. ASSUME NEW s \in Scrapers, ReadAllowed(s) PROVE TypeOK'
  <2> DEFINE p == [scrape[s] EXCEPT !.step = "lock", !.allowed = allowed]
  <2>1. scrape[s] \in Page
    BY <1>11 DEF ReadAllowed, Reading, TypeOK
  <2>2. p \in Page
    BY <2>1 DEF Page, TypeOK
  <2>3. scrape' = [scrape EXCEPT ![s] = p]
    BY <1>11 DEF ReadAllowed
  <2> HIDE DEF p
  <2> QED
    BY <1>11, <2>2, <2>3 DEF ReadAllowed, TypeOK
<1>12. ASSUME NEW s \in Scrapers, LockTenants(s) PROVE TypeOK'
  <2> DEFINE p == [scrape[s] EXCEPT !.step = "tenants",
                                   !.left = {n \in Counters : n[1] # "hits"
                                                              /\ slot[n] # Nil}]
  <2>1. scrape[s] \in Page
    BY <1>12 DEF LockTenants, Reading, TypeOK
  <2>2. p \in Page
    BY <2>1 DEF Page, TypeOK
  <2>3. scrape' = [scrape EXCEPT ![s] = p]
    BY <1>12 DEF LockTenants
  <2> HIDE DEF p
  <2> QED
    BY <1>12, <2>2, <2>3 DEF LockTenants, TypeOK
<1>13. ASSUME NEW s \in Scrapers, UnlockTenants(s) PROVE TypeOK'
  BY <1>13 DEF UnlockTenants, Reading, TypeOK, Page
<1>14. ASSUME NEW s \in Scrapers, NEW n \in Counters, ReadTenant(s, n) PROVE TypeOK'
  <2>1. Shown(n) \in Nat
    BY DEF Shown, TypeOK
  <2>2. scrape[s] \in Page
    BY <1>14 DEF ReadTenant, Reading, TypeOK
  <2>3. Adding(scrape[s], n) \in Page
    <3> DEFINE q == scrape[s]
               left == q.left \ {n}
               x == q.requests + (IF n[1] = "requests" THEN Shown(n) ELSE 0)
               y == q.refused + (IF n[1] = "blocked" THEN Shown(n) ELSE 0)
    <3>1. left \in SUBSET Counters /\ x \in Nat /\ y \in Nat
      BY <2>1, <2>2 DEF Page
    <3>2. Adding(q, n) = [q EXCEPT !.left = left, !.requests = x, !.refused = y]
      BY DEF Adding
    <3> HIDE DEF left, x, y
    <3> QED
      BY <2>2, <3>1, <3>2 DEF Page
  <2> QED
    BY <1>14, <2>3 DEF ReadTenant, TypeOK
<1>15. ASSUME NEW s \in Scrapers, LockRules(s) PROVE TypeOK'
  BY <1>15 DEF LockRules, Reading, TypeOK, Page
<1>16. ASSUME NEW s \in Scrapers, EndPage(s) PROVE TypeOK'
  BY <1>16 DEF EndPage, TypeOK
<1>17. CASE UNCHANGED vars
  BY <1>17 DEF vars, totals, TypeOK
<1> QED
  BY <1>1, <1>2, <1>3, <1>4, <1>5, <1>6, <1>7, <1>9, <1>10, <1>11, <1>12, <1>13,
     <1>14, <1>15, <1>16, <1>17 DEF Next

(***************************************************************************)
(* Every step preserves the rest of the invariant.                         *)
(***************************************************************************)

(* A scrape changes nothing that is recorded. *)
recorded == <<totals, slot, value, rec, asked>>

LEMMA ScrapesRead ==
    ASSUME NEW s \in Scrapers,
           \/ ReadTotal(s) \/ ReadBlocked(s) \/ ReadAllowed(s)
           \/ LockTenants(s) \/ UnlockTenants(s)
           \/ \E n \in Counters : ReadTenant(s, n)
           \/ LockRules(s) \/ EndPage(s)
    PROVE  UNCHANGED recorded
BY DEF recorded, totals, ReadTotal, ReadBlocked, ReadAllowed, LockTenants,
       UnlockTenants, ReadTenant, LockRules, EndPage

(* The step of a call. *)
Records(r) ==
    \/ \E t \in Tenants, refused \in BOOLEAN : Begin(r, t, refused)
    \/ \E k \in Rules : BeginHit(r, k)
    \/ CountOutcome(r) \/ Look(r) \/ Make(r) \/ Add(r) \/ KeepLatency(r)

LEMMA StepKinds ==
    [Next]_vars => (\E r \in Recorders : Records(r)) \/ UNCHANGED recorded
<1> SUFFICES ASSUME [Next]_vars, ~ \E r \in Recorders : Records(r)
             PROVE  UNCHANGED recorded
  OBVIOUS
<1>1. CASE UNCHANGED vars
  BY <1>1 DEF vars, recorded
<1>2. CASE ~ UNCHANGED vars
  <2>1. PICK s \in Scrapers :
           \/ ReadTotal(s) \/ ReadBlocked(s) \/ ReadAllowed(s)
           \/ LockTenants(s) \/ UnlockTenants(s)
           \/ \E n \in Counters : ReadTenant(s, n)
           \/ LockRules(s) \/ EndPage(s)
    BY <1>2 DEF Next, Records
  <2> QED
    BY <2>1, ScrapesRead
<1> QED
  BY <1>1, <1>2

LEMMA ObjectStep ==
    IInv /\ [Next]_vars => MadeIsSlot' /\ OneObject' /\ LatencyLast'
<1> SUFFICES ASSUME IInv, [Next]_vars
             PROVE  MadeIsSlot' /\ OneObject' /\ LatencyLast'
  OBVIOUS
<1> USE DEF IInv, MadeIsSlot, OneObject, LatencyLast, At
<1>1. ASSUME NEW r \in Recorders, NEW t \in Tenants, NEW refused \in BOOLEAN,
             Begin(r, t, refused)
      PROVE  MadeIsSlot' /\ OneObject' /\ LatencyLast'
  BY <1>1 DEF Begin, TypeOK
<1>2. ASSUME NEW r \in Recorders, CountOutcome(r)
      PROVE  MadeIsSlot' /\ OneObject' /\ LatencyLast'
  BY <1>2 DEF CountOutcome, TypeOK, Call
<1>3. ASSUME NEW r \in Recorders, NEW k \in Rules, BeginHit(r, k)
      PROVE  MadeIsSlot' /\ OneObject' /\ LatencyLast'
  BY <1>3 DEF BeginHit, TypeOK
<1>4. ASSUME NEW r \in Recorders, Look(r)
      PROVE  MadeIsSlot' /\ OneObject' /\ LatencyLast'
  BY <1>4 DEF Look, TypeOK, Call
<1>5. ASSUME NEW r \in Recorders, Make(r)
      PROVE  MadeIsSlot' /\ OneObject' /\ LatencyLast'
  BY <1>5, NilAssumption DEF Make, TypeOK, Call
<1>6. ASSUME NEW r \in Recorders, Add(r)
      PROVE  MadeIsSlot' /\ OneObject' /\ LatencyLast'
  <2>1. rec[r] \in Call /\ rec[r].made \in Recorders /\ rec[r].step = "add"
    BY <1>6 DEF Add, TypeOK
  <2>2. \/ After(rec[r]) = Nil
        \/ After(rec[r]).step = "look"
        \/ After(rec[r]).step = "latency" /\ After(rec[r]).name[1] = "requests"
    BY <2>1 DEF After, Call
  <2> QED
    BY <1>6, <2>1, <2>2 DEF Add, TypeOK
<1>7. ASSUME NEW r \in Recorders, KeepLatency(r)
      PROVE  MadeIsSlot' /\ OneObject' /\ LatencyLast'
  BY <1>7 DEF KeepLatency, TypeOK
<1>8. CASE UNCHANGED recorded
  BY <1>8 DEF recorded
<1> QED
  BY <1>1, <1>2, <1>3, <1>4, <1>5, <1>6, <1>7, <1>8, StepKinds DEF Records

(* Only the call that makes a step changes what it owes. *)
LEMMA OwingBy ==
    ASSUME IInv, NEW r \in Recorders, NEW n \in Counters,
           \A q \in Recorders \ {r} : rec'[q] = rec[q]
    PROVE  /\ Owes(r, n)' /\ ~Owes(r, n) =>
                 Cardinality(Owing(n)') = Cardinality(Owing(n)) + 1
           /\ ~Owes(r, n)' /\ Owes(r, n) =>
                 Cardinality(Owing(n)') = Cardinality(Owing(n)) - 1
           /\ (Owes(r, n)' <=> Owes(r, n)) => Owing(n)' = Owing(n)
           /\ Cardinality(Owing(n)) \in Nat
<1>1. Owing(n) \in SUBSET Recorders
  BY DEF Owing
<1>2. \A q \in Recorders \ {r} : Owes(q, n)' <=> Owes(q, n)
  BY DEF Owes
<1>3. Owes(r, n)' /\ ~Owes(r, n) => /\ r \in Recorders \ Owing(n)
                                   /\ Owing(n)' = Owing(n) \union {r}
  BY <1>2 DEF Owing
<1>4. ~Owes(r, n)' /\ Owes(r, n) => r \in Owing(n) /\ Owing(n)' = Owing(n) \ {r}
  BY <1>2 DEF Owing
<1>5. (Owes(r, n)' <=> Owes(r, n)) => Owing(n)' = Owing(n)
  BY <1>2 DEF Owing
<1> QED
  BY <1>1, <1>3, <1>4, <1>5, CountOfRecorders

LEMMA NoneLostStep == IInv /\ [Next]_vars => NoneLost'
<1> SUFFICES ASSUME IInv, [Next]_vars, NEW n \in Counters
             PROVE  (asked[n] = Shown(n) + Cardinality(Owing(n)))'
  BY DEF NoneLost
<1>0. /\ asked[n] = Shown(n) + Cardinality(Owing(n))
      /\ asked[n] \in Nat /\ Shown(n) \in Nat /\ Cardinality(Owing(n)) \in Nat
  BY CountOfRecorders DEF IInv, TypeOK, NoneLost, Shown, Owing
<1> USE DEF IInv
<1>1. ASSUME NEW r \in Recorders, NEW t \in Tenants, NEW refused \in BOOLEAN,
             Begin(r, t, refused)
      PROVE  (asked[n] = Shown(n) + Cardinality(Owing(n)))'
  <2>1. ~Owes(r, n) /\ Shown(n)' = Shown(n)
    BY <1>1 DEF Begin, Owes, Shown
  <2>2. Owes(r, n)' <=> n = Requests(t) \/ (refused /\ n = Blocked(t))
    <3>1. /\ rec'[r] # Nil /\ rec'[r].step = "outcome"
          /\ rec'[r].name = IF refused THEN Blocked(t) ELSE Requests(t)
      BY <1>1, Naming, CallAssumption DEF Begin, TypeOK, Call
    <3>2. CASE refused
      BY <3>1, <3>2, Naming DEF Owes
    <3>3. CASE ~refused
      BY <3>1, <3>3, Naming DEF Owes
    <3> QED
      BY <3>2, <3>3
  <2>3. \A q \in Recorders \ {r} : rec'[q] = rec[q]
    BY <1>1 DEF Begin, TypeOK
  <2>4. asked'[n] = IF Owes(r, n)' THEN asked[n] + 1 ELSE asked[n]
    BY <1>1, <2>2 DEF Begin
  <2>5. CASE Owes(r, n)'
    BY <1>0, <2>1, <2>3, <2>4, <2>5, OwingBy
  <2>6. CASE ~Owes(r, n)'
    <3>1. Owing(n)' = Owing(n)
      BY <2>1, <2>3, <2>6, OwingBy
    <3> QED
      BY <1>0, <2>1, <2>4, <2>6, <3>1
  <2> QED
    BY <2>5, <2>6
<1>2. ASSUME NEW r \in Recorders, CountOutcome(r)
      PROVE  (asked[n] = Shown(n) + Cardinality(Owing(n)))'
  <2>1. Owing(n)' = Owing(n)
    <3>1. \A q \in Recorders \ {r} : rec'[q] = rec[q]
      BY <1>2 DEF CountOutcome, TypeOK
    <3>2. /\ rec[r] # Nil /\ rec[r].step # "latency" /\ rec[r] \in Call
          /\ rec'[r] # Nil /\ rec'[r].step # "latency"
          /\ rec'[r].name = rec[r].name
      BY <1>2, CallAssumption DEF CountOutcome, At, TypeOK, Call
    <3>3. Owes(r, n)' <=> Owes(r, n)
      BY <3>2 DEF Owes
    <3> QED
      BY <3>1, <3>3, OwingBy
  <2> QED
    BY <1>0, <1>2, <2>1 DEF CountOutcome, Shown
<1>3. ASSUME NEW r \in Recorders, NEW k \in Rules, BeginHit(r, k)
      PROVE  (asked[n] = Shown(n) + Cardinality(Owing(n)))'
  <2>1. ~Owes(r, n) /\ Shown(n)' = Shown(n)
    BY <1>3 DEF BeginHit, Owes, Shown
  <2>2. Owes(r, n)' <=> n = Hits(k)
    <3>1. /\ rec'[r] # Nil /\ rec'[r].step = "look" /\ rec'[r].name = Hits(k)
      <4> DEFINE c == [step |-> "look", blocked |-> FALSE, made |-> Nil,
                       name |-> Hits(k)]
      <4>1. c \in Call /\ c.step = "look" /\ c.name = Hits(k)
        BY Naming DEF Call
      <4>2. rec'[r] = c
        BY <1>3 DEF BeginHit, TypeOK
      <4> HIDE DEF c
      <4> QED
        BY <4>1, <4>2, CallAssumption
    <3> QED
      BY <3>1, Naming DEF Owes
  <2>3. \A q \in Recorders \ {r} : rec'[q] = rec[q]
    BY <1>3 DEF BeginHit, TypeOK
  <2>4. asked'[n] = IF Owes(r, n)' THEN asked[n] + 1 ELSE asked[n]
    BY <1>3, <2>2 DEF BeginHit, TypeOK
  <2>5. CASE Owes(r, n)'
    BY <1>0, <2>1, <2>3, <2>4, <2>5, OwingBy
  <2>6. CASE ~Owes(r, n)'
    <3>1. Owing(n)' = Owing(n)
      BY <2>1, <2>3, <2>6, OwingBy
    <3> QED
      BY <1>0, <2>1, <2>4, <2>6, <3>1
  <2> QED
    BY <2>5, <2>6
<1>4. ASSUME NEW r \in Recorders, Look(r)
      PROVE  (asked[n] = Shown(n) + Cardinality(Owing(n)))'
  <2>1. Owing(n)' = Owing(n)
    <3>1. \A q \in Recorders \ {r} : rec'[q] = rec[q]
      BY <1>4 DEF Look, TypeOK
    <3>2. /\ rec[r] # Nil /\ rec[r].step # "latency" /\ rec[r] \in Call
          /\ rec'[r] # Nil /\ rec'[r].step # "latency"
          /\ rec'[r].name = rec[r].name
      BY <1>4, CallAssumption DEF Look, At, TypeOK, Call
    <3>3. Owes(r, n)' <=> Owes(r, n)
      BY <3>2 DEF Owes
    <3> QED
      BY <3>1, <3>3, OwingBy
  <2> QED
    BY <1>0, <1>4, <2>1 DEF Look, Shown
<1>5. ASSUME NEW r \in Recorders, Make(r)
      PROVE  (asked[n] = Shown(n) + Cardinality(Owing(n)))'
  <2>1. Owing(n)' = Owing(n)
    <3>1. \A q \in Recorders \ {r} : rec'[q] = rec[q]
      BY <1>5 DEF Make, TypeOK
    <3>2. /\ rec[r] # Nil /\ rec[r].step # "latency" /\ rec[r] \in Call
          /\ rec'[r] # Nil /\ rec'[r].step # "latency"
          /\ rec'[r].name = rec[r].name
      BY <1>5, CallAssumption DEF Make, At, TypeOK, Call
    <3>3. Owes(r, n)' <=> Owes(r, n)
      BY <3>2 DEF Owes
    <3> QED
      BY <3>1, <3>3, OwingBy
  <2>2. Shown(n)' = Shown(n)
    BY <1>5, NilAssumption DEF Make, Shown, OneObject, TypeOK
  <2> QED
    BY <1>0, <1>5, <2>1, <2>2 DEF Make
<1>6. ASSUME NEW r \in Recorders, Add(r)
      PROVE  (asked[n] = Shown(n) + Cardinality(Owing(n)))'
  <2>1. /\ rec[r] \in Call /\ rec[r].step = "add" /\ rec[r].name \in Counters
        /\ slot[rec[r].name] = rec[r].made /\ rec[r].made \in Recorders
        /\ rec[r] # Nil
    BY <1>6 DEF Add, At, TypeOK, Call, MadeIsSlot
  <2>2. \A q \in Recorders \ {r} : rec'[q] = rec[q]
    BY <1>6 DEF Add, TypeOK
  <2>3. rec'[r] = After(rec[r])
    BY <1>6 DEF Add, TypeOK
  <2>4. CASE n = rec[r].name
    <3>1. Owes(r, n)
      BY <2>1, <2>4 DEF Owes
    <3>2. ~Owes(r, n)'
      BY <2>1, <2>3, <2>4, Naming DEF Owes, After, Call
    <3>3. Shown(n)' = Shown(n) + 1
      BY <1>6, <2>1, <2>4, NilAssumption DEF Add, Shown, TypeOK
    <3> QED
      BY <1>0, <1>6, <2>2, <3>1, <3>2, <3>3, OwingBy DEF Add
  <2>5. CASE n # rec[r].name
    <3>1. Owes(r, n)' <=> Owes(r, n)
      <4>1. CASE rec[r].name[1] = "blocked"
        <5>1. /\ After(rec[r]) # Nil /\ After(rec[r]).step = "look"
              /\ After(rec[r]).name = Requests(rec[r].name[2])
              /\ Requests(rec[r].name[2])[1] = "requests"
          <6> DEFINE c == [rec[r] EXCEPT !.step = "look", !.made = Nil,
                                         !.name = Requests(rec[r].name[2])]
          <6>1. Requests(rec[r].name[2]) \in Counters
            BY <2>1, <4>1, Naming
          <6>2. /\ c \in Call /\ c.step = "look"
                /\ c.name = Requests(rec[r].name[2])
            BY <2>1, <6>1 DEF Call
          <6>3. After(rec[r]) = c
            BY <4>1 DEF After
          <6>4. Requests(rec[r].name[2])[1] = "requests"
            BY <2>1, <4>1, Naming
          <6> HIDE DEF c
          <6> QED
            BY <6>2, <6>3, <6>4, CallAssumption
        <5> QED
          BY <2>1, <2>3, <2>5, <4>1, <5>1 DEF Owes
      <4>2. CASE rec[r].name[1] = "requests"
        <5>1. After(rec[r]).step = "latency" /\ After(rec[r]).name = rec[r].name
          BY <2>1, <4>2 DEF After, Call
        <5> QED
          BY <2>1, <2>3, <2>5, <4>2, <5>1 DEF Owes
      <4>3. CASE rec[r].name[1] \notin {"blocked", "requests"}
        BY <2>1, <2>3, <2>5, <4>3 DEF Owes, After
      <4> QED
        BY <4>1, <4>2, <4>3
    <3>2. Owing(n)' = Owing(n)
      BY <2>2, <3>1, OwingBy
    <3>3. Shown(n)' = Shown(n)
      BY <1>6, <2>1, <2>5 DEF Add, Shown, TypeOK
    <3> QED
      BY <1>0, <1>6, <3>2, <3>3 DEF Add
  <2> QED
    BY <2>4, <2>5
<1>7. ASSUME NEW r \in Recorders, KeepLatency(r)
      PROVE  (asked[n] = Shown(n) + Cardinality(Owing(n)))'
  <2>1. Owing(n)' = Owing(n)
    <3>1. \A q \in Recorders \ {r} : rec'[q] = rec[q]
      BY <1>7 DEF KeepLatency, TypeOK
    <3>2. rec[r].step = "latency" /\ rec[r].name[1] = "requests" /\ rec'[r] = Nil
      BY <1>7 DEF KeepLatency, At, TypeOK, LatencyLast
    <3>3. Owes(r, n)' <=> Owes(r, n)
      BY <3>2 DEF Owes
    <3> QED
      BY <3>1, <3>3, OwingBy
  <2> QED
    BY <1>0, <1>7, <2>1 DEF KeepLatency, Shown
<1>8. CASE UNCHANGED recorded
  <2>1. Owing(n)' = Owing(n) /\ Shown(n)' = Shown(n)
    BY <1>8 DEF recorded, Owing, Owes, Shown
  <2> QED
    BY <1>0, <1>8, <2>1 DEF recorded
<1> QED
  BY <1>1, <1>2, <1>3, <1>4, <1>5, <1>6, <1>7, <1>8, StepKinds DEF Records

(* The totals only go up; a call's outcome is counted in its second step.    *)
LEMMA TotalsStep ==
    ASSUME IInv, [Next]_vars
    PROVE  Accounted' /\ blocked <= blocked' /\ allowed <= allowed'
<1> DEFINE Goal == Accounted' /\ blocked <= blocked' /\ allowed <= allowed'
<1>0. /\ total \in Nat /\ blocked \in Nat /\ allowed \in Nat
      /\ Undecided \in SUBSET Recorders /\ Cardinality(Undecided) \in Nat
      /\ total = blocked + allowed + Cardinality(Undecided)
  BY CountOfRecorders DEF IInv, TypeOK, Undecided, Accounted
<1> USE DEF IInv
<1>1. ASSUME NEW r \in Recorders, NEW t \in Tenants, NEW refused \in BOOLEAN,
             Begin(r, t, refused)
      PROVE  Goal
  <2>1. r \in Recorders \ Undecided /\ Undecided' = Undecided \union {r}
    <3> DEFINE c == [step |-> "outcome", blocked |-> refused, made |-> Nil,
                     name |-> IF refused THEN Blocked(t) ELSE Requests(t)]
    <3>1. c \in Call /\ c.step = "outcome"
      BY Naming DEF Call
    <3>2. rec' = [rec EXCEPT ![r] = c] /\ rec[r] = Nil
      BY <1>1 DEF Begin
    <3> HIDE DEF c
    <3> QED
      BY <3>1, <3>2, CallAssumption DEF Undecided, At, TypeOK
  <2>2. Cardinality(Undecided') = Cardinality(Undecided) + 1
    BY <1>0, <2>1, CountOfRecorders
  <2> QED
    BY <1>0, <1>1, <2>2 DEF Begin, Accounted
<1>2. ASSUME NEW r \in Recorders, CountOutcome(r) PROVE Goal
  <2>1. r \in Undecided /\ Undecided' = Undecided \ {r}
    <3> DEFINE c == [rec[r] EXCEPT !.step = "look"]
    <3>1. c.step = "look"
      BY <1>2 DEF CountOutcome, At, TypeOK, Call
    <3>2. rec' = [rec EXCEPT ![r] = c] /\ At(r, "outcome")
      BY <1>2 DEF CountOutcome
    <3> HIDE DEF c
    <3> QED
      BY <3>1, <3>2 DEF Undecided, At, TypeOK
  <2>2. Cardinality(Undecided') = Cardinality(Undecided) - 1
    BY <1>0, <2>1, CountOfRecorders
  <2>3. total' = total
    BY <1>2 DEF CountOutcome
  <2>4. CASE rec[r].blocked
    BY <1>0, <1>2, <2>2, <2>3, <2>4 DEF CountOutcome, Accounted
  <2>5. CASE ~rec[r].blocked
    BY <1>0, <1>2, <2>2, <2>3, <2>5 DEF CountOutcome, Accounted
  <2> QED
    BY <2>4, <2>5
<1>3. ASSUME UNCHANGED totals, Undecided' = Undecided PROVE Goal
  BY <1>0, <1>3 DEF totals, Accounted
<1>4. ASSUME NEW r \in Recorders, NEW k \in Rules, BeginHit(r, k) PROVE Goal
  <2>1. Undecided' = Undecided
    BY <1>4 DEF BeginHit, Undecided, At, TypeOK
  <2> QED
    BY <1>3, <1>4, <2>1 DEF BeginHit
<1>5. ASSUME NEW r \in Recorders, Look(r) PROVE Goal
  <2>1. Undecided' = Undecided
    BY <1>5 DEF Look, Undecided, At, TypeOK, Call
  <2> QED
    BY <1>3, <1>5, <2>1 DEF Look
<1>6. ASSUME NEW r \in Recorders, Make(r) PROVE Goal
  <2>1. Undecided' = Undecided
    BY <1>6 DEF Make, Undecided, At, TypeOK, Call
  <2> QED
    BY <1>3, <1>6, <2>1 DEF Make
<1>7. ASSUME NEW r \in Recorders, Add(r) PROVE Goal
  <2>1. /\ rec[r] \in Call /\ rec[r].step = "add"
        /\ rec'[r] = After(rec[r])
        /\ \A q \in Recorders \ {r} : rec'[q] = rec[q]
    BY <1>7 DEF Add, At, TypeOK
  <2>2. After(rec[r]) = Nil \/ After(rec[r]).step \in {"look", "latency"}
    BY <2>1 DEF After, Call
  <2>3. Undecided' = Undecided
    BY <2>1, <2>2 DEF Undecided, At
  <2> QED
    BY <1>3, <1>7, <2>3 DEF Add
<1>8. ASSUME NEW r \in Recorders, KeepLatency(r) PROVE Goal
  <2>1. Undecided' = Undecided
    BY <1>8 DEF KeepLatency, Undecided, At, TypeOK
  <2> QED
    BY <1>3, <1>8, <2>1 DEF KeepLatency
<1>9. CASE UNCHANGED recorded
  BY <1>3, <1>9 DEF recorded, Undecided, At
<1> QED
  BY <1>1, <1>2, <1>4, <1>5, <1>6, <1>7, <1>8, <1>9, StepKinds DEF Records

LEMMA PagesStep == IInv /\ [Next]_vars => PagesBacked'
<1> SUFFICES ASSUME IInv, [Next]_vars, NEW s \in Scrapers, scrape'[s] # Nil
             PROVE  Backed(scrape[s])'
  BY DEF PagesBacked
<1>0. /\ total \in Nat /\ blocked \in Nat /\ allowed \in Nat
      /\ total = blocked + allowed + Cardinality(Undecided)
      /\ Cardinality(Undecided) <= UnderWay
      /\ Cardinality(Undecided) \in Nat /\ UnderWay \in Nat
  <2> DEFINE Running == {r \in Recorders : rec[r] # Nil}
  <2>1. Undecided \in SUBSET Running /\ Running \in SUBSET Recorders
        /\ Undecided \in SUBSET Recorders
    BY DEF Undecided, At
  <2> QED
    BY <2>1, CountOfRecorders DEF IInv, TypeOK, Accounted, UnderWay
<1>1. /\ blocked' \in Nat /\ allowed' \in Nat
      /\ blocked <= blocked' /\ allowed <= allowed'
  BY TotalsStep, TypeStep DEF TypeOK
<1>2. ASSUME scrape'[s] = scrape[s] PROVE Backed(scrape[s])'
  <2>1. Backed(scrape[s]) /\ scrape[s] \in Page
    BY <1>2 DEF IInv, TypeOK, PagesBacked
  <2> QED
    BY <1>0, <1>1, <1>2, <2>1 DEF Backed, Page
<1>3. ASSUME NEW p \in Scrapers,
             \/ ReadTotal(p) \/ ReadBlocked(p) \/ ReadAllowed(p)
             \/ LockTenants(p) \/ UnlockTenants(p)
             \/ \E n \in Counters : ReadTenant(p, n)
             \/ LockRules(p) \/ EndPage(p),
             p # s
      PROVE  scrape'[s] = scrape[s]
  BY <1>3 DEF ReadTotal, ReadBlocked, ReadAllowed, LockTenants, UnlockTenants,
              ReadTenant, LockRules, EndPage, IInv, TypeOK
<1>4. ASSUME NEW r \in Recorders, Records(r) PROVE scrape'[s] = scrape[s]
  BY <1>4 DEF Records, Begin, BeginHit, CountOutcome, Look, Make, Add, KeepLatency
<1>5. CASE ReadTotal(s)
  <2>1. /\ scrape'[s].step = "blocked" /\ scrape'[s].total = total
        /\ scrape'[s].late = UnderWay
        /\ blocked' = blocked /\ allowed' = allowed
    BY <1>5 DEF ReadTotal, IInv, TypeOK, totals
  <2> QED
    BY <1>0, <2>1 DEF Backed
<1>6. CASE ReadBlocked(s)
  <2>1. scrape[s] \in Page /\ scrape[s].step = "blocked" /\ Backed(scrape[s])
    BY <1>6 DEF ReadBlocked, Reading, IInv, TypeOK, PagesBacked
  <2>2. /\ scrape'[s].step = "allowed" /\ scrape'[s].total = scrape[s].total
        /\ scrape'[s].blocked = blocked /\ scrape'[s].late = scrape[s].late
        /\ blocked' = blocked /\ allowed' = allowed
    BY <1>6, <2>1 DEF ReadBlocked, IInv, TypeOK, totals, Page
  <2> QED
    BY <2>1, <2>2 DEF Backed
<1>7. CASE ReadAllowed(s)
  <2>1. scrape[s] \in Page /\ scrape[s].step = "allowed" /\ Backed(scrape[s])
    BY <1>7 DEF ReadAllowed, Reading, IInv, TypeOK, PagesBacked
  <2>2. /\ scrape'[s].step = "lock" /\ scrape'[s].total = scrape[s].total
        /\ scrape'[s].blocked = scrape[s].blocked
        /\ scrape'[s].late = scrape[s].late
        /\ scrape'[s].allowed = allowed
    BY <1>7, <2>1 DEF ReadAllowed, IInv, TypeOK, Page
  <2> QED
    BY <2>1, <2>2 DEF Backed
<1>8. ASSUME \/ LockTenants(s) \/ UnlockTenants(s)
             \/ \E n \in Counters : ReadTenant(s, n)
             \/ LockRules(s)
      PROVE  Backed(scrape[s])'
  <2>1. /\ scrape[s] \in Page /\ Backed(scrape[s])
        /\ scrape[s].step \in {"lock", "tenants", "unlocked"}
    BY <1>8 DEF LockTenants, UnlockTenants, ReadTenant, LockRules, Reading,
                IInv, TypeOK, PagesBacked
  <2>2. /\ scrape'[s].total = scrape[s].total /\ scrape'[s].late = scrape[s].late
        /\ scrape'[s].blocked = scrape[s].blocked
        /\ scrape'[s].allowed = scrape[s].allowed
        /\ scrape'[s].step \in {"tenants", "unlocked", "rules"}
    <3>1. CASE LockTenants(s)
      BY <2>1, <3>1 DEF LockTenants, IInv, TypeOK, Page
    <3>2. CASE UnlockTenants(s)
      BY <2>1, <3>2 DEF UnlockTenants, IInv, TypeOK, Page
    <3>3. ASSUME NEW n \in Counters, ReadTenant(s, n)
          PROVE  /\ scrape'[s].total = scrape[s].total
                 /\ scrape'[s].late = scrape[s].late
                 /\ scrape'[s].blocked = scrape[s].blocked
                 /\ scrape'[s].allowed = scrape[s].allowed
                 /\ scrape'[s].step = "tenants"
      <4>1. scrape'[s] = Adding(scrape[s], n) /\ scrape[s].step = "tenants"
        BY <3>3 DEF ReadTenant, Reading, IInv, TypeOK
      <4> QED
        BY <2>1, <4>1 DEF Adding, Page
    <3>4. CASE LockRules(s)
      BY <2>1, <3>4 DEF LockRules, IInv, TypeOK, Page
    <3> QED
      BY <1>8, <3>1, <3>2, <3>3, <3>4
  <2> QED
    BY <2>1, <2>2 DEF Backed
<1>9. CASE EndPage(s)
  BY <1>9 DEF EndPage, IInv, TypeOK
<1>10. CASE UNCHANGED vars
  BY <1>2, <1>10 DEF vars
<1> QED
  BY <1>2, <1>3, <1>4, <1>5, <1>6, <1>7, <1>8, <1>9, <1>10 DEF Next, Records

LEMMA InvStep == IInv /\ [Next]_vars => IInv'
<1> SUFFICES ASSUME IInv, [Next]_vars PROVE IInv'
  OBVIOUS
<1> QED
  BY TypeStep, ObjectStep, NoneLostStep, TotalsStep, PagesStep DEF IInv

LEMMA InvHolds == Spec => []IInv
BY InvInit, InvStep, PTL DEF Spec

(***************************************************************************)
(* The refinement: what each step shows to a reader.                       *)
(***************************************************************************)

LEMMA TableRead ==
    /\ TableCount = [n \in Counters \union Totals |-> TableCount[n]]
    /\ TableCount[<<"total">>] = total
    /\ TableCount[<<"blocked">>] = blocked
    /\ TableCount[<<"allowed">>] = allowed
    /\ \A n \in Counters : TableCount[n] = Shown(n)
    /\ TableCount' = [n \in Counters \union Totals |-> TableCount'[n]]
    /\ TableCount'[<<"total">>] = total'
    /\ TableCount'[<<"blocked">>] = blocked'
    /\ TableCount'[<<"allowed">>] = allowed'
    /\ \A n \in Counters : TableCount'[n] = Shown(n)'
<1>1. /\ <<"total">> # <<"blocked">> /\ <<"total">> # <<"allowed">>
      /\ <<"blocked">> # <<"allowed">>
  OBVIOUS
<1>2. <<"total">> \in Totals /\ <<"blocked">> \in Totals /\ <<"allowed">> \in Totals
  BY DEF Totals
<1>3. \A n \in Counters : n # <<"total">> /\ n # <<"blocked">> /\ n # <<"allowed">>
  BY <1>2, Naming
<1> QED
  BY <1>1, <1>2, <1>3 DEF TableCount

(* One name goes up by one and the others stay. *)
LEMMA TableIncrement ==
    ASSUME NEW m \in Counters \union Totals,
           TableCount'[m] = TableCount[m] + 1,
           \A n \in (Counters \union Totals) \ {m} : TableCount'[n] = TableCount[n]
    PROVE  Table!Next
<1>1. TableCount' = [n \in Counters \union Totals |-> TableCount'[n]]
  BY TableRead
<1>2. TableCount' = [TableCount EXCEPT ![m] = @ + 1]
  BY <1>1, TableRead
<1> QED
  BY <1>2 DEF Table!Next, Table!Increment

LEMMA TableStep == IInv /\ [Next]_vars => [Table!Next]_TableCount
<1> SUFFICES ASSUME IInv, [Next]_vars PROVE Table!Next \/ TableCount' = TableCount
  OBVIOUS
<1>0. /\ TableCount' = [n \in Counters \union Totals |-> TableCount'[n]]
      /\ TableCount'[<<"total">>] = total'
      /\ TableCount'[<<"blocked">>] = blocked'
      /\ TableCount'[<<"allowed">>] = allowed'
      /\ \A n \in Counters : TableCount'[n] = Shown(n)'
  BY TableRead
<1>1. ASSUME UNCHANGED totals, \A n \in Counters : Shown(n)' = Shown(n)
      PROVE  TableCount' = TableCount
  <2>1. \A n \in Counters \union Totals : TableCount'[n] = TableCount[n]
    BY <1>0, <1>1, TableRead DEF totals, Totals
  <2> QED
    BY <1>0, <2>1, TableRead
<1>2. ASSUME NEW r \in Recorders, NEW t \in Tenants, NEW refused \in BOOLEAN,
             Begin(r, t, refused)
      PROVE  Table!Next
  <2>1. /\ total' = total + 1 /\ blocked' = blocked /\ allowed' = allowed
        /\ \A n \in Counters : Shown(n)' = Shown(n)
    BY <1>2 DEF Begin, Shown
  <2>2. /\ TableCount'[<<"total">>] = TableCount[<<"total">>] + 1
        /\ \A n \in (Counters \union Totals) \ {<<"total">>} :
              TableCount'[n] = TableCount[n]
    BY <1>0, <2>1, TableRead DEF Totals
  <2> QED
    BY <2>2, TableIncrement DEF Totals
<1>3. ASSUME NEW r \in Recorders, CountOutcome(r) PROVE Table!Next
  <2>1. total' = total /\ \A n \in Counters : Shown(n)' = Shown(n)
    BY <1>3 DEF CountOutcome, Shown
  <2>2. CASE rec[r].blocked
    <3>1. blocked' = blocked + 1 /\ allowed' = allowed
      BY <1>3, <2>2 DEF CountOutcome
    <3>2. /\ TableCount'[<<"blocked">>] = TableCount[<<"blocked">>] + 1
          /\ \A n \in (Counters \union Totals) \ {<<"blocked">>} :
                TableCount'[n] = TableCount[n]
      BY <1>0, <2>1, <3>1, TableRead DEF Totals
    <3> QED
      BY <3>2, TableIncrement DEF Totals
  <2>3. CASE ~rec[r].blocked
    <3>1. allowed' = allowed + 1 /\ blocked' = blocked
      BY <1>3, <2>3 DEF CountOutcome
    <3>2. /\ TableCount'[<<"allowed">>] = TableCount[<<"allowed">>] + 1
          /\ \A n \in (Counters \union Totals) \ {<<"allowed">>} :
                TableCount'[n] = TableCount[n]
      BY <1>0, <2>1, <3>1, TableRead DEF Totals
    <3> QED
      BY <3>2, TableIncrement DEF Totals
  <2> QED
    BY <2>2, <2>3
<1>4. ASSUME NEW r \in Recorders, NEW k \in Rules, BeginHit(r, k)
      PROVE  TableCount' = TableCount
  BY <1>1, <1>4 DEF BeginHit, Shown
<1>5. ASSUME NEW r \in Recorders, Look(r) PROVE TableCount' = TableCount
  BY <1>1, <1>5 DEF Look, Shown
<1>6. ASSUME NEW r \in Recorders, Make(r) PROVE TableCount' = TableCount
  <2>1. \A n \in Counters : Shown(n)' = Shown(n)
    BY <1>6, NilAssumption DEF Make, Shown, IInv, OneObject, TypeOK
  <2> QED
    BY <1>1, <1>6, <2>1 DEF Make
<1>7. ASSUME NEW r \in Recorders, Add(r) PROVE Table!Next
  <2>0. PICK m \in Counters : m = rec[r].name
    BY <1>7 DEF Add, At, IInv, TypeOK, Call
  <2>1. slot[m] = rec[r].made /\ rec[r].made \in Recorders
    BY <2>0, <1>7 DEF Add, At, IInv, TypeOK, Call, MadeIsSlot
  <2>2. /\ slot' = slot /\ UNCHANGED totals
        /\ value'[m][rec[r].made] = value[m][rec[r].made] + 1
        /\ \A n \in Counters \ {m} : value'[n] = value[n]
    BY <1>7, <2>0, <2>1 DEF Add, IInv, TypeOK
  <2>4. Shown(m)' = Shown(m) + 1
    BY <2>1, <2>2, NilAssumption DEF Shown
  <2>5. \A n \in Counters \ {m} : Shown(n)' = Shown(n)
    BY <2>2 DEF Shown
  <2>3. /\ TableCount'[m] = TableCount[m] + 1
        /\ \A n \in (Counters \union Totals) \ {m} : TableCount'[n] = TableCount[n]
    <3>1. \A n \in Totals : n # m /\ TableCount'[n] = TableCount[n]
      BY <1>0, <2>1, <2>2, TableRead, Naming DEF totals, Totals
    <3> QED
      BY <1>0, <2>1, <2>4, <2>5, <3>1, TableRead
  <2> QED
    BY <2>1, <2>3, TableIncrement
<1>8. ASSUME NEW r \in Recorders, KeepLatency(r) PROVE TableCount' = TableCount
  BY <1>1, <1>8 DEF KeepLatency, Shown
<1>9. CASE UNCHANGED recorded
  BY <1>1, <1>9 DEF recorded, Shown
<1> QED
  BY <1>2, <1>3, <1>4, <1>5, <1>6, <1>7, <1>8, <1>9, StepKinds DEF Records

(***************************************************************************)
(* Theorems.                                                               *)
(***************************************************************************)

(* The variables keep their types. *)
THEOREM TypeCorrect == Spec => []TypeOK
BY InvHolds, PTL DEF IInv

(* No count is lost or made twice, for any number of concurrent calls: the   *)
(* second look of getTenantRequests under the write lock is what it takes.   *)
THEOREM NothingLost == Spec => []NoneLost
BY InvHolds, PTL DEF IInv

(* Every page accounts for its total, for any number of scrapes and calls.   *)
THEOREM PagesAddUp == Spec => []PageAddsUp
<1>1. PagesBacked => PageAddsUp
  BY DEF PagesBacked, PageAddsUp, Complete, Backed
<1> QED
  BY <1>1, InvHolds, PTL DEF IInv

(* The collector implements a table of counters. *)
THEOREM CollectorIsTable == Spec => ImplementsTable
<1>1. Init => Table!Init
  <2> SUFFICES ASSUME Init PROVE Table!Init
    OBVIOUS
  <2>1. /\ total = 0 /\ blocked = 0 /\ allowed = 0
        /\ \A n \in Counters : Shown(n) = 0
    BY DEF Init, Shown
  <2>2. \A n \in Counters \union Totals : TableCount[n] = 0
    BY <2>1, TableRead DEF Totals
  <2> QED
    BY <2>2, TableRead DEF Table!Init
<1> QED
  BY <1>1, TableStep, InvHolds, PTL DEF Spec, ImplementsTable, Table!Spec
=============================================================================
