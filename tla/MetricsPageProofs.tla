-------------------------- MODULE MetricsPageProofs --------------------------
(***************************************************************************)
(* The tenants on a page account for its totals.  Tenants may be any set,  *)
(* so a sum over the counters of one kind is stated as the number of the   *)
(* units that they show: a step adds one unit, and reading a counter takes *)
(* its units away from those still to be read.                             *)
(***************************************************************************)
EXTENDS MetricsProofs

(* The units that the counters of S show in the table f. *)
Units(f, S) == UNION {{n} \X (1 .. f[n]) : n \in S}

Sum(f, S) == Cardinality(Units(f, S))

shown == [n \in Counters |-> Shown(n)]

Kind(kind) == {n \in Counters : n[1] = kind}

(***************************************************************************)
(* The inductive invariant.                                                *)
(***************************************************************************)

(* A call counts a blocked request first, and its name says which it is. *)
OutcomeNamed ==
    \A r \in Recorders : At(r, "outcome") =>
        rec[r].name[1] = IF rec[r].blocked THEN "blocked" ELSE "requests"

(* The calls that have still to count in m.TenantRequests, and in            *)
(* m.TenantBlocked after m.BlockedRequests.                                  *)
OwingRequest == {r \in Recorders : /\ rec[r] # Nil
                                   /\ rec[r].name[1] # "hits"
                                   /\ rec[r].step # "latency"}

OwingBlocked == {r \in Recorders : /\ rec[r] # Nil
                                   /\ rec[r].name[1] = "blocked"
                                   /\ rec[r].step # "outcome"}

(* Only finitely many units are shown, and with the calls under way they     *)
(* make up the totals.                                                       *)
Ledger ==
    /\ IsFiniteSet(Units(shown, Kind("requests")))
    /\ IsFiniteSet(Units(shown, Kind("blocked")))
    /\ total = Sum(shown, Kind("requests")) + Cardinality(OwingRequest)
    /\ blocked = Sum(shown, Kind("blocked")) + Cardinality(OwingBlocked)

(* The counters of one kind that a page has still to read. *)
Unread(p, kind) == {n \in p.left : n[1] = kind}

(* What a page has read and what it has still to read account for its totals. *)
Tallied(p) ==
    CASE p.step = "blocked" -> p.total <= Sum(shown, Kind("requests")) + p.late
      [] p.step \in {"allowed", "lock"} ->
            /\ p.total <= Sum(shown, Kind("requests")) + p.late
            /\ p.blocked <= Sum(shown, Kind("blocked")) + p.lateBlocked
      [] p.step = "tenants" ->
            /\ p.total <= p.requests + Sum(shown, Unread(p, "requests")) + p.late
            /\ p.blocked <= p.refused + Sum(shown, Unread(p, "blocked")) + p.lateBlocked
      [] OTHER ->
            /\ p.total <= p.requests + p.late
            /\ p.blocked <= p.refused + p.lateBlocked

PagesTallied == \A s \in Scrapers : scrape[s] # Nil => Tallied(scrape[s])

TallyInv == IInv /\ OutcomeNamed /\ Ledger /\ PagesTallied

(***************************************************************************)
(* Units.                                                                  *)
(***************************************************************************)

LEMMA UnitsMember ==
    ASSUME NEW f, NEW S, NEW u
    PROVE  u \in Units(f, S) <=> \E n \in S : \E i \in 1 .. f[n] : u = <<n, i>>
BY DEF Units

(* One counter of S goes up by one. *)
LEMMA UnitsMore ==
    ASSUME NEW f \in [Counters -> Nat], NEW m \in Counters, NEW S \in SUBSET Counters,
           IsFiniteSet(Units(f, S)), NEW g \in [Counters -> Nat],
           g[m] = f[m] + 1, \A n \in Counters \ {m} : g[n] = f[n]
    PROVE  /\ IsFiniteSet(Units(g, S))
           /\ Sum(f, S) \in Nat /\ Sum(g, S) \in Nat
           /\ Sum(g, S) = IF m \in S THEN Sum(f, S) + 1 ELSE Sum(f, S)
<1>1. Sum(f, S) \in Nat
  BY FS_CardinalityType DEF Sum
<1>2. CASE m \notin S
  <2>1. \A n \in S : g[n] = f[n]
    BY <1>2
  <2>2. Units(g, S) = Units(f, S)
    BY <2>1 DEF Units
  <2> QED
    BY <1>1, <1>2, <2>2 DEF Sum
<1>3. CASE m \in S
  <2> DEFINE u == <<m, f[m] + 1>>
  <2>1. /\ f[m] \in Nat /\ g[m] = f[m] + 1
        /\ \A n \in S \ {m} : g[n] = f[n]
    OBVIOUS
  <2>2. u \notin Units(f, S)
    <3>1. ASSUME NEW n \in S, NEW i \in 1 .. f[n], u = <<n, i>> PROVE FALSE
      <4>1. n = m /\ i = f[m] + 1
        BY <3>1
      <4> QED
        BY <2>1, <4>1
    <3> QED
      BY <3>1, UnitsMember
  <2>3. \A v : v \in Units(g, S) <=> v \in Units(f, S) \union {u}
    <3> SUFFICES ASSUME NEW v
                 PROVE  v \in Units(g, S) <=> v \in Units(f, S) \/ v = u
      OBVIOUS
    <3>1. ASSUME v \in Units(g, S) PROVE v \in Units(f, S) \/ v = u
      <4>1. PICK n \in S : \E i \in 1 .. g[n] : v = <<n, i>>
        BY <3>1, UnitsMember
      <4>2. PICK i \in 1 .. g[n] : v = <<n, i>>
        BY <4>1
      <4>3. i \in 1 .. f[n] \/ (n = m /\ i = f[m] + 1)
        BY <2>1
      <4> QED
        BY <4>2, <4>3, UnitsMember
    <3>2. ASSUME v \in Units(f, S) PROVE v \in Units(g, S)
      <4>1. PICK n \in S : \E i \in 1 .. f[n] : v = <<n, i>>
        BY <3>2, UnitsMember
      <4>2. PICK i \in 1 .. f[n] : v = <<n, i>>
        BY <4>1
      <4>3. f[n] \in Nat /\ g[n] \in Nat /\ f[n] <= g[n]
        BY <2>1
      <4>4. i \in 1 .. g[n]
        BY <4>3
      <4> QED
        BY <4>2, <4>4, UnitsMember
    <3>3. u \in Units(g, S)
      <4>1. f[m] + 1 \in 1 .. g[m]
        BY <2>1
      <4> QED
        BY <1>3, <4>1, UnitsMember
    <3> QED
      BY <3>1, <3>2, <3>3
  <2>4. Units(g, S) = Units(f, S) \union {u}
    BY <2>3
  <2> HIDE DEF u
  <2>5. /\ IsFiniteSet(Units(f, S) \union {u})
        /\ Cardinality(Units(f, S) \union {u}) = Cardinality(Units(f, S)) + 1
    BY <2>2, FS_AddElement
  <2>6. IsFiniteSet(Units(g, S)) /\ Sum(g, S) = Sum(f, S) + 1
    BY <2>4, <2>5 DEF Sum
  <2> QED
    BY <1>1, <1>3, <2>6
<1> QED
  BY <1>2, <1>3

(* A smaller set of counters shows no more than a larger one, and as much    *)
(* when the others show nothing.                                             *)
LEMMA UnitsFewer ==
    ASSUME NEW f \in [Counters -> Nat], NEW S \in SUBSET Counters,
           NEW T \in SUBSET S, IsFiniteSet(Units(f, S))
    PROVE  /\ IsFiniteSet(Units(f, T))
           /\ Sum(f, T) \in Nat /\ Sum(f, S) \in Nat
           /\ Sum(f, T) <= Sum(f, S)
           /\ (\A n \in S \ T : f[n] = 0) => Sum(f, T) = Sum(f, S)
<1>1. Units(f, T) \in SUBSET Units(f, S)
  BY DEF Units
<1>2. ASSUME \A n \in S \ T : f[n] = 0 PROVE Units(f, T) = Units(f, S)
  <2> SUFFICES ASSUME NEW u \in Units(f, S) PROVE u \in Units(f, T)
    BY <1>1
  <2>1. PICK n \in S : \E i \in 1 .. f[n] : u = <<n, i>>
    BY UnitsMember
  <2>2. n \in T
    <3>1. f[n] # 0
      BY <2>1
    <3> QED
      BY <1>2, <3>1
  <2> QED
    BY <2>1, <2>2, UnitsMember
<1> QED
  BY <1>1, <1>2, FS_Subset, FS_CardinalityType DEF Sum

(* Without one of its counters a set shows less by what that counter shows.  *)
LEMMA UnitsWithout ==
    ASSUME NEW f \in [Counters -> Nat], NEW S \in SUBSET Counters,
           NEW m \in S, IsFiniteSet(Units(f, S))
    PROVE  Sum(f, S) = Sum(f, S \ {m}) + f[m]
<1> DEFINE A == Units(f, S \ {m})
           B == {m} \X (1 .. f[m])
<1>1. Units(f, S) = A \union B
  BY DEF Units
<1>2. A \intersect B = {}
  BY DEF Units
<1>3. f[m] \in Nat
  OBVIOUS
<1>4. IsFiniteSet(B) /\ Cardinality(B) = f[m]
  <2>1. IsFiniteSet(1 .. f[m]) /\ Cardinality(1 .. f[m]) = f[m]
    BY <1>3, FS_Interval
  <2>2. IsFiniteSet({m}) /\ Cardinality({m}) = 1
    BY FS_Singleton
  <2> QED
    BY <1>3, <2>1, <2>2, FS_Product
<1>5. IsFiniteSet(A)
  BY <1>1, FS_Subset
<1>6. Cardinality(A \union B)
          = Cardinality(A) + Cardinality(B) - Cardinality(A \intersect B)
  BY <1>4, <1>5, FS_Union
<1>7. Cardinality(A) \in Nat
  BY <1>5, FS_CardinalityType
<1> HIDE DEF A, B
<1>8. Cardinality(A \union B) = Cardinality(A) + f[m]
  BY <1>2, <1>3, <1>4, <1>6, <1>7, FS_EmptySet
<1> QED
  BY <1>1, <1>8 DEF Sum, A

LEMMA UnitsNone == ASSUME NEW f PROVE Units(f, {}) = {} /\ Sum(f, {}) = 0
BY FS_EmptySet DEF Units, Sum

LEMMA ZeroUnits ==
    ASSUME NEW f, NEW S, \A n \in S : f[n] = 0
    PROVE  Units(f, S) = {} /\ Sum(f, S) = 0
BY FS_EmptySet, UnitsMember DEF Units, Sum

(***************************************************************************)
(* What a step shows, and which calls it leaves owing.                     *)
(***************************************************************************)

LEMMA ShownType ==
    /\ IInv => shown \in [Counters -> Nat]
    /\ IInv' => shown' \in [Counters -> Nat]
BY DEF IInv, TypeOK, shown, Shown

LEMMA SetsOfCalls ==
    /\ OwingRequest \in SUBSET Recorders /\ OwingBlocked \in SUBSET Recorders
    /\ Cardinality(OwingRequest) \in Nat /\ Cardinality(OwingBlocked) \in Nat
    /\ Cardinality(OwingRequest) <= UnderWay /\ Cardinality(OwingBlocked) <= UnderWay
    /\ UnderWay \in Nat
<1> DEFINE Running == {r \in Recorders : rec[r] # Nil}
<1>1. /\ OwingRequest \in SUBSET Running /\ OwingBlocked \in SUBSET Running
      /\ OwingRequest \in SUBSET Recorders /\ OwingBlocked \in SUBSET Recorders
      /\ Running \in SUBSET Recorders
  BY DEF OwingRequest, OwingBlocked
<1> QED
  BY <1>1, CountOfRecorders DEF UnderWay

LEMMA OneApart ==
    ASSUME NEW S \in SUBSET Recorders, NEW T \in SUBSET Recorders,
           NEW r \in Recorders, \A q \in Recorders \ {r} : q \in T <=> q \in S
    PROVE  /\ Cardinality(S) \in Nat /\ Cardinality(T) \in Nat
           /\ (r \in S <=> r \in T) => Cardinality(T) = Cardinality(S)
           /\ r \in S /\ r \notin T => Cardinality(T) = Cardinality(S) - 1
           /\ r \notin S /\ r \in T => Cardinality(T) = Cardinality(S) + 1
<1>1. (r \in S <=> r \in T) => T = S
  OBVIOUS
<1>2. r \in S /\ r \notin T => T = S \ {r}
  OBVIOUS
<1>3. r \notin S /\ r \in T => T = S \union {r}
  OBVIOUS
<1> QED
  BY <1>1, <1>2, <1>3, CountOfRecorders

(* Only the call that makes a step changes what it owes. *)
LEMMA OwingStep ==
    ASSUME NEW r \in Recorders, \A q \in Recorders \ {r} : rec'[q] = rec[q]
    PROVE  /\ (r \in OwingRequest <=> r \in OwingRequest') =>
                 Cardinality(OwingRequest)' = Cardinality(OwingRequest)
           /\ r \in OwingRequest /\ r \notin OwingRequest' =>
                 Cardinality(OwingRequest)' = Cardinality(OwingRequest) - 1
           /\ r \notin OwingRequest /\ r \in OwingRequest' =>
                 Cardinality(OwingRequest)' = Cardinality(OwingRequest) + 1
           /\ (r \in OwingBlocked <=> r \in OwingBlocked') =>
                 Cardinality(OwingBlocked)' = Cardinality(OwingBlocked)
           /\ r \in OwingBlocked /\ r \notin OwingBlocked' =>
                 Cardinality(OwingBlocked)' = Cardinality(OwingBlocked) - 1
           /\ r \notin OwingBlocked /\ r \in OwingBlocked' =>
                 Cardinality(OwingBlocked)' = Cardinality(OwingBlocked) + 1
           /\ Cardinality(OwingRequest) \in Nat /\ Cardinality(OwingRequest)' \in Nat
           /\ Cardinality(OwingBlocked) \in Nat /\ Cardinality(OwingBlocked)' \in Nat
<1>1. /\ OwingRequest \in SUBSET Recorders /\ OwingRequest' \in SUBSET Recorders
      /\ OwingBlocked \in SUBSET Recorders /\ OwingBlocked' \in SUBSET Recorders
  BY DEF OwingRequest, OwingBlocked
<1>2. \A q \in Recorders \ {r} : /\ q \in OwingRequest' <=> q \in OwingRequest
                                 /\ q \in OwingBlocked' <=> q \in OwingBlocked
  BY DEF OwingRequest, OwingBlocked
<1>3. PICK S \in SUBSET Recorders, T \in SUBSET Recorders :
         S = OwingRequest /\ T = OwingRequest'
  BY <1>1
<1>4. PICK U \in SUBSET Recorders, V \in SUBSET Recorders :
         U = OwingBlocked /\ V = OwingBlocked'
  BY <1>1
<1>5. /\ \A q \in Recorders \ {r} : q \in T <=> q \in S
      /\ \A q \in Recorders \ {r} : q \in V <=> q \in U
  BY <1>2, <1>3, <1>4
<1>6. /\ Cardinality(S) \in Nat /\ Cardinality(T) \in Nat
      /\ (r \in S <=> r \in T) => Cardinality(T) = Cardinality(S)
      /\ r \in S /\ r \notin T => Cardinality(T) = Cardinality(S) - 1
      /\ r \notin S /\ r \in T => Cardinality(T) = Cardinality(S) + 1
  BY <1>5, OneApart
<1>7. /\ Cardinality(U) \in Nat /\ Cardinality(V) \in Nat
      /\ (r \in U <=> r \in V) => Cardinality(V) = Cardinality(U)
      /\ r \in U /\ r \notin V => Cardinality(V) = Cardinality(U) - 1
      /\ r \notin U /\ r \in V => Cardinality(V) = Cardinality(U) + 1
  BY <1>5, OneApart
<1> QED
  BY <1>3, <1>4, <1>6, <1>7

(* One step of a call: which totals and which counters it moves, and what it *)
(* leaves the call owing.                                                    *)
Effect(r, n) ==
    /\ \A q \in Recorders \ {r} : rec'[q] = rec[q]
    /\ \/ /\ total' = total + 1 /\ blocked' = blocked /\ shown' = shown
          /\ r \notin OwingRequest /\ r \in OwingRequest'
          /\ r \notin OwingBlocked /\ r \notin OwingBlocked'
       \/ /\ total' = total /\ blocked' = blocked /\ shown' = shown
          /\ r \in OwingRequest <=> r \in OwingRequest'
          /\ r \in OwingBlocked <=> r \in OwingBlocked'
       \/ /\ total' = total /\ blocked' = blocked + 1 /\ shown' = shown
          /\ r \in OwingRequest /\ r \in OwingRequest'
          /\ r \notin OwingBlocked /\ r \in OwingBlocked'
       \/ /\ total' = total /\ blocked' = blocked
          /\ n \in Counters /\ shown'[n] = shown[n] + 1
          /\ \A m \in Counters \ {n} : shown'[m] = shown[m]
          /\ r \in OwingRequest
          /\ r \in OwingRequest' <=> n \notin Kind("requests")
          /\ r \in OwingBlocked <=> n \in Kind("blocked")
          /\ r \notin OwingBlocked'
       \/ /\ total' = total /\ blocked' = blocked
          /\ n \in Kind("hits") /\ shown'[n] = shown[n] + 1
          /\ \A m \in Counters \ {n} : shown'[m] = shown[m]
          /\ r \in OwingRequest <=> r \in OwingRequest'
          /\ r \in OwingBlocked <=> r \in OwingBlocked'

(* The name of a call under way, or anything when there is none. *)
Named(r) == IF rec[r] = Nil THEN Nil ELSE rec[r].name

LEMMA EffectOfCalls ==
    ASSUME IInv, OutcomeNamed, NEW r \in Recorders, Records(r)
    PROVE  Effect(r, Named(r)) /\ OutcomeNamed'
<1> USE DEF IInv
<1>0. rec[r] \in Call \union {Nil} /\ Nil \notin Call
  BY CallAssumption DEF TypeOK
<1>1. ASSUME NEW t \in Tenants, NEW refused \in BOOLEAN, Begin(r, t, refused)
      PROVE  Effect(r, Named(r)) /\ OutcomeNamed'
  <2> DEFINE c == [step |-> "outcome", blocked |-> refused, made |-> Nil,
                   name |-> IF refused THEN Blocked(t) ELSE Requests(t)]
  <2>1. /\ c \in Call /\ c.step = "outcome"
        /\ c.name[1] = IF c.blocked THEN "blocked" ELSE "requests"
    BY Naming DEF Call
  <2>2. rec' = [rec EXCEPT ![r] = c] /\ rec[r] = Nil
    BY <1>1 DEF Begin
  <2>3. total' = total + 1 /\ blocked' = blocked /\ shown' = shown
    BY <1>1 DEF Begin, shown, Shown
  <2> HIDE DEF c
  <2>4. /\ rec'[r] = c /\ c # Nil /\ \A q \in Recorders \ {r} : rec'[q] = rec[q]
    BY <1>0, <2>1, <2>2 DEF TypeOK
  <2>5. /\ r \notin OwingRequest /\ r \in OwingRequest'
        /\ r \notin OwingBlocked /\ r \notin OwingBlocked'
    BY <2>1, <2>2, <2>4 DEF OwingRequest, OwingBlocked
  <2>6. OutcomeNamed'
    BY <2>1, <2>4 DEF OutcomeNamed, At
  <2> QED
    BY <2>3, <2>4, <2>5, <2>6 DEF Effect
<1>2. ASSUME NEW k \in Rules, BeginHit(r, k)
      PROVE  Effect(r, Named(r)) /\ OutcomeNamed'
  <2> DEFINE c == [step |-> "look", blocked |-> FALSE, made |-> Nil, name |-> Hits(k)]
  <2>1. c \in Call /\ c.step = "look" /\ c.name[1] = "hits"
    BY Naming DEF Call
  <2>2. rec' = [rec EXCEPT ![r] = c] /\ rec[r] = Nil
    BY <1>2 DEF BeginHit
  <2>3. total' = total /\ blocked' = blocked /\ shown' = shown
    BY <1>2 DEF BeginHit, totals, shown, Shown
  <2> HIDE DEF c
  <2>4. /\ rec'[r] = c /\ c # Nil /\ \A q \in Recorders \ {r} : rec'[q] = rec[q]
    BY <1>0, <2>1, <2>2 DEF TypeOK
  <2>5. /\ r \notin OwingRequest /\ r \notin OwingRequest'
        /\ r \notin OwingBlocked /\ r \notin OwingBlocked'
    BY <2>1, <2>2, <2>4 DEF OwingRequest, OwingBlocked
  <2>6. OutcomeNamed'
    BY <2>1, <2>4 DEF OutcomeNamed, At
  <2> QED
    BY <2>3, <2>4, <2>5, <2>6 DEF Effect
<1>3. ASSUME CountOutcome(r) PROVE Effect(r, Named(r)) /\ OutcomeNamed'
  <2> DEFINE c == [rec[r] EXCEPT !.step = "look"]
  <2>1. /\ rec[r] \in Call /\ rec[r].step = "outcome" /\ rec[r] # Nil
        /\ c \in Call /\ c.step = "look" /\ c.name = rec[r].name
    BY <1>0, <1>3 DEF CountOutcome, At, Call
  <2>2. rec' = [rec EXCEPT ![r] = c]
    BY <1>3 DEF CountOutcome
  <2>3. total' = total /\ shown' = shown
    BY <1>3 DEF CountOutcome, shown, Shown
  <2>4. rec[r].name[1] = IF rec[r].blocked THEN "blocked" ELSE "requests"
    BY <2>1 DEF OutcomeNamed, At
  <2> HIDE DEF c
  <2>5. /\ rec'[r] = c /\ c # Nil /\ \A q \in Recorders \ {r} : rec'[q] = rec[q]
    BY <1>0, <2>1, <2>2 DEF TypeOK
  <2>6. /\ r \in OwingRequest /\ r \in OwingRequest' /\ r \notin OwingBlocked
        /\ r \in OwingBlocked' <=> rec[r].blocked
    BY <2>1, <2>4, <2>5 DEF OwingRequest, OwingBlocked
  <2>7. OutcomeNamed'
    BY <2>1, <2>5 DEF OutcomeNamed, At
  <2>8. CASE rec[r].blocked
    <3>1. blocked' = blocked + 1
      BY <1>3, <2>8 DEF CountOutcome
    <3> QED
      BY <2>3, <2>5, <2>6, <2>7, <2>8, <3>1 DEF Effect
  <2>9. CASE ~rec[r].blocked
    <3>1. blocked' = blocked
      BY <1>3, <2>9 DEF CountOutcome
    <3> QED
      BY <2>3, <2>5, <2>6, <2>7, <2>9, <3>1 DEF Effect
  <2> QED
    BY <2>8, <2>9
<1>4. ASSUME Look(r) \/ Make(r) PROVE Effect(r, Named(r)) /\ OutcomeNamed'
  <2>1. /\ rec[r] \in Call /\ rec[r] # Nil /\ rec[r].step \in {"look", "make"}
        /\ rec'[r] # Nil /\ rec'[r].step \in {"make", "add"}
        /\ rec'[r].name = rec[r].name
        /\ \A q \in Recorders \ {r} : rec'[q] = rec[q]
    <3>1. CASE Look(r)
      BY <1>0, <3>1, CallAssumption DEF Look, At, TypeOK, Call
    <3>2. CASE Make(r)
      BY <1>0, <3>2, CallAssumption DEF Make, At, TypeOK, Call
    <3> QED
      BY <1>4, <3>1, <3>2
  <2>2. total' = total /\ blocked' = blocked /\ shown' = shown
    <3>1. CASE Look(r)
      BY <3>1 DEF Look, totals, shown, Shown
    <3>2. CASE Make(r)
      <4>1. \A n \in Counters : Shown(n)' = Shown(n)
        BY <3>2, NilAssumption DEF Make, Shown, OneObject, TypeOK
      <4> QED
        BY <3>2, <4>1 DEF Make, totals, shown
    <3> QED
      BY <1>4, <3>1, <3>2
  <2>3. /\ r \in OwingRequest <=> r \in OwingRequest'
        /\ r \in OwingBlocked <=> r \in OwingBlocked'
    BY <2>1 DEF OwingRequest, OwingBlocked
  <2>4. OutcomeNamed'
    BY <2>1 DEF OutcomeNamed, At
  <2> QED
    BY <2>1, <2>2, <2>3, <2>4 DEF Effect
<1>5. ASSUME Add(r) PROVE Effect(r, Named(r)) /\ OutcomeNamed'
  <2>0. PICK n \in Counters : n = rec[r].name
    BY <1>0, <1>5 DEF Add, At, Call
  <2>1. /\ rec[r] \in Call /\ rec[r] # Nil /\ rec[r].step = "add"
        /\ slot[n] = rec[r].made /\ rec[r].made \in Recorders
    BY <1>0, <1>5, <2>0 DEF Add, At, MadeIsSlot
  <2>2. rec'[r] = After(rec[r]) /\ \A q \in Recorders \ {r} : rec'[q] = rec[q]
    BY <1>5 DEF Add, TypeOK
  <2>3. total' = total /\ blocked' = blocked /\ Named(r) = n
    BY <1>5, <2>0, <2>1 DEF Add, totals, Named
  <2>4. /\ shown'[n] = shown[n] + 1
        /\ \A m \in Counters \ {n} : shown'[m] = shown[m]
    <3>1. /\ slot' = slot /\ value'[n][rec[r].made] = value[n][rec[r].made] + 1
          /\ \A m \in Counters \ {n} : value'[m] = value[m]
      BY <1>5, <2>0, <2>1 DEF Add, TypeOK
    <3> QED
      BY <2>1, <3>1, NilAssumption DEF shown, Shown
  <2>5. CASE n[1] = "blocked"
    <3> DEFINE c == [rec[r] EXCEPT !.step = "look", !.made = Nil,
                                   !.name = Requests(n[2])]
    <3>1. Requests(n[2]) \in Counters /\ Requests(n[2])[1] = "requests"
      BY <2>5, Naming
    <3>2. c \in Call /\ c.step = "look" /\ c.name = Requests(n[2])
      BY <2>1, <3>1 DEF Call
    <3>3. After(rec[r]) = c
      BY <2>0, <2>5 DEF After
    <3> HIDE DEF c
    <3>4. rec'[r] = c /\ c # Nil
      BY <1>0, <2>2, <3>2, <3>3
    <3>5. /\ r \in OwingRequest /\ r \in OwingRequest'
          /\ r \in OwingBlocked /\ r \notin OwingBlocked'
      BY <2>0, <2>1, <2>5, <3>1, <3>2, <3>4 DEF OwingRequest, OwingBlocked
    <3>6. n \in Kind("blocked") /\ n \notin Kind("requests")
      BY <2>5 DEF Kind
    <3>7. OutcomeNamed'
      BY <2>2, <3>2, <3>4 DEF OutcomeNamed, At
    <3> QED
      BY <2>2, <2>3, <2>4, <3>5, <3>6, <3>7 DEF Effect
  <2>6. CASE n[1] = "requests"
    <3>1. After(rec[r]).step = "latency" /\ After(rec[r]).name = n
      BY <2>0, <2>1, <2>6 DEF After, Call
    <3>2. /\ r \in OwingRequest /\ r \notin OwingRequest'
          /\ r \notin OwingBlocked /\ r \notin OwingBlocked'
      BY <2>0, <2>1, <2>2, <2>6, <3>1 DEF OwingRequest, OwingBlocked
    <3>3. n \in Kind("requests") /\ n \notin Kind("blocked")
      BY <2>6 DEF Kind
    <3>4. OutcomeNamed'
      BY <2>2, <3>1 DEF OutcomeNamed, At
    <3> QED
      BY <2>2, <2>3, <2>4, <3>2, <3>3, <3>4 DEF Effect
  <2>7. CASE n[1] = "hits"
    <3>1. After(rec[r]) = Nil
      BY <2>0, <2>7 DEF After
    <3>2. /\ r \notin OwingRequest /\ r \notin OwingRequest'
          /\ r \notin OwingBlocked /\ r \notin OwingBlocked'
      BY <2>0, <2>1, <2>2, <2>7, <3>1 DEF OwingRequest, OwingBlocked
    <3>3. OutcomeNamed'
      BY <2>2, <3>1 DEF OutcomeNamed, At
    <3> QED
      BY <2>2, <2>3, <2>4, <2>7, <3>2, <3>3 DEF Effect, Kind
  <2> QED
    BY <2>0, <2>5, <2>6, <2>7, Naming
<1>6. ASSUME KeepLatency(r) PROVE Effect(r, Named(r)) /\ OutcomeNamed'
  <2>1. rec'[r] = Nil /\ \A q \in Recorders \ {r} : rec'[q] = rec[q]
    BY <1>6 DEF KeepLatency, TypeOK
  <2>2. rec[r].step = "latency" /\ rec[r].name[1] = "requests"
    BY <1>6 DEF KeepLatency, At, LatencyLast
  <2>3. total' = total /\ blocked' = blocked /\ shown' = shown
    BY <1>6 DEF KeepLatency, totals, shown, Shown
  <2>4. /\ r \notin OwingRequest /\ r \notin OwingRequest'
        /\ r \notin OwingBlocked /\ r \notin OwingBlocked'
    BY <2>1, <2>2 DEF OwingRequest, OwingBlocked
  <2>5. OutcomeNamed'
    BY <2>1 DEF OutcomeNamed, At
  <2> QED
    BY <2>1, <2>3, <2>4, <2>5 DEF Effect
<1> QED
  BY <1>1, <1>2, <1>3, <1>4, <1>5, <1>6 DEF Records

LEMMA StepEffects ==
    ASSUME IInv, OutcomeNamed, [Next]_vars
    PROVE  /\ OutcomeNamed'
           /\ \/ \E r \in Recorders : Effect(r, Named(r))
              \/ UNCHANGED <<total, blocked, rec, shown>>
<1>1. ASSUME NEW r \in Recorders, Records(r)
      PROVE  OutcomeNamed' /\ Effect(r, Named(r))
  BY <1>1, EffectOfCalls
<1>2. ASSUME UNCHANGED recorded
      PROVE  OutcomeNamed' /\ UNCHANGED <<total, blocked, rec, shown>>
  <2>1. UNCHANGED <<total, blocked, rec, slot, value>>
    BY <1>2 DEF recorded, totals
  <2> QED
    BY <2>1 DEF OutcomeNamed, At, shown, Shown
<1> QED
  BY <1>1, <1>2, StepKinds

(***************************************************************************)
(* The ledger.                                                             *)
(***************************************************************************)

(* Of the counters of one kind a step moves one at most, and by one. *)
LEMMA KindStep ==
    ASSUME IInv, IInv', Ledger, NEW n \in Counters,
           shown'[n] = shown[n] + 1, \A m \in Counters \ {n} : shown'[m] = shown[m],
           NEW k \in {"requests", "blocked"}
    PROVE  /\ IsFiniteSet(Units(shown', Kind(k)))
           /\ Sum(shown, Kind(k)) \in Nat
           /\ Sum(shown', Kind(k)) = IF n \in Kind(k) THEN Sum(shown, Kind(k)) + 1
                                     ELSE Sum(shown, Kind(k))
<1>1. shown \in [Counters -> Nat] /\ shown' \in [Counters -> Nat]
  BY ShownType
<1>2. IsFiniteSet(Units(shown, Kind(k))) /\ Kind(k) \in SUBSET Counters
  BY DEF Ledger, Kind
<1> HIDE DEF shown
<1> QED
  BY <1>1, <1>2, UnitsMore

LEMMA LedgerStep ==
    ASSUME IInv, IInv', OutcomeNamed, Ledger, [Next]_vars
    PROVE  Ledger'
<1>1. CASE UNCHANGED <<total, blocked, rec, shown>>
  <2>1. OwingRequest' = OwingRequest /\ OwingBlocked' = OwingBlocked
    BY <1>1 DEF OwingRequest, OwingBlocked
  <2> QED
    BY <1>1, <2>1 DEF Ledger, Kind
<1>2. ASSUME NEW r \in Recorders, Effect(r, Named(r)) PROVE Ledger'
  <2> DEFINE R == Cardinality(OwingRequest)
             B == Cardinality(OwingBlocked)
             n == Named(r)
  <2>0. /\ R \in Nat /\ B \in Nat /\ R' \in Nat /\ B' \in Nat
        /\ (r \in OwingRequest <=> r \in OwingRequest') => R' = R
        /\ r \in OwingRequest /\ r \notin OwingRequest' => R' = R - 1
        /\ r \notin OwingRequest /\ r \in OwingRequest' => R' = R + 1
        /\ (r \in OwingBlocked <=> r \in OwingBlocked') => B' = B
        /\ r \in OwingBlocked /\ r \notin OwingBlocked' => B' = B - 1
        /\ r \notin OwingBlocked /\ r \in OwingBlocked' => B' = B + 1
    BY <1>2, OwingStep DEF Effect
  <2>2. /\ total = Sum(shown, Kind("requests")) + R
        /\ blocked = Sum(shown, Kind("blocked")) + B
        /\ IsFiniteSet(Units(shown, Kind("requests")))
        /\ IsFiniteSet(Units(shown, Kind("blocked")))
        /\ Sum(shown, Kind("requests")) \in Nat
        /\ Sum(shown, Kind("blocked")) \in Nat
    BY FS_CardinalityType DEF Ledger, Sum
  <2>3. SUFFICES /\ IsFiniteSet(Units(shown', Kind("requests")))
                 /\ IsFiniteSet(Units(shown', Kind("blocked")))
                 /\ total' = Sum(shown', Kind("requests")) + R'
                 /\ blocked' = Sum(shown', Kind("blocked")) + B'
    BY DEF Ledger, Kind, Sum, Units
  <2> HIDE DEF R, B, n
  <2>4. CASE shown' = shown
    <3>1. \/ /\ total' = total + 1 /\ blocked' = blocked
             /\ R' = R + 1 /\ B' = B
          \/ /\ total' = total /\ blocked' = blocked /\ R' = R /\ B' = B
          \/ /\ total' = total /\ blocked' = blocked + 1
             /\ R' = R /\ B' = B + 1
      <4>1. ~ (n \in Counters /\ shown'[n] = shown[n] + 1)
        BY <2>4, ShownType
      <4>2. n \in Kind("hits") => n \in Counters
        BY DEF Kind
      <4> QED
        BY <1>2, <2>0, <2>4, <4>1, <4>2 DEF Effect, n
    <3> QED
      BY <2>0, <2>2, <2>4, <3>1
  <2>5. CASE shown' # shown
    <3>1. /\ total' = total /\ blocked' = blocked
          /\ n \in Counters /\ shown'[n] = shown[n] + 1
          /\ \A m \in Counters \ {n} : shown'[m] = shown[m]
          /\ R' = IF n \in Kind("requests") THEN R - 1 ELSE R
          /\ B' = IF n \in Kind("blocked") THEN B - 1 ELSE B
      <4>1. n \in Kind("hits") => /\ n \in Counters /\ n \notin Kind("requests")
                                  /\ n \notin Kind("blocked")
        BY DEF Kind
      <4> QED
        BY <1>2, <2>0, <2>5, <4>1 DEF Effect, n
    <3> DEFINE k1 == Kind("requests")
               k2 == Kind("blocked")
    <3>2. /\ IsFiniteSet(Units(shown', k1)) /\ IsFiniteSet(Units(shown', k2))
          /\ Sum(shown', k1) = IF n \in k1 THEN Sum(shown, k1) + 1 ELSE Sum(shown, k1)
          /\ Sum(shown', k2) = IF n \in k2 THEN Sum(shown, k2) + 1 ELSE Sum(shown, k2)
      BY <3>1, KindStep
    <3> QED
      BY <2>0, <2>2, <3>1, <3>2
  <2> QED
    BY <2>4, <2>5
<1> QED
  BY <1>1, <1>2, StepEffects

(* No set of counters of one kind ever shows less, and all together show no  *)
(* less than the calls that have counted.                                    *)
LEMMA SumsGrow ==
    ASSUME IInv, IInv', OutcomeNamed, Ledger, [Next]_vars,
           NEW k \in {"requests", "blocked"}, NEW S \in SUBSET Kind(k)
    PROVE  /\ Sum(shown, S) \in Nat /\ Sum(shown', S) \in Nat
           /\ Sum(shown, S) <= Sum(shown', S)
<1>0. /\ S \in SUBSET Counters /\ Kind(k) \in SUBSET Counters
      /\ shown \in [Counters -> Nat] /\ shown' \in [Counters -> Nat]
      /\ IsFiniteSet(Units(shown, Kind(k)))
  BY ShownType DEF Kind, Ledger
<1>1. IsFiniteSet(Units(shown, S)) /\ Sum(shown, S) \in Nat
  BY <1>0, UnitsFewer
<1>2. CASE shown' = shown
  BY <1>1, <1>2
<1>3. ASSUME NEW n \in Counters, shown'[n] = shown[n] + 1,
             \A m \in Counters \ {n} : shown'[m] = shown[m]
      PROVE  /\ Sum(shown', S) \in Nat
             /\ Sum(shown', S) = IF n \in S THEN Sum(shown, S) + 1 ELSE Sum(shown, S)
  <2> HIDE DEF shown
  <2> QED
    BY <1>0, <1>1, <1>3, UnitsMore
<1>4. CASE shown' # shown
  <2>1. PICK r \in Recorders : Effect(r, Named(r))
    BY <1>4, StepEffects
  <2>2. PICK n \in Counters : /\ shown'[n] = shown[n] + 1
                              /\ \A m \in Counters \ {n} : shown'[m] = shown[m]
    <3>1. Kind("hits") \in SUBSET Counters
      BY DEF Kind
    <3> HIDE DEF shown
    <3> QED
      BY <1>4, <2>1, <3>1 DEF Effect
  <2> QED
    BY <1>1, <1>3, <2>2
<1> QED
  BY <1>2, <1>4

LEMMA TalliedStep ==
    ASSUME IInv, IInv', OutcomeNamed, Ledger, PagesTallied, [Next]_vars
    PROVE  PagesTallied'
<1> SUFFICES ASSUME NEW s \in Scrapers, scrape'[s] # Nil
             PROVE  Tallied(scrape[s])'
  BY DEF PagesTallied
<1> DEFINE KR == Kind("requests")
           KB == Kind("blocked")
<1>0. /\ total \in Nat /\ blocked \in Nat
      /\ scrape \in [Scrapers -> Page \union {Nil}]
      /\ shown \in [Counters -> Nat]
      /\ KR \in SUBSET Counters /\ KB \in SUBSET Counters
      /\ IsFiniteSet(Units(shown, KR)) /\ IsFiniteSet(Units(shown, KB))
      /\ Sum(shown, KR) \in Nat /\ Sum(shown, KB) \in Nat
      /\ total <= Sum(shown, KR) + UnderWay
      /\ blocked <= Sum(shown, KB) + UnderWay
      /\ UnderWay \in Nat
  <2>1. IsFiniteSet(Units(shown, KR)) /\ IsFiniteSet(Units(shown, KB))
    BY DEF Ledger
  <2>2. Sum(shown, KR) \in Nat /\ Sum(shown, KB) \in Nat
    BY <2>1, FS_CardinalityType DEF Sum
  <2>3. /\ total = Sum(shown, KR) + Cardinality(OwingRequest)
        /\ blocked = Sum(shown, KB) + Cardinality(OwingBlocked)
    BY DEF Ledger
  <2>4. total \in Nat /\ blocked \in Nat /\ scrape \in [Scrapers -> Page \union {Nil}]
    BY DEF IInv, TypeOK
  <2>5. total <= Sum(shown, KR) + UnderWay /\ blocked <= Sum(shown, KB) + UnderWay
    BY <2>2, <2>3, SetsOfCalls
  <2> QED
    BY <2>1, <2>2, <2>4, <2>5, ShownType, SetsOfCalls DEF Kind
<1>1. /\ \A S \in SUBSET KR : /\ Sum(shown, S) \in Nat /\ Sum(shown', S) \in Nat
                              /\ Sum(shown, S) <= Sum(shown', S)
      /\ \A S \in SUBSET KB : /\ Sum(shown, S) \in Nat /\ Sum(shown', S) \in Nat
                              /\ Sum(shown, S) <= Sum(shown', S)
  BY SumsGrow
<1>2. \A p \in Page : Unread(p, "requests") \in SUBSET KR
                      /\ Unread(p, "blocked") \in SUBSET KB
  BY DEF Unread, Kind, Page
<1> HIDE DEF KR, KB
(* What is to be shown, with the new page p. *)
<1> DEFINE Goal(p) ==
      CASE p.step = "blocked" -> p.total <= Sum(shown', KR) + p.late
        [] p.step \in {"allowed", "lock"} ->
              /\ p.total <= Sum(shown', KR) + p.late
              /\ p.blocked <= Sum(shown', KB) + p.lateBlocked
        [] p.step = "tenants" ->
              /\ p.total <= p.requests + Sum(shown', Unread(p, "requests")) + p.late
              /\ p.blocked <= p.refused + Sum(shown', Unread(p, "blocked")) + p.lateBlocked
        [] OTHER ->
              /\ p.total <= p.requests + p.late
              /\ p.blocked <= p.refused + p.lateBlocked
<1>3. SUFFICES Goal(scrape'[s])
  BY DEF Tallied, KR, KB, Kind, Unread, Sum, Units
<1>4. ASSUME scrape'[s] = scrape[s] PROVE Goal(scrape'[s])
  <2>1. Tallied(scrape[s]) /\ scrape[s] \in Page
    BY <1>0, <1>4 DEF PagesTallied
  <2> DEFINE p == scrape[s]
  <2>2. /\ Sum(shown, KR) <= Sum(shown', KR) /\ Sum(shown, KB) <= Sum(shown', KB)
        /\ Sum(shown', KR) \in Nat /\ Sum(shown', KB) \in Nat
    BY <1>1
  <2>3. /\ Sum(shown, Unread(p, "requests")) \in Nat
        /\ Sum(shown', Unread(p, "requests")) \in Nat
        /\ Sum(shown, Unread(p, "requests")) <= Sum(shown', Unread(p, "requests"))
        /\ Sum(shown, Unread(p, "blocked")) \in Nat
        /\ Sum(shown', Unread(p, "blocked")) \in Nat
        /\ Sum(shown, Unread(p, "blocked")) <= Sum(shown', Unread(p, "blocked"))
    BY <1>1, <1>2, <2>1
  <2>4. /\ p.total \in Nat /\ p.blocked \in Nat /\ p.late \in Nat
        /\ p.lateBlocked \in Nat /\ p.requests \in Nat /\ p.refused \in Nat
    BY <2>1 DEF Page
  <2>5. CASE p.step = "blocked"
    BY <1>0, <1>4, <2>1, <2>2, <2>4, <2>5 DEF Tallied, KR, KB
  <2>6. CASE p.step \in {"allowed", "lock"}
    BY <1>0, <1>4, <2>1, <2>2, <2>4, <2>6 DEF Tallied, KR, KB
  <2>7. CASE p.step = "tenants"
    <3>1. /\ p.total <= p.requests + Sum(shown, Unread(p, "requests")) + p.late
          /\ p.blocked <= p.refused + Sum(shown, Unread(p, "blocked")) + p.lateBlocked
      BY <2>1, <2>7 DEF Tallied
    <3>2. /\ p.total <= p.requests + Sum(shown', Unread(p, "requests")) + p.late
          /\ p.blocked <= p.refused + Sum(shown', Unread(p, "blocked")) + p.lateBlocked
      BY <2>3, <2>4, <3>1
    <3> QED
      BY <1>4, <2>7, <3>2
  <2>8. CASE p.step \notin {"blocked", "allowed", "lock", "tenants"}
    BY <1>4, <2>1, <2>8 DEF Tallied
  <2> QED
    BY <2>5, <2>6, <2>7, <2>8
<1>5. ASSUME UNCHANGED recorded PROVE shown' = shown
  BY <1>5 DEF recorded, shown, Shown
<1>6. CASE ReadTotal(s)
  <2>1. shown' = shown
    BY <1>5, <1>6, ScrapesRead
  <2>2. /\ scrape'[s].step = "blocked" /\ scrape'[s].total = total
        /\ scrape'[s].late = UnderWay
    BY <1>0, <1>6 DEF ReadTotal
  <2> QED
    BY <1>0, <2>1, <2>2
<1>7. CASE ReadBlocked(s)
  <2>1. shown' = shown
    BY <1>5, <1>7, ScrapesRead
  <2>2. scrape[s] \in Page /\ scrape[s].step = "blocked" /\ Tallied(scrape[s])
    BY <1>0, <1>7 DEF ReadBlocked, Reading, PagesTallied
  <2>3. /\ scrape'[s].step = "allowed" /\ scrape'[s].total = scrape[s].total
        /\ scrape'[s].late = scrape[s].late
        /\ scrape'[s].blocked = blocked /\ scrape'[s].lateBlocked = UnderWay
    BY <1>0, <1>7, <2>2 DEF ReadBlocked, Page
  <2>4. scrape[s].total <= Sum(shown, KR) + scrape[s].late
    BY <2>2 DEF Tallied, KR
  <2> QED
    BY <1>0, <2>1, <2>3, <2>4
<1>8. CASE ReadAllowed(s)
  <2>1. shown' = shown
    BY <1>5, <1>8, ScrapesRead
  <2>2. scrape[s] \in Page /\ scrape[s].step = "allowed" /\ Tallied(scrape[s])
    BY <1>0, <1>8 DEF ReadAllowed, Reading, PagesTallied
  <2>3. /\ scrape'[s].step = "lock" /\ scrape'[s].total = scrape[s].total
        /\ scrape'[s].late = scrape[s].late
        /\ scrape'[s].blocked = scrape[s].blocked
        /\ scrape'[s].lateBlocked = scrape[s].lateBlocked
    BY <1>0, <1>8, <2>2 DEF ReadAllowed, Page
  <2>4. /\ scrape[s].total <= Sum(shown, KR) + scrape[s].late
        /\ scrape[s].blocked <= Sum(shown, KB) + scrape[s].lateBlocked
    BY <2>2 DEF Tallied, KR, KB
  <2> QED
    BY <2>1, <2>3, <2>4
<1>9. CASE LockTenants(s)
  <2> DEFINE p == scrape[s]
             q == scrape'[s]
  <2>1. shown' = shown
    BY <1>5, <1>9, ScrapesRead
  <2>2. p \in Page /\ p.step = "lock" /\ Tallied(p)
    BY <1>0, <1>9 DEF LockTenants, Reading, PagesTallied
  <2>3. /\ q.step = "tenants" /\ q.total = p.total /\ q.late = p.late
        /\ q.blocked = p.blocked /\ q.lateBlocked = p.lateBlocked
        /\ q.requests = p.requests /\ q.refused = p.refused
        /\ q.left = {n \in Counters : n[1] # "hits" /\ slot[n] # Nil}
    BY <1>0, <1>9, <2>2 DEF LockTenants, Page
  <2>4. /\ p.total <= Sum(shown, KR) + p.late
        /\ p.blocked <= Sum(shown, KB) + p.lateBlocked
    BY <2>2 DEF Tallied, KR, KB
  <2>5. /\ Unread(q, "requests") \in SUBSET KR /\ Unread(q, "blocked") \in SUBSET KB
        /\ \A n \in KR \ Unread(q, "requests") : shown[n] = 0
        /\ \A n \in KB \ Unread(q, "blocked") : shown[n] = 0
    BY <2>3 DEF Unread, KR, KB, Kind, shown, Shown
  <2>6. /\ Sum(shown, Unread(q, "requests")) = Sum(shown, KR)
        /\ Sum(shown, Unread(q, "blocked")) = Sum(shown, KB)
    BY <1>0, <2>5, UnitsFewer
  <2>7. /\ p.total \in Nat /\ p.blocked \in Nat /\ p.late \in Nat
        /\ p.lateBlocked \in Nat /\ p.requests \in Nat /\ p.refused \in Nat
    BY <2>2 DEF Page
  <2> HIDE DEF p, q
  <2>8. Goal(q)
    BY <1>0, <2>1, <2>3, <2>4, <2>6, <2>7
  <2> QED
    BY <2>8 DEF q
<1>10. ASSUME NEW n \in Counters, ReadTenant(s, n) PROVE Goal(scrape'[s])
  <2> DEFINE p == scrape[s]
             q == scrape'[s]
             UR == Unread(p, "requests")
             UB == Unread(p, "blocked")
  <2>1. shown' = shown
    BY <1>5, <1>10, ScrapesRead
  <2>2. p \in Page /\ p.step = "tenants" /\ Tallied(p) /\ n \in p.left
    BY <1>0, <1>10 DEF ReadTenant, Reading, PagesTallied
  <2>3. /\ q.step = "tenants" /\ q.total = p.total /\ q.late = p.late
        /\ q.blocked = p.blocked /\ q.lateBlocked = p.lateBlocked
        /\ q.left = p.left \ {n}
        /\ q.requests = p.requests + IF n[1] = "requests" THEN shown[n] ELSE 0
        /\ q.refused = p.refused + IF n[1] = "blocked" THEN shown[n] ELSE 0
    <3>1. q = Adding(p, n)
      BY <1>0, <1>10, <2>2 DEF ReadTenant
    <3>2. Shown(n) = shown[n]
      BY DEF shown
    <3> HIDE DEF q
    <3> QED
      BY <2>2, <3>1, <3>2 DEF Adding, Page
  <2>4. /\ p.total <= p.requests + Sum(shown, UR) + p.late
        /\ p.blocked <= p.refused + Sum(shown, UB) + p.lateBlocked
    BY <2>2 DEF Tallied
  <2>5. /\ Unread(q, "requests") = UR \ {n} /\ Unread(q, "blocked") = UB \ {n}
        /\ n[1] = "requests" <=> n \in UR
        /\ n[1] = "blocked" <=> n \in UB
    BY <2>2, <2>3 DEF Unread
  <2>6. /\ UR \in SUBSET KR /\ UB \in SUBSET KB
        /\ UR \in SUBSET Counters /\ UB \in SUBSET Counters
    BY <1>0, <1>2, <2>2
  <2>7. IsFiniteSet(Units(shown, UR)) /\ IsFiniteSet(Units(shown, UB))
    BY <1>0, <2>6, UnitsFewer
  <2>8. /\ p.total \in Nat /\ p.blocked \in Nat /\ p.late \in Nat
        /\ p.lateBlocked \in Nat /\ p.requests \in Nat /\ p.refused \in Nat
        /\ shown[n] \in Nat
    BY <1>0, <2>2 DEF Page
  <2>9. /\ UR \ {n} \in SUBSET KR /\ UB \ {n} \in SUBSET KB
    BY <2>6
  <2>10. /\ Sum(shown, UR \ {n}) \in Nat /\ Sum(shown, UB \ {n}) \in Nat
         /\ Sum(shown, UR) \in Nat /\ Sum(shown, UB) \in Nat
    BY <1>1, <2>6, <2>9
  <2> HIDE DEF p, q, UR, UB, shown
  <2>11. p.total <= q.requests + Sum(shown, UR \ {n}) + p.late
    <3>1. CASE n \in UR
      <4>1. Sum(shown, UR) = Sum(shown, UR \ {n}) + shown[n]
        BY <1>0, <2>6, <2>7, <3>1, UnitsWithout
      <4> QED
        BY <2>3, <2>4, <2>5, <2>8, <2>10, <3>1, <4>1
    <3>2. CASE n \notin UR
      <4>1. UR \ {n} = UR
        BY <3>2
      <4>2. q.requests = p.requests
        BY <2>3, <2>5, <2>8, <3>2
      <4> QED
        BY <2>4, <4>1, <4>2
    <3> QED
      BY <3>1, <3>2
  <2>12. p.blocked <= q.refused + Sum(shown, UB \ {n}) + p.lateBlocked
    <3>1. CASE n \in UB
      <4>1. Sum(shown, UB) = Sum(shown, UB \ {n}) + shown[n]
        BY <1>0, <2>6, <2>7, <3>1, UnitsWithout
      <4> QED
        BY <2>3, <2>4, <2>5, <2>8, <2>10, <3>1, <4>1
    <3>2. CASE n \notin UB
      <4>1. UB \ {n} = UB
        BY <3>2
      <4>2. q.refused = p.refused
        BY <2>3, <2>5, <2>8, <3>2
      <4> QED
        BY <2>4, <4>1, <4>2
    <3> QED
      BY <3>1, <3>2
  <2>13. Goal(q)
    BY <2>1, <2>3, <2>5, <2>11, <2>12
  <2> QED
    BY <2>13 DEF q
<1>11. CASE UnlockTenants(s)
  <2> DEFINE p == scrape[s]
             q == scrape'[s]
  <2>1. p \in Page /\ p.step = "tenants" /\ Tallied(p) /\ p.left = {}
    BY <1>0, <1>11 DEF UnlockTenants, Reading, PagesTallied
  <2>2. /\ q.step = "unlocked" /\ q.total = p.total /\ q.late = p.late
        /\ q.blocked = p.blocked /\ q.lateBlocked = p.lateBlocked
        /\ q.requests = p.requests /\ q.refused = p.refused
    BY <1>0, <1>11, <2>1 DEF UnlockTenants, Page
  <2>3. /\ Unread(p, "requests") = {} /\ Unread(p, "blocked") = {}
    BY <2>1 DEF Unread
  <2>4. Sum(shown, {}) = 0
    BY UnitsNone
  <2>5. /\ p.total <= p.requests + 0 + p.late
        /\ p.blocked <= p.refused + 0 + p.lateBlocked
    BY <2>1, <2>3, <2>4 DEF Tallied
  <2>6. /\ p.total \in Nat /\ p.blocked \in Nat /\ p.late \in Nat
        /\ p.lateBlocked \in Nat /\ p.requests \in Nat /\ p.refused \in Nat
    BY <2>1 DEF Page
  <2> HIDE DEF p, q
  <2>7. Goal(q)
    BY <2>2, <2>5, <2>6
  <2> QED
    BY <2>7 DEF q
<1>12. CASE LockRules(s)
  <2>1. scrape[s] \in Page /\ scrape[s].step = "unlocked" /\ Tallied(scrape[s])
    BY <1>0, <1>12 DEF LockRules, Reading, PagesTallied
  <2>2. /\ scrape'[s].step = "rules" /\ scrape'[s].total = scrape[s].total
        /\ scrape'[s].late = scrape[s].late
        /\ scrape'[s].blocked = scrape[s].blocked
        /\ scrape'[s].lateBlocked = scrape[s].lateBlocked
        /\ scrape'[s].requests = scrape[s].requests
        /\ scrape'[s].refused = scrape[s].refused
    BY <1>0, <1>12, <2>1 DEF LockRules, Page
  <2> QED
    BY <2>1, <2>2 DEF Tallied
<1>13. CASE EndPage(s)
  BY <1>0, <1>13 DEF EndPage
<1>14. ASSUME NEW p \in Scrapers \ {s},
              \/ ReadTotal(p) \/ ReadBlocked(p) \/ ReadAllowed(p)
              \/ LockTenants(p) \/ UnlockTenants(p)
              \/ \E n \in Counters : ReadTenant(p, n)
              \/ LockRules(p) \/ EndPage(p)
       PROVE  scrape'[s] = scrape[s]
  BY <1>14 DEF ReadTotal, ReadBlocked, ReadAllowed, LockTenants, UnlockTenants,
               ReadTenant, LockRules, EndPage, IInv, TypeOK
<1>15. ASSUME NEW r \in Recorders, Records(r) PROVE scrape'[s] = scrape[s]
  BY <1>15 DEF Records, Begin, BeginHit, CountOutcome, Look, Make, Add, KeepLatency
<1>16. CASE UNCHANGED vars
  BY <1>4, <1>16 DEF vars
<1> HIDE DEF Goal
<1> QED
  BY <1>4, <1>6, <1>7, <1>8, <1>9, <1>10, <1>11, <1>12, <1>13, <1>14, <1>15,
     <1>16 DEF Next, Records

LEMMA TallyInit == Init => OutcomeNamed /\ Ledger /\ PagesTallied
<1> SUFFICES ASSUME Init PROVE OutcomeNamed /\ Ledger /\ PagesTallied
  OBVIOUS
<1>1. \A k \in {"requests", "blocked"} :
         Units(shown, Kind(k)) = {} /\ Sum(shown, Kind(k)) = 0
  <2>1. \A n \in Counters : shown[n] = 0
    BY DEF Init, shown, Shown
  <2>2. \A k \in {"requests", "blocked"} : \A n \in Kind(k) : n \in Counters
    BY DEF Kind
  <2> QED
    BY <2>1, <2>2, ZeroUnits
<1>2. OwingRequest = {} /\ OwingBlocked = {}
  BY DEF Init, OwingRequest, OwingBlocked
<1>3. Ledger
  BY <1>1, <1>2, FS_EmptySet DEF Init, Ledger
<1> QED
  BY <1>3 DEF Init, OutcomeNamed, PagesTallied, At

LEMMA TallyHolds == Spec => []TallyInv
<1>1. Init => TallyInv
  BY InvInit, TallyInit DEF TallyInv
<1>2. TallyInv /\ [Next]_vars => TallyInv'
  BY InvStep, StepEffects, LedgerStep, TalliedStep DEF TallyInv
<1> QED
  BY <1>1, <1>2, PTL DEF Spec

(***************************************************************************)
(* Theorem.                                                                *)
(***************************************************************************)

(* On every page the tenants' counters account for the totals that were      *)
(* loaded before them, for any tenants and any number of scrapes and calls:  *)
(* each counter that comes into being or goes up while the page is read was  *)
(* owed by a call that the page counts as under way, or only adds to it.     *)
THEOREM TenantPagesAddUp == Spec => []TenantsAddUp
<1>1. PagesTallied => TenantsAddUp
  BY DEF PagesTallied, TenantsAddUp, Complete, Tallied
<1> QED
  BY <1>1, TallyHolds, PTL DEF TallyInv
=============================================================================
