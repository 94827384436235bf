-------------------------- MODULE RateLimiterProofs --------------------------
EXTENDS RateLimiter, TLAPS

(***************************************************************************)
(* Arithmetic of the refill.                                               *)
(***************************************************************************)

(* A refill adds nothing within an interval of the last one, and at least    *)
(* Rate tokens after it.                                                     *)
LEMMA RefillAmount ==
    ASSUME NEW b \in Bucket, now \in Nat, b.last <= now
    PROVE  /\ TokensToAdd(b) \in Nat
           /\ now - b.last < Interval => TokensToAdd(b) = 0
           /\ now - b.last >= Interval => TokensToAdd(b) >= Rate
<1> DEFINE q == (now - b.last) \div Interval
<1>1. b.last \in Nat /\ now - b.last \in Nat /\ Interval \in Nat \ {0} /\ Rate \in Nat
  BY RateAssumption DEF Bucket
<1>2. q \in Nat
  BY <1>1
<1>3. now - b.last < Interval => q = 0
  BY <1>1
<1>4. now - b.last >= Interval => q >= 1
  BY <1>1
<1>5. TokensToAdd(b) = q * Rate
  BY DEF TokensToAdd
<1> HIDE DEF q
<1>6. q * Rate \in Nat
  BY <1>1, <1>2
<1>7. q = 0 => q * Rate = 0
  BY <1>1
<1>8. q >= 1 => q * Rate >= Rate
  BY <1>1, <1>2
<1> QED
  BY <1>3, <1>4, <1>5, <1>6, <1>7, <1>8

(* A bucket is due when an interval has passed and there is something to add. *)
Due(b) == now - b.last >= Interval /\ Rate > 0

LEMMA RefillEffect ==
    ASSUME NEW b \in Bucket, now \in Nat, b.last <= now, b.tokens \in 0 .. Rate
    PROVE  /\ Due(b) <=> TokensToAdd(b) > 0
           /\ Due(b) => Refill(b) = FullBucket
           /\ ~Due(b) => Refill(b) = b
           /\ MinOf(b.tokens + TokensToAdd(b), Rate) = Refill(b).tokens
<1>1. /\ b.last \in Nat /\ b.tokens \in Nat /\ b.tokens <= Rate
      /\ Interval \in Nat \ {0} /\ Rate \in Nat
  BY RateAssumption DEF Bucket
<1>2. /\ TokensToAdd(b) \in Nat
      /\ now - b.last < Interval => TokensToAdd(b) = 0
      /\ now - b.last >= Interval => TokensToAdd(b) >= Rate
  BY RefillAmount
<1>3. Rate = 0 => TokensToAdd(b) = 0
  BY <1>1 DEF TokensToAdd, Bucket
<1>4. Due(b) <=> TokensToAdd(b) > 0
  BY <1>1, <1>2, <1>3 DEF Due
<1>5. TokensToAdd(b) > 0 => MinOf(b.tokens + TokensToAdd(b), Rate) = Rate
  BY <1>1, <1>2, <1>4 DEF Due, MinOf
<1>6. TokensToAdd(b) = 0 => MinOf(b.tokens + TokensToAdd(b), Rate) = b.tokens
  BY <1>1 DEF MinOf
<1>7. Due(b) => Refill(b) = FullBucket
  BY <1>4, <1>5 DEF Refill, FullBucket
<1>8. ~Due(b) => Refill(b) = b
  BY <1>4 DEF Refill
<1> QED
  BY <1>2, <1>4, <1>5, <1>6, <1>7, <1>8 DEF FullBucket

(* The intervals begun in d ticks: none in none, one at once, one more when   *)
(* another interval has passed, and Rate times as many requests.             *)
LEMMA BegunIntervals ==
    ASSUME NEW d \in Nat
    PROVE  /\ Begun(d) \in Nat
           /\ d = 0 => Begun(d) = 0
           /\ d > 0 => Begun(d) >= 1
           /\ \A e \in Nat : /\ e >= d => Begun(e) >= Begun(d)
                             /\ e >= d + Interval => Begun(e) >= Begun(d) + 1
<1> DEFINE I == Interval
           q == Begun(d)
<1>1. I \in Nat \ {0}
  BY RateAssumption
<1>2. \A n \in Nat : /\ n \div I \in Nat
                     /\ I * (n \div I) <= n /\ n < I * (n \div I + 1)
  BY <1>1
<1>3. q \in Nat /\ I * q <= d + I - 1 /\ d + I - 1 < I * (q + 1)
  <2>1. d + I - 1 \in Nat
    BY <1>1
  <2> HIDE DEF I
  <2> QED
    BY <1>2, <2>1 DEF Begun, I
<1> HIDE DEF I, q
(* A multiple of I that exceeds another does so by I at least. *)
<1>4. \A x, y \in Nat : I * x < I * (y + 1) => x <= y
  <2> SUFFICES ASSUME NEW x \in Nat, NEW y \in Nat, x >= y + 1
               PROVE  I * x >= I * (y + 1)
    BY <1>1
  <2>1. PICK z \in Nat : x = y + 1 + z
    <3>1. x - (y + 1) \in Nat /\ x = y + 1 + (x - (y + 1))
      OBVIOUS
    <3> QED
      BY <3>1
  <2>2. I * (y + 1 + z) = I * (y + 1) + I * z /\ I * z \in Nat /\ I * (y + 1) \in Nat
    BY <1>1
  <2> QED
    BY <2>1, <2>2
<1>5. d = 0 => q = 0
  <2> SUFFICES ASSUME d = 0 PROVE q <= 0
    BY <1>3
  <2>1. I * q <= I - 1 /\ I * (0 + 1) = I /\ I * q \in Nat
    BY <1>1, <1>3
  <2>2. I * q < I * (0 + 1)
    BY <1>1, <2>1
  <2> QED
    BY <1>3, <1>4, <2>2
<1>6. d > 0 => q >= 1
  <2> SUFFICES ASSUME d > 0, q = 0 PROVE FALSE
    BY <1>3
  <2>1. I * (0 + 1) = I
    BY <1>1
  <2> QED
    BY <1>1, <1>3, <2>1
<1>7. ASSUME NEW e \in Nat, e >= d
      PROVE  /\ Begun(e) >= q
             /\ e >= d + I => Begun(e) >= q + 1
  <2>1. e + I - 1 \in Nat
    BY <1>1
  <2>2. Begun(e) \in Nat /\ e + I - 1 < I * (Begun(e) + 1)
    BY <1>2, <2>1 DEF Begun, I
  <2>3. I * q \in Nat /\ I * (Begun(e) + 1) \in Nat /\ I * (q + 1) = I * q + I
    BY <1>1, <1>3, <2>2
  <2>4. I * q < I * (Begun(e) + 1)
    BY <1>1, <1>3, <1>7, <2>2, <2>3
  <2>5. ASSUME e >= d + I PROVE I * (q + 1) < I * (Begun(e) + 1)
    BY <1>1, <1>3, <2>2, <2>3, <2>5
  <2>6. e >= d + I => q + 1 <= Begun(e)
    BY <1>3, <1>4, <2>2, <2>5
  <2>7. q <= Begun(e)
    BY <1>3, <1>4, <2>2, <2>4
  <2> QED
    BY <1>3, <2>2, <2>6, <2>7
<1>8. /\ Begun(d) \in Nat
      /\ d = 0 => Begun(d) = 0
      /\ d > 0 => Begun(d) >= 1
  BY <1>3, <1>5, <1>6 DEF q
<1>9. \A e \in Nat : /\ e >= d => Begun(e) >= Begun(d)
                     /\ e >= d + Interval => Begun(e) >= Begun(d) + 1
  <2> SUFFICES ASSUME NEW e \in Nat
               PROVE  /\ e >= d => Begun(e) >= Begun(d)
                      /\ e >= d + Interval => Begun(e) >= Begun(d) + 1
    OBVIOUS
  <2>1. e >= d + Interval => e >= d
    BY <1>1 DEF I
  <2> QED
    BY <1>7, <2>1 DEF q, I
<1> QED
  BY <1>8, <1>9

LEMMA Multiples ==
    ASSUME NEW x \in Nat, NEW y \in Nat, x <= y
    PROVE  /\ Rate * x \in Nat /\ Rate * y \in Nat /\ Rate * x <= Rate * y
           /\ Rate * (1 + x) = Rate * x + Rate
           /\ Rate = 0 => Rate * x = 0
           /\ y >= 1 => Rate <= Rate * y
           /\ x = 0 => Rate * x = 0
<1>0. Rate \in Nat
  BY RateAssumption
<1>1. PICK z \in Nat : y = x + z
  <2>1. y - x \in Nat /\ y = x + (y - x)
    OBVIOUS
  <2> QED
    BY <2>1
<1>2. /\ Rate * (x + z) = Rate * x + Rate * z
      /\ Rate * x \in Nat /\ Rate * z \in Nat
      /\ Rate * (1 + x) = Rate * x + Rate
  BY <1>0
<1>3. y >= 1 => Rate <= Rate * y
  <2> SUFFICES ASSUME y >= 1 PROVE Rate <= Rate * y
    OBVIOUS
  <2>1. PICK w \in Nat : y = 1 + w
    <3>1. y - 1 \in Nat /\ y = 1 + (y - 1)
      OBVIOUS
    <3> QED
      BY <3>1
  <2>2. Rate * (1 + w) = Rate + Rate * w /\ Rate * w \in Nat
    BY <1>0
  <2> QED
    BY <1>0, <2>1, <2>2
<1> QED
  BY <1>0, <1>1, <1>2, <1>3

(***************************************************************************)
(* The inductive invariant.                                                *)
(***************************************************************************)

(* Tokens and admissions since the bucket was last full add up to Rate.      *)
Conserved(k) ==
    buckets[k] # Nil => /\ spent[k].since = buckets[k].last
                        /\ buckets[k].tokens + spent[k].n = Rate

(* Since the observer of k began to count, the bucket either has not been     *)
(* renewed, and what was admitted came out of its tokens, or was renewed for *)
(* the last time when Rate per interval begun until then, and Rate more, had *)
(* been allowed.  Without a bucket a last interval must have passed.  A       *)
(* bucket not renewed since and admitted from was not due at the beginning.  *)
Allowance(k, t) == Rate * (1 + Begun(t - window[k].start))

Observed(k) ==
    window[k] # Nil =>
      /\ window[k].start <= now
      /\ buckets[k] = Nil =>
           window[k].count <= Rate * Begun(now - window[k].start)
      /\ buckets[k] # Nil /\ buckets[k].last <= window[k].start =>
           /\ window[k].count + buckets[k].tokens <= Rate
           /\ window[k].count > 0 =>
                 window[k].start - buckets[k].last < Interval
      /\ buckets[k] # Nil /\ buckets[k].last > window[k].start =>
           window[k].count + buckets[k].tokens <= Allowance(k, buckets[k].last)

IInv == TypeOK /\ \A k \in Keys : Conserved(k) /\ Observed(k)

LEMMA InvInit == Init => IInv
<1> SUFFICES ASSUME Init PROVE IInv
  OBVIOUS
<1>1. Unspent \in [n : 0 .. Rate, since : 0 .. now]
  BY RateAssumption DEF Init, Unspent
<1> QED
  BY <1>1 DEF Init, IInv, TypeOK, Conserved, Observed

(* The bucket a call of Allow works on, and what was spent from it.          *)
LEMMA CurrentType ==
    ASSUME IInv, NEW k \in Keys
    PROVE  /\ Current(k) \in Bucket
           /\ Current(k).tokens \in 0 .. Rate
           /\ Current(k).last <= now
           /\ Since(k) \in [n : 0 .. Rate, since : 0 .. now]
           /\ Since(k).since = Current(k).last
           /\ Current(k).tokens + Since(k).n = Rate
           /\ Current(k).tokens = Remaining(k)
           /\ \/ Current(k) = FullBucket /\ (buckets[k] = Nil \/ Due(buckets[k]))
              \/ Current(k) = buckets[k] /\ buckets[k] # Nil /\ ~Due(buckets[k])
<1>0. now \in Nat /\ Rate \in Nat /\ Interval \in Nat \ {0}
  BY RateAssumption DEF IInv, TypeOK
<1>1. /\ FullBucket \in Bucket /\ FullBucket.tokens = Rate /\ FullBucket.last = now
      /\ Unspent \in [n : 0 .. Rate, since : 0 .. now]
      /\ Unspent.n = 0 /\ Unspent.since = now
  BY <1>0 DEF FullBucket, Unspent, Bucket
<1>2. CASE buckets[k] = Nil
  <2>1. ~Due(FullBucket)
    BY <1>0, <1>1 DEF Due
  <2>2. Refill(FullBucket) = FullBucket
    BY <1>0, <1>1, <2>1, RefillEffect
  <2> QED
    BY <1>0, <1>1, <1>2, <2>2 DEF Current, Since, Remaining
<1>3. CASE buckets[k] # Nil
  <2>1. /\ buckets[k] \in Bucket /\ buckets[k].tokens \in 0 .. Rate
        /\ buckets[k].last <= now
    BY <1>3 DEF IInv, TypeOK
  <2>2. /\ Current(k) = Refill(buckets[k])
        /\ Remaining(k) = Refill(buckets[k]).tokens
        /\ Due(buckets[k]) <=> TokensToAdd(buckets[k]) > 0
        /\ Due(buckets[k]) => Refill(buckets[k]) = FullBucket
        /\ ~Due(buckets[k]) => Refill(buckets[k]) = buckets[k]
    BY <1>0, <1>3, <2>1, RefillEffect DEF Current, Remaining
  <2>3. CASE Due(buckets[k])
    BY <1>0, <1>1, <1>3, <2>2, <2>3 DEF Since
  <2>4. CASE ~Due(buckets[k])
    BY <1>0, <1>3, <2>1, <2>2, <2>4 DEF Since, IInv, TypeOK, Conserved
  <2> QED
    BY <2>3, <2>4
<1> QED
  BY <1>2, <1>3

(***************************************************************************)
(* Every step preserves the invariant.                                     *)
(***************************************************************************)

(* What Observed says of a window, when the counters are given by name.      *)
LEMMA Observation ==
    ASSUME IInv, NEW k \in Keys, window[k] # Nil
    PROVE  /\ now \in Nat /\ Rate \in Nat /\ Interval \in Nat \ {0}
           /\ window[k].start \in Nat /\ window[k].count \in Nat
           /\ window[k].start <= now
           /\ Begun(now - window[k].start) \in Nat
           /\ Rate * Begun(now - window[k].start) \in Nat
           /\ now > window[k].start => Rate <= Rate * Begun(now - window[k].start)
           /\ Allowance(k, now) = Rate * Begun(now - window[k].start) + Rate
           /\ buckets[k] # Nil =>
                 /\ buckets[k].last \in Nat /\ buckets[k].tokens \in 0 .. Rate
                 /\ buckets[k].last <= now
                 /\ buckets[k].last > window[k].start =>
                       /\ Allowance(k, buckets[k].last) \in Nat
                       /\ Allowance(k, buckets[k].last) <= Allowance(k, now)
                       /\ now - buckets[k].last >= Interval =>
                             Allowance(k, buckets[k].last)
                               <= Rate * Begun(now - window[k].start)
<1>1. /\ now \in Nat /\ Rate \in Nat /\ Interval \in Nat \ {0}
      /\ window[k].start \in Nat /\ window[k].count \in Nat
      /\ window[k].start <= now
  BY RateAssumption DEF IInv, TypeOK, Window, Observed
<1> DEFINE c == Begun(now - window[k].start)
<1>2. c \in Nat /\ (now > window[k].start => c >= 1)
  <2>1. now - window[k].start \in Nat
    BY <1>1
  <2> QED
    BY <1>1, <2>1, BegunIntervals
<1>3. /\ Rate * c \in Nat /\ (c >= 1 => Rate <= Rate * c)
      /\ Rate * (1 + c) = Rate * c + Rate
  BY <1>2, Multiples
<1>4. ASSUME buckets[k] # Nil
      PROVE  /\ buckets[k].last \in Nat /\ buckets[k].tokens \in 0 .. Rate
             /\ buckets[k].last <= now
  BY <1>4 DEF IInv, TypeOK, Bucket
<1>5. ASSUME buckets[k] # Nil, buckets[k].last > window[k].start
      PROVE  /\ Allowance(k, buckets[k].last) \in Nat
             /\ Allowance(k, buckets[k].last) <= Allowance(k, now)
             /\ now - buckets[k].last >= Interval =>
                   Allowance(k, buckets[k].last) <= Rate * c
  <2> DEFINE d == buckets[k].last - window[k].start
             e == now - window[k].start
  <2>1. d \in Nat /\ e \in Nat /\ e >= d
        /\ (now - buckets[k].last >= Interval => e >= d + Interval)
    BY <1>1, <1>4, <1>5
  <2> HIDE DEF d, e
  <2>2. Begun(d) \in Nat /\ Begun(e) \in Nat /\ Begun(d) <= Begun(e)
        /\ (e >= d + Interval => 1 + Begun(d) <= Begun(e))
    BY <2>1, BegunIntervals
  <2>3. /\ Rate * (1 + Begun(d)) \in Nat
        /\ Rate * (1 + Begun(d)) <= Rate * (1 + Begun(e))
    <3>1. 1 + Begun(d) \in Nat /\ 1 + Begun(e) \in Nat /\ 1 + Begun(d) <= 1 + Begun(e)
      BY <2>2
    <3> QED
      BY <3>1, Multiples
  <2>4. e >= d + Interval => Rate * (1 + Begun(d)) <= Rate * Begun(e)
    <3>1. 1 + Begun(d) \in Nat
      BY <2>2
    <3> QED
      BY <2>2, <3>1, Multiples
  <2> QED
    BY <2>1, <2>3, <2>4 DEF Allowance, d, e
<1> QED
  BY <1>1, <1>2, <1>3, <1>4, <1>5 DEF Allowance

(* An admission keeps what Observed says: Admit takes one token and, when    *)
(* the observer counts, counts one request.                                  *)
LEMMA AdmitObserved ==
    ASSUME IInv, NEW k \in Keys, Admit(k)
    PROVE  Observed(k)'
<1>0. now \in Nat /\ Rate \in Nat /\ Interval \in Nat \ {0} /\ now' = now
  BY RateAssumption DEF IInv, TypeOK, Admit
<1>1. /\ Current(k).tokens \in 0 .. Rate /\ Current(k).tokens > 0
      /\ Current(k).last \in Nat /\ Current(k).last <= now
  BY CurrentType DEF Admit, Bucket
<1>2. /\ buckets'[k] # Nil
      /\ buckets'[k].tokens = Current(k).tokens - 1
      /\ buckets'[k].last = Current(k).last
  <2>1. [tokens |-> Current(k).tokens - 1, last |-> Current(k).last] \in Bucket
    BY <1>1 DEF Bucket
  <2> QED
    BY <2>1, NilAssumption DEF Admit, IInv, TypeOK
<1>3. CASE window[k] = Nil
  BY <1>3 DEF Admit, Observed
<1>4. CASE window[k] # Nil
  <2> DEFINE w == window[k]
             c == Rate * Begun(now - window[k].start)
  <2>1. /\ w.start \in Nat /\ w.count \in Nat /\ w.start <= now
        /\ c \in Nat /\ (now > w.start => Rate <= c)
        /\ Allowance(k, now) = c + Rate
    BY <1>4, Observation
  <2>2. window'[k] = [start |-> w.start, count |-> w.count + 1]
    BY <1>4 DEF Admit, IInv, TypeOK
  <2>3. \A t : Allowance(k, t)' = Allowance(k, t)
    BY <2>2 DEF Allowance
  (* What is to be shown of a renewed bucket, and of one that was not due.   *)
  <2>4. ASSUME Current(k) = FullBucket,
               w.count <= c, now = w.start => w.count = 0
        PROVE  Observed(k)'
    <3>1. Current(k).tokens = Rate /\ Current(k).last = now
      BY <2>4 DEF FullBucket
    <3>2. CASE now = w.start
      BY <1>0, <1>1, <1>2, <2>1, <2>2, <2>4, <3>1, <3>2 DEF Observed
    <3>3. CASE now > w.start
      <4>1. /\ w.count + 1 + (Rate - 1) <= Allowance(k, now)
            /\ Allowance(k, buckets[k].last)' = Allowance(k, now)
        <5>1. buckets'[k].last = now
          BY <1>2, <3>1
        <5>2. Allowance(k, buckets[k].last)' = Allowance(k, now)
          BY <2>2, <5>1 DEF Allowance
        <5> QED
          BY <1>0, <2>1, <2>4, <5>2
      <4> QED
        BY <1>0, <1>1, <1>2, <2>1, <2>2, <3>1, <3>3, <4>1 DEF Observed
    <3> QED
      BY <1>0, <2>1, <3>2, <3>3
  <2>5. CASE buckets[k] = Nil
    <3>1. Current(k) = FullBucket /\ w.count <= c
      BY <1>4, <2>5, CurrentType DEF IInv, Observed
    <3>2. now = w.start => w.count = 0
      <4>1. now = w.start => c = 0
        <5>1. now = w.start => Begun(now - w.start) = 0
          BY <1>0, BegunIntervals
        <5> QED
          BY <1>0, <5>1
      <4> QED
        BY <2>1, <3>1, <4>1
    <3> QED
      BY <2>4, <3>1, <3>2
  <2>6. CASE buckets[k] # Nil /\ ~Due(buckets[k])
    <3>1. Current(k) = buckets[k] /\ now - buckets[k].last < Interval
      BY <1>0, <1>1, <2>6, CurrentType DEF Due
    <3>2. CASE buckets[k].last <= w.start
      BY <1>0, <1>1, <1>2, <1>4, <2>1, <2>2, <2>6, <3>1, <3>2 DEF Observed, IInv
    <3>3. CASE buckets[k].last > w.start
      <4>1. w.count + buckets[k].tokens <= Allowance(k, buckets[k].last)
        BY <1>4, <2>6, <3>3 DEF Observed, IInv
      <4>2. Allowance(k, buckets[k].last)' = Allowance(k, buckets[k].last)
        BY <1>2, <2>2, <3>1 DEF Allowance
      <4>3. w.count + 1 + (buckets[k].tokens - 1) = w.count + buckets[k].tokens
        BY <1>1, <2>1, <3>1
      <4> QED
        BY <1>0, <1>1, <1>2, <2>1, <2>2, <3>1, <3>3, <4>1, <4>2, <4>3 DEF Observed
    <3> QED
      BY <1>0, <1>1, <2>1, <3>1, <3>2, <3>3
  <2>7. CASE buckets[k] # Nil /\ Due(buckets[k])
    <3>1. Current(k) = FullBucket /\ now - buckets[k].last >= Interval
      BY <2>7, CurrentType DEF Due
    <3>2. buckets[k].last \in Nat /\ buckets[k].tokens \in 0 .. Rate
      BY <1>4, <2>7, Observation
    <3>3. CASE buckets[k].last <= w.start
      <4>1. /\ w.count + buckets[k].tokens <= Rate
            /\ w.count > 0 => w.start - buckets[k].last < Interval
        BY <1>4, <2>7, <3>3 DEF IInv, Observed
      <4>2. w.count <= c /\ (now = w.start => w.count = 0)
        BY <1>0, <2>1, <3>1, <3>2, <4>1
      <4> QED
        BY <2>4, <3>1, <4>2
    <3>4. CASE buckets[k].last > w.start
      <4>1. w.count + buckets[k].tokens <= Allowance(k, buckets[k].last)
        BY <1>4, <2>7, <3>4 DEF IInv, Observed
      <4>2. Allowance(k, buckets[k].last) \in Nat /\ Allowance(k, buckets[k].last) <= c
        BY <1>4, <2>7, <3>1, <3>4, Observation
      <4>3. w.count <= c /\ now # w.start
        BY <1>0, <2>1, <3>1, <3>2, <3>4, <4>1, <4>2
      <4> QED
        BY <2>4, <3>1, <4>3
    <3> QED
      BY <2>1, <3>2, <3>3, <3>4
  <2> QED
    BY <2>5, <2>6, <2>7
<1> QED
  BY <1>3, <1>4

LEMMA AdmitStep ==
    ASSUME IInv, NEW k \in Keys, Admit(k)
    PROVE  IInv'
<1>0. now \in Nat /\ Rate \in Nat /\ Interval \in Nat \ {0} /\ now' = now
  BY RateAssumption DEF IInv, TypeOK, Admit
<1>1. /\ Current(k).tokens \in 0 .. Rate /\ Current(k).tokens > 0
      /\ Current(k).last \in Nat /\ Current(k).last <= now
      /\ Since(k).n \in 0 .. Rate /\ Since(k).since = Current(k).last
      /\ Current(k).tokens + Since(k).n = Rate
  BY CurrentType DEF Admit, Bucket
<1>2. /\ buckets'[k] = [tokens |-> Current(k).tokens - 1, last |-> Current(k).last]
      /\ spent'[k] = [n |-> Since(k).n + 1, since |-> Since(k).since]
      /\ \A j \in Keys \ {k} : /\ buckets'[j] = buckets[j] /\ spent'[j] = spent[j]
                               /\ window'[j] = window[j]
  BY DEF Admit, IInv, TypeOK
<1>3. TypeOK'
  <2>1. buckets' \in [Keys -> Bucket \union {Nil}]
    BY <1>0, <1>1 DEF Admit, IInv, TypeOK, Bucket
  <2>2. \A j \in Keys : buckets'[j] # Nil =>
            buckets'[j].tokens \in 0 .. Rate /\ buckets'[j].last <= now'
    BY <1>0, <1>1, <1>2 DEF IInv, TypeOK
  <2>3. spent' \in [Keys -> [n : 0 .. Rate, since : 0 .. now']]
    <3>1. [n |-> Since(k).n + 1, since |-> Since(k).since]
             \in [n : 0 .. Rate, since : 0 .. now]
      BY <1>0, <1>1
    <3> QED
      BY <1>0, <3>1 DEF Admit, IInv, TypeOK
  <2>4. window' \in [Keys -> Window \union {Nil}]
    BY DEF Admit, IInv, TypeOK, Window
  <2> QED
    BY <1>0, <2>1, <2>2, <2>3, <2>4 DEF TypeOK
<1>4. ASSUME NEW j \in Keys PROVE Conserved(j)' /\ Observed(j)'
  <2>1. CASE j = k
    <3>1. Conserved(k)'
      BY <1>0, <1>1, <1>2 DEF Conserved
    <3> QED
      BY <2>1, <3>1, AdmitObserved
  <2>2. CASE j # k
    BY <1>0, <1>2, <2>2 DEF IInv, Conserved, Observed, Allowance
  <2> QED
    BY <2>1, <2>2
<1> QED
  BY <1>3, <1>4 DEF IInv

(* A denial finds no token: it renews a bucket only when Rate is 0, and then *)
(* only by making one.                                                       *)
LEMMA DenyCases ==
    ASSUME IInv, NEW k \in Keys, Deny(k)
    PROVE  /\ Current(k).tokens = 0 /\ Since(k).n = Rate
           /\ \/ /\ Current(k) = buckets[k] /\ Since(k) = spent[k]
                 /\ buckets[k] # Nil /\ ~Due(buckets[k])
              \/ buckets[k] = Nil /\ Rate = 0 /\ Current(k) = FullBucket
<1>0. now \in Nat /\ Rate \in Nat /\ Interval \in Nat \ {0}
  BY RateAssumption DEF IInv, TypeOK
<1>1. Current(k).tokens = 0 /\ Since(k).n = Rate
  BY <1>0, CurrentType DEF Deny
<1>2. CASE Current(k) = FullBucket /\ (buckets[k] = Nil \/ Due(buckets[k]))
  BY <1>0, <1>1, <1>2 DEF FullBucket, Due
<1>3. CASE Current(k) = buckets[k] /\ buckets[k] # Nil /\ ~Due(buckets[k])
  <2>1. ~(TokensToAdd(buckets[k]) > 0)
    BY <1>0, <1>3, RefillEffect DEF IInv, TypeOK
  <2> QED
    BY <1>1, <1>3, <2>1 DEF Since
<1> QED
  BY <1>1, <1>2, <1>3, CurrentType

LEMMA DenyStep ==
    ASSUME IInv, NEW k \in Keys, Deny(k)
    PROVE  IInv'
<1>0. now \in Nat /\ Rate \in Nat /\ Interval \in Nat \ {0} /\ now' = now
  BY RateAssumption DEF IInv, TypeOK, Deny
<1>1. /\ Current(k) \in Bucket /\ Current(k).tokens = 0 /\ Current(k).last <= now
      /\ Since(k) \in [n : 0 .. Rate, since : 0 .. now]
      /\ Since(k).n = Rate /\ Since(k).since = Current(k).last
  BY CurrentType, DenyCases
<1>2. /\ buckets'[k] = Current(k) /\ spent'[k] = Since(k) /\ window' = window
      /\ \A j \in Keys \ {k} : buckets'[j] = buckets[j] /\ spent'[j] = spent[j]
  BY DEF Deny, IInv, TypeOK
<1>3. TypeOK'
  <2>1. \A j \in Keys : buckets'[j] # Nil =>
            buckets'[j].tokens \in 0 .. Rate /\ buckets'[j].last <= now'
    BY <1>0, <1>1, <1>2 DEF IInv, TypeOK
  <2> QED
    BY <1>0, <1>1, <2>1 DEF Deny, IInv, TypeOK
<1>4. ASSUME NEW j \in Keys PROVE Conserved(j)' /\ Observed(j)'
  <2>1. CASE j = k /\ buckets[k] # Nil
    BY <1>0, <1>2, <2>1, DenyCases DEF IInv, Conserved, Observed, Allowance
  <2>2. CASE j = k /\ buckets[k] = Nil
    <3>1. Rate = 0 /\ Current(k).last = now
      BY <2>2, DenyCases DEF FullBucket
    <3>2. Conserved(k)'
      BY <1>0, <1>1, <1>2, <3>1 DEF Conserved
    <3>3. Observed(k)'
      <4> SUFFICES ASSUME window[k] # Nil PROVE Observed(k)'
        BY <1>2 DEF Observed
      <4> DEFINE c == Rate * Begun(now - window[k].start)
      <4>1. /\ window[k].start \in Nat /\ window[k].count \in Nat
            /\ window[k].start <= now
            /\ Begun(now - window[k].start) \in Nat
            /\ Allowance(k, now) = c + Rate
        BY Observation
      <4>2. c = 0
        BY <3>1, <4>1, Multiples
      <4>3. window[k].count = 0
        BY <2>2, <4>1, <4>2 DEF IInv, Observed
      <4>4. Allowance(k, buckets[k].last)' = Allowance(k, now)
        BY <1>2, <3>1 DEF Allowance
      <4> QED
        BY <1>0, <1>1, <1>2, <3>1, <4>1, <4>2, <4>3, <4>4 DEF Observed
    <3> QED
      BY <2>2, <3>2, <3>3
  <2>3. CASE j # k
    BY <1>0, <1>2, <2>3 DEF IInv, Conserved, Observed, Allowance
  <2> QED
    BY <2>1, <2>2, <2>3
<1> QED
  BY <1>3, <1>4 DEF IInv

LEMMA ResetStep ==
    ASSUME IInv, NEW k \in Keys, Reset(k)
    PROVE  IInv'
<1>0. now \in Nat /\ Rate \in Nat /\ now' = now
  BY RateAssumption DEF IInv, TypeOK, Reset
<1>1. Unspent \in [n : 0 .. Rate, since : 0 .. now]
  BY <1>0 DEF Unspent
<1>2. TypeOK'
  BY <1>0, <1>1 DEF Reset, IInv, TypeOK
<1>3. ASSUME NEW j \in Keys PROVE Conserved(j)' /\ Observed(j)'
  BY <1>0 DEF Reset, IInv, TypeOK, Conserved, Observed, Allowance
<1> QED
  BY <1>2, <1>3 DEF IInv

(* A bucket that is cleaned up has no admission in a window still open: its  *)
(* last one was less than an interval after a refill over two intervals ago. *)
LEMMA CleanupStep ==
    ASSUME IInv, Cleanup
    PROVE  IInv'
<1>0. now \in Nat /\ Rate \in Nat /\ Interval \in Nat \ {0} /\ now' = now
  BY RateAssumption DEF IInv, TypeOK, Cleanup
<1>1. TypeOK'
  BY <1>0 DEF Cleanup, IInv, TypeOK
<1>2. ASSUME NEW k \in Keys PROVE Conserved(k)' /\ Observed(k)'
  <2>1. window'[k] = window[k] /\ spent'[k] = spent[k]
    BY DEF Cleanup
  <2>2. CASE buckets'[k] = buckets[k]
    BY <1>0, <1>2, <2>1, <2>2 DEF IInv, Conserved, Observed, Allowance
  <2>3. CASE buckets'[k] # buckets[k]
    <3>1. buckets'[k] = Nil /\ buckets[k] # Nil /\ Idle(buckets[k])
      BY <1>2, <2>3 DEF Cleanup
    <3>2. buckets[k].last \in Nat /\ now - buckets[k].last > 2 * Interval
      BY <3>1 DEF IInv, TypeOK, Bucket, Idle
    <3>3. ASSUME window[k] # Nil
          PROVE  window[k].count <= Rate * Begun(now - window[k].start)
      <4> DEFINE w == window[k]
                 c == Rate * Begun(now - window[k].start)
      <4>1. /\ w.start \in Nat /\ w.count \in Nat /\ w.start <= now /\ c \in Nat
            /\ (now > w.start => Rate <= c) /\ buckets[k].tokens \in 0 .. Rate
        BY <3>1, <3>3, Observation
      <4>2. CASE buckets[k].last <= w.start
        <5>1. /\ w.count + buckets[k].tokens <= Rate
              /\ w.count > 0 => w.start - buckets[k].last < Interval
          BY <3>1, <3>3, <4>2 DEF IInv, Observed
        <5> QED
          BY <1>0, <3>2, <4>1, <5>1
      <4>3. CASE buckets[k].last > w.start
        <5>1. w.count + buckets[k].tokens <= Allowance(k, buckets[k].last)
          BY <3>1, <3>3, <4>3 DEF IInv, Observed
        <5>2. Allowance(k, buckets[k].last) \in Nat
              /\ Allowance(k, buckets[k].last) <= c
          <6>1. now - buckets[k].last >= Interval
            BY <1>0, <3>2
          <6> QED
            BY <3>1, <3>3, <4>3, <6>1, Observation
        <5> QED
          BY <1>0, <4>1, <5>1, <5>2
      <4> QED
        BY <3>2, <4>1, <4>2, <4>3
    <3>4. window[k] # Nil => window[k].start <= now
      BY Observation
    <3>5. Observed(k)'
      BY <1>0, <2>1, <3>1, <3>3, <3>4 DEF Observed
    <3> QED
      BY <3>1, <3>5 DEF Conserved
  <2> QED
    BY <2>2, <2>3
<1> QED
  BY <1>1, <1>2 DEF IInv

LEMMA TickStep ==
    ASSUME IInv, Tick
    PROVE  IInv'
<1>0. now \in Nat /\ Rate \in Nat /\ Interval \in Nat \ {0} /\ now' = now + 1
  BY RateAssumption DEF IInv, TypeOK, Tick
<1>1. /\ \A k \in Keys : buckets[k] # Nil => buckets[k].last \in Nat
      /\ \A k \in Keys : window[k] # Nil => window[k].start \in Nat
  BY DEF IInv, TypeOK, Bucket, Window
<1>2. spent' \in [Keys -> [n : 0 .. Rate, since : 0 .. now']]
  <2>1. [n : 0 .. Rate, since : 0 .. now] \subseteq [n : 0 .. Rate, since : 0 .. now']
    BY <1>0
  <2> QED
    BY <2>1 DEF Tick, IInv, TypeOK
<1>3. TypeOK'
  BY <1>0, <1>1, <1>2 DEF Tick, IInv, TypeOK
<1>4. ASSUME NEW k \in Keys PROVE Conserved(k)' /\ Observed(k)'
  <2>1. Conserved(k)'
    BY <1>0 DEF Tick, IInv, Conserved
  <2>2. ASSUME window[k] # Nil
        PROVE  Rate * Begun(now - window[k].start)
                 <= Rate * Begun(now' - window[k].start)
    <3> DEFINE d == now - window[k].start
               e == now' - window[k].start
    <3>1. d \in Nat /\ e \in Nat /\ e >= d
      BY <1>0, <2>2, Observation
    <3> HIDE DEF d, e
    <3>2. Begun(d) \in Nat /\ Begun(e) \in Nat /\ Begun(d) <= Begun(e)
      BY <3>1, BegunIntervals
    <3>3. Rate * Begun(d) <= Rate * Begun(e)
      BY <3>2, Multiples
    <3> QED
      BY <3>3 DEF d, e
  <2>3. ASSUME window[k] # Nil, buckets[k] = Nil
        PROVE  window[k].count <= Rate * Begun(now' - window[k].start)
    <3>1. window[k].count <= Rate * Begun(now - window[k].start)
      BY <2>3 DEF IInv, Observed
    <3>2. /\ window[k].count \in Nat /\ Rate * Begun(now - window[k].start) \in Nat
          /\ Rate * Begun(now' - window[k].start) \in Int
      <4>1. now' - window[k].start \in Nat
        BY <1>0, <2>3, Observation
      <4>2. Begun(now' - window[k].start) \in Nat
        BY <4>1, BegunIntervals
      <4> QED
        BY <1>0, <2>3, <4>2, Observation
    <3> QED
      BY <2>2, <2>3, <3>1, <3>2
  <2>4. Observed(k)'
    BY <1>0, <1>1, <2>3 DEF Tick, IInv, Observed, Allowance
  <2> QED
    BY <2>1, <2>4
<1> QED
  BY <1>3, <1>4 DEF IInv

LEMMA ObserverStep ==
    ASSUME IInv, NEW k \in Keys, Open(k)
    PROVE  IInv'
<1>0. now \in Nat /\ Rate \in Nat /\ Interval \in Nat \ {0} /\ now' = now
  BY RateAssumption DEF IInv, TypeOK, Open
<1>1. buckets' = buckets /\ spent' = spent
  BY DEF Open
<1>2. TypeOK'
  BY <1>0, <1>1 DEF Open, IInv, TypeOK, Window
<1>3. ASSUME NEW j \in Keys PROVE Conserved(j)' /\ Observed(j)'
  <2>1. CASE window'[j] = window[j]
    BY <1>0, <1>1, <2>1 DEF IInv, Conserved, Observed, Allowance
  <2>2. CASE window'[j] = [start |-> now, count |-> 0]
    <3>1. buckets[j] # Nil => /\ buckets[j].last <= now
                              /\ buckets[j].tokens \in 0 .. Rate
                              /\ buckets[j].last \in Nat
      BY DEF IInv, TypeOK, Bucket
    <3>2. Begun(now - now) \in Nat /\ Rate * Begun(now - now) \in Nat
      <4>1. now - now \in Nat
        BY <1>0
      <4> QED
        BY <1>0, <4>1, BegunIntervals, Multiples
    <3> QED
      BY <1>0, <1>1, <2>2, <3>1, <3>2 DEF IInv, Conserved, Observed
  <2> QED
    BY <2>1, <2>2 DEF Open, IInv, TypeOK
<1> QED
  BY <1>2, <1>3 DEF IInv

LEMMA InvStep == IInv /\ [Next]_vars => IInv'
<1> SUFFICES ASSUME IInv, [Next]_vars PROVE IInv'
  OBVIOUS
<1>1. CASE UNCHANGED vars
  BY <1>1 DEF vars, IInv, TypeOK, Conserved, Observed, Allowance
<1> QED
  BY <1>1, AdmitStep, DenyStep, ResetStep, CleanupStep, TickStep, ObserverStep
  DEF Next

LEMMA Invariant == Spec => []IInv
  BY InvInit, InvStep, PTL DEF Spec

(* No sequence of calls and clock ticks drives a bucket below zero or above  *)
(* Rate, for every rate and interval.                                        *)
THEOREM TypeCorrect == Spec => []TypeOK
<1>1. IInv => TypeOK
  BY DEF IInv
<1> QED
  BY <1>1, Invariant, PTL

(* From whatever time one counts, a client gets no more than Rate requests    *)
(* for each interval begun since, and Rate more: a bound for all time, which *)
(* within one interval is 2 * Rate.                                          *)
THEOREM WindowAlwaysBounded == Spec => []WindowBound
<1>1. IInv => WindowBound
  <2> SUFFICES ASSUME IInv, NEW k \in Keys, window[k] # Nil
               PROVE  window[k].count <= Allowance(k, now)
    BY DEF WindowBound, Allowance
  <2> DEFINE c == Rate * Begun(now - window[k].start)
  <2>1. /\ window[k].count \in Nat /\ Rate \in Nat /\ c \in Nat
        /\ Allowance(k, now) = c + Rate
    BY Observation
  <2>2. CASE buckets[k] = Nil
    <3>1. window[k].count <= c
      BY <2>2 DEF IInv, Observed
    <3> QED
      BY <2>1, <3>1
  <2>3. CASE buckets[k] # Nil
    <3>1. /\ buckets[k].last \in Nat /\ buckets[k].tokens \in 0 .. Rate
          /\ window[k].start \in Nat
      BY <2>3, Observation
    <3>2. CASE buckets[k].last <= window[k].start
      <4>1. window[k].count + buckets[k].tokens <= Rate
        BY <2>3, <3>2 DEF IInv, Observed
      <4> QED
        BY <2>1, <3>1, <4>1
    <3>3. CASE buckets[k].last > window[k].start
      <4>1. window[k].count + buckets[k].tokens <= Allowance(k, buckets[k].last)
        BY <2>3, <3>3 DEF IInv, Observed
      <4>2. /\ Allowance(k, buckets[k].last) \in Nat
            /\ Allowance(k, buckets[k].last) <= Allowance(k, now)
        BY <2>3, <3>3, Observation
      <4> QED
        BY <2>1, <3>1, <4>1, <4>2
    <3> QED
      BY <3>1, <3>2, <3>3
  <2> QED
    BY <2>2, <2>3
<1> QED
  BY <1>1, Invariant, PTL

(* A client is denied only after Rate admissions in less than one interval.  *)
THEOREM NobodyDeniedEarly == Spec => NoFalseDenial
<1>1. ASSUME IInv, NEW k \in Keys, Deny(k), Rate > 0
      PROVE  spent[k].n = Rate /\ now - spent[k].since < Interval
  <2>0. now \in Nat /\ Rate \in Nat /\ Interval \in Nat \ {0}
    BY <1>1, RateAssumption DEF IInv, TypeOK
  <2>1. /\ Since(k).n = Rate /\ Since(k) = spent[k]
        /\ buckets[k] # Nil /\ ~Due(buckets[k])
    BY <1>1, <2>0, DenyCases
  <2>2. spent[k].since = buckets[k].last /\ buckets[k].last \in Nat
    BY <1>1, <2>1 DEF IInv, Conserved, TypeOK, Bucket
  <2> QED
    BY <1>1, <2>0, <2>1, <2>2 DEF Due
<1>2. IInv => [\A k \in Keys : Deny(k) /\ Rate > 0 =>
                 spent[k].n = Rate /\ now - spent[k].since < Interval]_vars
  BY <1>1
<1> QED
  BY <1>2, Invariant, PTL DEF NoFalseDenial

(* What a fresh or renewed bucket, or one that has just given a token away,  *)
(* reports next.                                                             *)
LEMMA RemainingAfter ==
    ASSUME IInv, NEW k \in Keys, NEW b \in Bucket, b.tokens \in 0 .. Rate,
           b.last <= now, ~Due(b), buckets'[k] = b, now' = now
    PROVE  Remaining(k)' = b.tokens
<1>0. now \in Nat
  BY DEF IInv, TypeOK
<1>1. MinOf(b.tokens + TokensToAdd(b), Rate) = b.tokens
  BY <1>0, RefillEffect
<1>2. b # Nil
  BY NilAssumption
<1>3. TokensToAdd(b)' = TokensToAdd(b)
  BY DEF TokensToAdd
<1> QED
  BY <1>1, <1>2, <1>3 DEF Remaining, TokensToAdd

(* GetRemaining reports exactly what Allow is going to grant.                *)
THEOREM RemainingIsGranted == Spec => RemainingAgrees
<1>1. ASSUME IInv, NEW k \in Keys, Admit(k)
      PROVE  Remaining(k) > 0 /\ Remaining(k)' = Remaining(k) - 1
  <2> DEFINE b == [tokens |-> Current(k).tokens - 1, last |-> Current(k).last]
  <2>0. /\ now \in Nat /\ Rate \in Nat /\ Interval \in Nat \ {0} /\ now' = now
        /\ Current(k).tokens \in 0 .. Rate /\ Current(k).tokens > 0
        /\ Current(k).last \in Nat /\ Current(k).last <= now
        /\ Current(k).tokens = Remaining(k)
    BY <1>1, RateAssumption, CurrentType DEF IInv, TypeOK, Admit, Bucket
  <2>1. b \in Bucket /\ b.tokens \in 0 .. Rate /\ b.last <= now
    BY <2>0 DEF Bucket
  <2>2. ~Due(b)
    BY <1>1, <2>0, CurrentType DEF Due, FullBucket
  <2>3. buckets'[k] = b
    BY <1>1 DEF Admit, IInv, TypeOK
  <2>4. Remaining(k)' = b.tokens
    BY <1>1, <2>0, <2>1, <2>2, <2>3, RemainingAfter
  <2> QED
    BY <2>0, <2>4
<1>2. ASSUME IInv, NEW k \in Keys, Deny(k) PROVE Remaining(k) = 0
  BY <1>2, DenyCases, CurrentType
<1>3. IInv => [\A k \in Keys : /\ Admit(k) => /\ Remaining(k) > 0
                                              /\ Remaining(k)' = Remaining(k) - 1
                               /\ Deny(k) => Remaining(k) = 0]_vars
  BY <1>1, <1>2
<1> QED
  BY <1>3, Invariant, PTL DEF RemainingAgrees

(* Removing the buckets that are idle for two intervals changes nothing a    *)
(* client can notice.                                                        *)
THEOREM CleanupNeverObserved == Spec => CleanupUnobservable
<1>1. ASSUME IInv, Cleanup, NEW k \in Keys PROVE Remaining(k)' = Remaining(k)
  <2>0. now \in Nat /\ Rate \in Nat /\ Interval \in Nat \ {0} /\ now' = now
    BY <1>1, RateAssumption DEF IInv, TypeOK, Cleanup
  <2>1. CASE buckets'[k] = buckets[k]
    BY <2>0, <2>1 DEF Remaining, TokensToAdd
  <2>2. CASE buckets'[k] # buckets[k]
    <3>1. buckets'[k] = Nil /\ buckets[k] # Nil /\ Idle(buckets[k])
      BY <1>1, <2>2 DEF Cleanup
    <3>2. /\ buckets[k] \in Bucket /\ buckets[k].tokens \in 0 .. Rate
          /\ buckets[k].last <= now /\ buckets[k].last \in Nat
      BY <1>1, <3>1 DEF IInv, TypeOK, Bucket
    <3>3. Rate > 0 => Due(buckets[k])
      BY <2>0, <3>1, <3>2 DEF Idle, Due
    <3>4. Refill(buckets[k]).tokens = Rate
      BY <2>0, <3>2, <3>3, RefillEffect DEF Due, FullBucket
    <3>5. Remaining(k) = Rate
      BY <2>0, <3>1, <3>2, <3>4, RefillEffect DEF Remaining
    <3> QED
      BY <3>1, <3>5 DEF Remaining
  <2> QED
    BY <2>1, <2>2
<1>2. IInv => [Cleanup => \A k \in Keys : Remaining(k)' = Remaining(k)]_vars
  BY <1>1
<1> QED
  BY <1>2, Invariant, PTL DEF CleanupUnobservable

(***************************************************************************)
(* The refinement.                                                         *)
(***************************************************************************)

(* A bucket is made or refilled for a request that it then lets through.     *)
InUse(k) == buckets[k] # Nil /\ Rate > 0 => buckets[k].tokens < Rate

PeriodInv == IInv /\ \A k \in Keys : InUse(k)

LEMMA InUseStep == PeriodInv /\ [Next]_vars => PeriodInv'
<1> SUFFICES ASSUME PeriodInv, [Next]_vars PROVE \A k \in Keys : InUse(k)'
  BY InvStep DEF PeriodInv
<1>0. Rate \in Nat /\ IInv /\ \A k \in Keys : InUse(k)
  BY RateAssumption DEF PeriodInv
<1>1. ASSUME NEW j \in Keys, Admit(j), NEW k \in Keys PROVE InUse(k)'
  <2>1. Current(j).tokens \in 0 .. Rate
    BY <1>0, CurrentType
  <2> QED
    BY <1>0, <1>1, <2>1 DEF Admit, InUse, IInv, TypeOK
<1>2. ASSUME NEW j \in Keys, Deny(j), NEW k \in Keys PROVE InUse(k)'
  BY <1>0, <1>2, DenyCases DEF Deny, InUse, IInv, TypeOK
<1>3. ASSUME NEW j \in Keys, Reset(j) \/ Open(j), NEW k \in Keys PROVE InUse(k)'
  BY <1>0, <1>3 DEF Reset, Open, InUse, IInv, TypeOK
<1>4. ASSUME Cleanup \/ Tick \/ UNCHANGED vars, NEW k \in Keys PROVE InUse(k)'
  BY <1>0, <1>4 DEF Cleanup, Tick, vars, InUse
<1> QED
  BY <1>1, <1>2, <1>3, <1>4 DEF Next

LEMMA PeriodInvariant == Spec => []PeriodInv
<1>1. Init => PeriodInv
  BY InvInit DEF Init, PeriodInv, InUse
<1> QED
  BY <1>1, InUseStep, PTL DEF Spec

periods == [k \in Keys |-> Period(buckets[k])]

LEMMA PeriodType ==
    ASSUME IInv, NEW k \in Keys
    PROVE  /\ Period(buckets[k]) \in OpenPeriod \union {Nil}
           /\ Period(buckets[k]) # Nil =>
                 /\ buckets[k] # Nil /\ buckets[k].tokens # Rate
                 /\ now - buckets[k].last < Interval
                 /\ Period(buckets[k]) = [start |-> buckets[k].last,
                                          used |-> Rate - buckets[k].tokens]
<1>1. now \in Nat /\ Rate \in Nat /\ Interval \in Nat
  BY RateAssumption DEF IInv, TypeOK
<1>2. buckets[k] # Nil => /\ buckets[k].last \in Nat /\ buckets[k].tokens \in 0 .. Rate
                          /\ Rate - buckets[k].tokens \in Nat
  BY <1>1 DEF IInv, TypeOK, Bucket
<1> QED
  BY <1>1, <1>2 DEF Period, OpenPeriod

LEMMA AdmitIsWindow ==
    ASSUME PeriodInv, NEW k \in Keys, Admit(k)
    PROVE  Windows!Begin(k) \/ Windows!Use(k)
<1>0. /\ now \in Nat /\ Rate \in Nat /\ Interval \in Nat \ {0} /\ now' = now
      /\ IInv /\ buckets \in [Keys -> Bucket \union {Nil}]
  BY RateAssumption DEF PeriodInv, IInv, TypeOK, Admit
<1>1. /\ Current(k).tokens \in 0 .. Rate /\ Current(k).tokens > 0 /\ Rate > 0
      /\ Current(k).last \in Nat /\ Current(k).last <= now
  BY <1>0, CurrentType DEF Admit, Bucket
<1> DEFINE b == [tokens |-> Current(k).tokens - 1, last |-> Current(k).last]
           p == [start |-> Current(k).last, used |-> Rate - (Current(k).tokens - 1)]
<1>2. b # Nil /\ b.tokens = Current(k).tokens - 1 /\ b.last = Current(k).last
  <2>1. b \in Bucket
    BY <1>1 DEF Bucket
  <2> QED
    BY <2>1, NilAssumption
<1>3. buckets'[k] = b /\ \A j \in Keys \ {k} : buckets'[j] = buckets[j]
  BY <1>0 DEF Admit
<1>4. now - Current(k).last < Interval
  BY <1>0, <1>1, CurrentType DEF FullBucket, Due
<1>5. Period(buckets[k])' = p
  <2>1. b.tokens # Rate /\ now - b.last < Interval
    BY <1>0, <1>1, <1>2, <1>4
  <2> QED
    BY <1>0, <1>1, <1>2, <1>3, <2>1 DEF Period
<1> HIDE DEF b, p
<1>6. periods' = [periods EXCEPT ![k] = p]
  BY <1>0, <1>3, <1>5 DEF periods, Period
<1>7. CASE Current(k) = FullBucket /\ (buckets[k] = Nil \/ Due(buckets[k]))
  <2>1. periods[k] = Nil
    BY <1>7 DEF periods, Period, Due
  <2>2. p = [start |-> now, used |-> 1]
    BY <1>0, <1>7 DEF p, FullBucket
  <2>3. Windows!Begin(k)
    BY <1>0, <1>1, <1>6, <2>1, <2>2 DEF Windows!Begin, periods
  <2> QED
    BY <2>3
<1>8. CASE Current(k) = buckets[k] /\ buckets[k] # Nil /\ ~Due(buckets[k])
  <2>1. buckets[k].tokens # Rate /\ now - buckets[k].last < Interval
    BY <1>0, <1>1, <1>4, <1>8 DEF PeriodInv, InUse
  <2>2. periods[k] = [start |-> buckets[k].last, used |-> Rate - buckets[k].tokens]
    BY <1>0, <1>1, <1>8, <2>1 DEF periods, Period
  <2>3. periods[k] # Nil
    BY <1>0, <1>1, <1>8, <2>2, NilAssumption DEF OpenPeriod
  <2>4. /\ periods[k].used < Rate /\ periods[k].start = Current(k).last
        /\ periods[k].used + 1 = Rate - (Current(k).tokens - 1)
    BY <1>0, <1>1, <1>8, <2>2
  <2>5. Windows!Use(k)
    BY <1>0, <1>6, <2>3, <2>4 DEF Windows!Use, periods, p
  <2> QED
    BY <2>5
<1> QED
  BY <1>0, <1>7, <1>8, CurrentType

LEMMA TickIsWindow == ASSUME PeriodInv, Tick PROVE Windows!Tick
<1>0. /\ now \in Nat /\ Rate \in Nat /\ Interval \in Nat \ {0} /\ now' = now + 1
      /\ IInv /\ buckets' = buckets
  BY RateAssumption DEF PeriodInv, IInv, TypeOK, Tick
<1>1. ASSUME NEW k \in Keys
      PROVE  Period(buckets[k])' = IF Windows!Over(k) THEN Nil ELSE periods[k]
  <2>1. periods[k] = Period(buckets[k])
    BY DEF periods
  <2>2. buckets[k] # Nil => buckets[k].last \in Nat
    BY <1>0 DEF IInv, TypeOK, Bucket
  <2>3. Windows!Over(k) <=> /\ periods[k] # Nil
                            /\ now + 1 - periods[k].start >= Interval
    BY DEF Windows!Over, periods
  <2>4. CASE periods[k] = Nil
    <3>1. buckets[k] = Nil \/ buckets[k].tokens = Rate \/ now - buckets[k].last >= Interval
      <4> SUFFICES ASSUME buckets[k] # Nil, buckets[k].tokens # Rate,
                          ~(now - buckets[k].last >= Interval)
                   PROVE  FALSE
        OBVIOUS
      <4>1. Period(buckets[k]) = [start |-> buckets[k].last,
                                  used |-> Rate - buckets[k].tokens]
        BY DEF Period
      <4>2. Rate - buckets[k].tokens \in Nat
        BY <1>0 DEF IInv, TypeOK
      <4>3. Period(buckets[k]) \in OpenPeriod
        BY <2>2, <4>1, <4>2 DEF OpenPeriod
      <4> QED
        BY <2>1, <2>4, <4>3, NilAssumption
    <3>2. Period(buckets[k])' = Nil
      BY <1>0, <2>2, <3>1 DEF Period
    <3> QED
      BY <2>4, <3>2
  <2>5. CASE periods[k] # Nil
    <3>1. /\ buckets[k] # Nil /\ buckets[k].tokens # Rate
          /\ periods[k] = [start |-> buckets[k].last,
                           used |-> Rate - buckets[k].tokens]
      BY <1>0, <2>1, <2>5, PeriodType
    <3>2. Period(buckets[k])' = IF now + 1 - buckets[k].last >= Interval THEN Nil
                                ELSE periods[k]
      BY <1>0, <2>2, <3>1 DEF Period
    <3> QED
      BY <2>3, <2>5, <3>1, <3>2
  <2> QED
    BY <2>4, <2>5
<1> QED
  BY <1>0, <1>1 DEF Windows!Tick, Windows!Over, periods

LEMMA WindowsStep == PeriodInv /\ [Next]_vars => [Windows!Next]_<<now, periods>>
<1> SUFFICES ASSUME PeriodInv, [Next]_vars
             PROVE  Windows!Next \/ UNCHANGED <<now, periods>>
  OBVIOUS
<1>0. /\ now \in Nat /\ Rate \in Nat /\ Interval \in Nat \ {0}
      /\ IInv /\ buckets \in [Keys -> Bucket \union {Nil}]
  BY RateAssumption DEF PeriodInv, IInv, TypeOK
<1>1. ASSUME NEW k \in Keys, Admit(k) PROVE Windows!Next
  BY <1>1, AdmitIsWindow DEF Windows!Next
<1>2. ASSUME NEW k \in Keys, Deny(k) PROVE UNCHANGED <<now, periods>>
  <2>1. now' = now /\ \A j \in Keys \ {k} : buckets'[j] = buckets[j]
    BY <1>0, <1>2 DEF Deny
  <2>2. buckets'[k] = Current(k)
    BY <1>0, <1>2 DEF Deny
  <2>3. Period(buckets[k])' = Period(buckets[k])
    BY <1>0, <1>2, <2>1, <2>2, DenyCases DEF Period, FullBucket
  <2> QED
    BY <2>1, <2>3 DEF periods, Period
<1>3. ASSUME NEW k \in Keys, Reset(k) PROVE Windows!Next
  <2>1. periods' = [periods EXCEPT ![k] = Nil] /\ now' = now
    BY <1>0, <1>3 DEF Reset, periods, Period
  <2>2. Windows!Forget(k)
    BY <2>1 DEF Windows!Forget, periods
  <2> QED
    BY <2>2 DEF Windows!Next
<1>4. CASE Cleanup
  <2>1. now' = now
    BY <1>4 DEF Cleanup
  <2>2. ASSUME NEW k \in Keys PROVE Period(buckets[k])' = Period(buckets[k])
    <3>1. CASE buckets'[k] = buckets[k]
      BY <2>1, <3>1 DEF Period
    <3>2. CASE buckets'[k] # buckets[k]
      <4>1. buckets'[k] = Nil /\ buckets[k] # Nil /\ Idle(buckets[k])
        BY <1>4, <3>2 DEF Cleanup
      <4>2. buckets[k].last \in Nat
        BY <1>0, <4>1 DEF Bucket
      <4>3. now - buckets[k].last >= Interval
        BY <1>0, <4>1, <4>2 DEF Idle
      <4> QED
        BY <4>1, <4>3 DEF Period
    <3> QED
      BY <3>1, <3>2
  <2> QED
    BY <2>1, <2>2 DEF periods
<1>5. CASE Tick
  BY <1>5, TickIsWindow DEF Windows!Next
<1>6. CASE (\E k \in Keys : Open(k)) \/ UNCHANGED vars
  BY <1>6 DEF Open, vars, periods, Period
<1> QED
  BY <1>1, <1>2, <1>3, <1>4, <1>5, <1>6 DEF Next

(* The token bucket is a fixed window: refilled in whole intervals, to the   *)
(* full, and for a request that uses it, it gives each client windows of one *)
(* interval that its first request opens, of Rate requests each.             *)
THEOREM BucketsAreWindows == Spec => ImplementsWindows
<1>1. Init => Windows!Init
  BY DEF Init, Windows!Init, Period
<1>2. PeriodInv /\ [Next]_vars => [Windows!Next]_<<now, [k \in Keys |-> Period(buckets[k])]>>
  BY WindowsStep DEF periods
<1> QED
  BY <1>1, <1>2, PeriodInvariant, PTL DEF Spec, ImplementsWindows, Windows!Spec
=============================================================================
