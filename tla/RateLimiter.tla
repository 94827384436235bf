----------------------------- MODULE RateLimiter -----------------------------
(***************************************************************************)
(* internal/ratelimit/ratelimit.go: one token bucket per client key, in    *)
(* the memory of the process, each call under the limiter's lock.          *)
(*                                                                         *)
(* Time passes in ticks; an action reads the clock once.  Two variables    *)
(* record what the properties are about and influence nothing: what a      *)
(* client has used since its bucket was last full, and an observer that    *)
(* counts the requests admitted since a time of its choice.                *)
(***************************************************************************)
EXTENDS Integers

CONSTANTS Keys,         \* client keys (IP addresses)
          Rate,         \* rl.rate: requests per interval
          Interval,     \* rl.interval, in ticks
          MaxNow,       \* bound: the clock stops there
          Nil

Bucket == [tokens : Int, last : Nat]
Window == [start : Nat, count : Nat]
OpenPeriod == [start : Nat, used : Nat]

ASSUME RateAssumption ==
    Rate \in Nat /\ Interval \in Nat \ {0} /\ MaxNow \in Nat

ASSUME NilAssumption ==
    Nil \notin Bucket /\ Nil \notin Window /\ Nil \notin OpenPeriod

VARIABLES now,          \* time.Now()
          buckets,      \* rl.buckets: Nil when there is no entry
          spent,        \* spent[k]: n admitted since the bucket was last full
          window        \* window[k]: what the observer of k has seen since it
                        \* last started to count, or Nil

(* Nothing admitted since now. *)
Unspent == [n |-> 0, since |-> now]

vars == <<now, buckets, spent, window>>

Init ==
    /\ now = 0
    /\ buckets = [k \in Keys |-> Nil]
    /\ spent = [k \in Keys |-> Unspent]
    /\ window = [k \in Keys |-> Nil]

-----------------------------------------------------------------------------
MinOf(a, b) == IF a < b THEN a ELSE b

FullBucket == [tokens |-> Rate, last |-> now]

(* Whole intervals that have passed since the last refill, Rate tokens each. *)
TokensToAdd(b) == ((now - b.last) \div Interval) * Rate

(* Fault: a refill does not move the time of the last refill. *)
RefillNotStamped(b) ==
    IF TokensToAdd(b) > 0
    THEN [tokens |-> MinOf(b.tokens + TokensToAdd(b), Rate), last |-> b.last]
    ELSE b

(* Fault: the refill is not capped at the rate. *)
RefillUncapped(b) ==
    IF TokensToAdd(b) > 0
    THEN [tokens |-> b.tokens + TokensToAdd(b), last |-> now]
    ELSE b

(* Fault: the time of the last refill moves even when nothing is added. *)
RefillAlwaysStamped(b) ==
    [tokens |-> MinOf(b.tokens + TokensToAdd(b), Rate), last |-> now]

(* Fault: the time of the last refill moves by whole intervals, not to now.  *)
RefillOnGrid(b) ==
    [tokens |-> MinOf(b.tokens + TokensToAdd(b), Rate),
     last |-> b.last + ((now - b.last) \div Interval) * Interval]

Refill(b) ==
    IF TokensToAdd(b) > 0
    THEN [tokens |-> MinOf(b.tokens + TokensToAdd(b), Rate), last |-> now]
    ELSE b

(* The bucket Allow finds or makes, after its refill. *)
Current(k) == Refill(IF buckets[k] = Nil THEN FullBucket ELSE buckets[k])

(* What was spent before this call of Allow, which may have made or refilled *)
(* the bucket.                                                               *)
Since(k) == IF buckets[k] = Nil \/ TokensToAdd(buckets[k]) > 0
            THEN Unspent ELSE spent[k]

(* Fault: what is left is computed without the refill that is due. *)
RemainingStored(k) == IF buckets[k] = Nil THEN Rate ELSE buckets[k].tokens

(* GetRemaining *)
Remaining(k) ==
    IF buckets[k] = Nil THEN Rate
    ELSE MinOf(buckets[k].tokens + TokensToAdd(buckets[k]), Rate)

-----------------------------------------------------------------------------
(* Allow returns true. *)
Admit(k) ==
    /\ Current(k).tokens > 0
    /\ buckets' = [buckets EXCEPT ![k] = [tokens |-> Current(k).tokens - 1,
                                          last |-> Current(k).last]]
    /\ spent' = [spent EXCEPT ![k] =
                    [n |-> Since(k).n + 1, since |-> Since(k).since]]
    /\ window' = IF window[k] # Nil
                 THEN [window EXCEPT ![k] = [start |-> window[k].start,
                                             count |-> window[k].count + 1]]
                 ELSE window
    /\ UNCHANGED now

(* Allow returns false. *)
Deny(k) ==
    /\ Current(k).tokens <= 0
    /\ buckets' = [buckets EXCEPT ![k] = Current(k)]
    /\ spent' = [spent EXCEPT ![k] = Since(k)]
    /\ UNCHANGED <<now, window>>

(* Reset forgets the client; its allowance starts anew, so does the observer. *)
Reset(k) ==
    /\ buckets' = [buckets EXCEPT ![k] = Nil]
    /\ spent' = [spent EXCEPT ![k] = Unspent]
    /\ window' = [window EXCEPT ![k] = Nil]
    /\ UNCHANGED now

(* Fault: a bucket is removed before its next refill is due. *)
CleanupEarly ==
    LET Old(b) == 2 * (now - b.last) >= Interval
    IN  /\ buckets' = [k \in Keys |-> IF buckets[k] # Nil /\ Old(buckets[k])
                                      THEN Nil ELSE buckets[k]]
        /\ UNCHANGED <<now, spent, window>>

Idle(b) == now - b.last > 2 * Interval

Cleanup ==
    /\ buckets' = [k \in Keys |-> IF buckets[k] # Nil /\ Idle(buckets[k])
                                  THEN Nil ELSE buckets[k]]
    /\ UNCHANGED <<now, spent, window>>

Tick ==
    /\ now < MaxNow
    /\ now' = now + 1
    /\ UNCHANGED <<buckets, spent, window>>

(* The observer starts to count, anew if it has counted before. *)
Open(k) ==
    /\ window' = [window EXCEPT ![k] = [start |-> now, count |-> 0]]
    /\ UNCHANGED <<now, buckets, spent>>

Next ==
    \/ \E k \in Keys : Admit(k) \/ Deny(k) \/ Reset(k) \/ Open(k)
    \/ Cleanup
    \/ Tick

Spec == Init /\ [][Next]_vars

-----------------------------------------------------------------------------
(* Every bucket holds between no token and Rate tokens, from the past. *)
TypeOK ==
    /\ now \in Nat
    /\ buckets \in [Keys -> Bucket \union {Nil}]
    /\ \A k \in Keys : buckets[k] # Nil =>
          buckets[k].tokens \in 0 .. Rate /\ buckets[k].last <= now
    /\ spent \in [Keys -> [n : 0 .. Rate, since : 0 .. now]]
    /\ window \in [Keys -> Window \union {Nil}]

(* The intervals that have begun in d ticks. *)
Begun(d) == (d + Interval - 1) \div Interval

(* From whatever time one counts, a client that is not reset gets at most     *)
(* Rate requests through for every interval that has begun since, and Rate   *)
(* more: a bucket spent just before its refill and again just after it, and  *)
(* no combination of refills and clean-ups yields more, however long.        *)
WindowBound ==
    \A k \in Keys : window[k] # Nil =>
        window[k].count <= Rate * (1 + Begun(now - window[k].start))

(* Nobody is denied early: a denied client has had its full Rate of requests *)
(* admitted since its bucket was last full, less than one interval ago.      *)
NoFalseDenial ==
    [][\A k \in Keys : Deny(k) /\ Rate > 0 =>
          spent[k].n = Rate /\ now - spent[k].since < Interval]_vars

(* GetRemaining and Allow, which compute the refill separately, agree: what  *)
(* GetRemaining reports is what Allow lets through, one token at a time.     *)
RemainingAgrees ==
    [][\A k \in Keys : /\ Admit(k) => /\ Remaining(k) > 0
                                      /\ Remaining(k)' = Remaining(k) - 1
                       /\ Deny(k) => Remaining(k) = 0]_vars

(* The periodic clean-up takes nothing from a client and grants it nothing.  *)
CleanupUnobservable ==
    [][Cleanup => \A k \in Keys : Remaining(k)' = Remaining(k)]_vars

(* For its clients the token bucket is a fixed window: it is refilled by     *)
(* whole intervals, and to the full, since the first request after a refill. *)
(* Clean-ups, denials and the buckets themselves do not show.                *)
Period(b) ==
    IF b = Nil \/ b.tokens = Rate \/ now - b.last >= Interval THEN Nil
    ELSE [start |-> b.last, used |-> Rate - b.tokens]

Windows == INSTANCE RateWindows WITH period <- [k \in Keys |-> Period(buckets[k])]

ImplementsWindows == Windows!Spec

(* "1000 requests per minute per IP": at most Rate requests in an interval.  *)
InWindow(k) == window[k] # Nil /\ now < window[k].start + Interval

AtMostRate == \A k \in Keys : InWindow(k) => window[k].count <= Rate
=============================================================================
