----------------------------- MODULE RateLimit -----------------------------
(***************************************************************************)
(* internal/railwayq/ratelimit.go: a token bucket per identity, made on    *)
(* first use, dropped when idle, retuned when an app's spec changes.  One  *)
(* action is one critical section of Limiter.mu.                           *)
(*                                                                         *)
(* A rate r stands for r / Grain requests a minute and a minute is Minute  *)
(* ticks, so a bucket counts in units of 1 / Cost of a request and gains r *)
(* of them a tick.  The rate package refills when it is asked; here the    *)
(* buckets are refilled as time passes.                                    *)
(***************************************************************************)
EXTENDS Integers

CONSTANTS Identities,
          Rates,     \* the rates an identity may be given
          TopRate,   \* none is higher
          Grain,
          Minute,
          IdleTicks  \* StartEvictor's hour

Cost == Grain * Minute

OneAtLeast(n) == IF n < 1 THEN 1 ELSE n

\* int(perMin), at least 1, in units.
Burst(r) == OneAtLeast(r \div Grain) * Cost

\* The last conjunct holds for an hour and any rate of at least one an hour.
ASSUME RateAssumption ==
    /\ {Grain, Minute, TopRate} \subseteq Nat \ {0}
    /\ Rates \subseteq 1..TopRate
    /\ IdleTicks \in Nat \ {0}
    /\ IdleTicks * TopRate >= Burst(TopRate)

VARIABLES known,    \* the identities with an entry
          tokens,   \* rate.Limiter.tokens
          limit,    \* rate.Limiter.limit
          idle,     \* ticks since entry.lastSeen, at most IdleTicks
          budget    \* history: a bucket of the top rate that is never dropped

rateVars == <<known, tokens, limit, idle, budget>>

RateTypeOK ==
    /\ known \subseteq Identities
    /\ tokens \in [Identities -> Nat]
    /\ limit \in [Identities -> Rates \cup {0}]
    /\ idle \in [Identities -> 0..IdleTicks]
    /\ budget \in [Identities -> Int]

RateInit ==
    /\ known = {}
    /\ tokens = [i \in Identities |-> 0]
    /\ limit = [i \in Identities |-> 0]
    /\ idle = [i \in Identities |-> 0]
    /\ budget = [i \in Identities |-> Burst(TopRate)]
-----------------------------------------------------------------------------
AtMost(n, cap) == IF n > cap THEN cap ELSE n

\* What the bucket holds when it is asked: a new one is full, and SetBurst cuts
\* an old one down to the new burst.
Held(i, r) == IF i \in known THEN AtMost(tokens[i], Burst(r)) ELSE Burst(r)

\* Slip: a changed rate gets a new bucket.
AllowAtAnew(i, r) ==
    LET have == IF i \in known /\ limit[i] = r THEN tokens[i] ELSE Burst(r)
        spent == IF have >= Cost THEN Cost ELSE 0
    IN  /\ known' = known \cup {i}
        /\ tokens' = [tokens EXCEPT ![i] = have - spent]
        /\ limit' = [limit EXCEPT ![i] = r]
        /\ idle' = [idle EXCEPT ![i] = 0]
        /\ budget' = [budget EXCEPT ![i] = @ - spent]

\* AllowAt: a request is let through when the bucket holds one; a refused one
\* also counts as a sign of life.
AllowAt(i, r) ==
    LET have == Held(i, r)
        spent == IF have >= Cost THEN Cost ELSE 0
    IN  /\ known' = known \cup {i}
        /\ tokens' = [tokens EXCEPT ![i] = have - spent]
        /\ limit' = [limit EXCEPT ![i] = r]
        /\ idle' = [idle EXCEPT ![i] = 0]
        /\ budget' = [budget EXCEPT ![i] = @ - spent]

\* evictIdle, at a tick of StartEvictor.
evictIdle ==
    /\ \E i \in known : idle[i] >= IdleTicks
    /\ known' = {i \in known : idle[i] < IdleTicks}
    /\ UNCHANGED <<tokens, limit, idle, budget>>

\* Time passes: rate.Limiter.advance.
RateTick ==
    /\ tokens' = [i \in Identities |->
                     IF i \in known THEN AtMost(tokens[i] + limit[i], Burst(limit[i]))
                     ELSE tokens[i]]
    /\ idle' = [i \in Identities |-> AtMost(idle[i] + 1, IdleTicks)]
    /\ budget' = [i \in Identities |-> AtMost(budget[i] + TopRate, Burst(TopRate))]
    /\ UNCHANGED <<known, limit>>

RateNext ==
    \/ \E i \in Identities, r \in Rates : AllowAt(i, r)
    \/ evictIdle
    \/ RateTick

RateSpec == RateInit /\ [][RateNext]_rateVars
-----------------------------------------------------------------------------
(***************************************************************************)
(* Properties                                                              *)
(***************************************************************************)

\* An identity gets what its rate allows and no more: over any t ticks at most
\* the top rate's burst and t times its refill, although the bucket is dropped
\* when idle, made anew full, and retuned between any two calls (ratelimit.go:
\* "allowing perMin requests per identity per minute").
RateKept == \A i \in Identities : budget[i] >= 0

\* Why: a bucket never holds more than the budget, and the budget has refilled
\* by the time a bucket may be dropped.
BucketWithinBudget ==
    \A i \in Identities :
        /\ budget[i] <= Burst(TopRate)
        /\ i \in known => tokens[i] <= budget[i]
        /\ \/ budget[i] = Burst(TopRate)
           \/ i \in known /\ budget[i] >= idle[i] * TopRate

\* The inductive invariant.
RateIInv == RateTypeOK /\ RateKept /\ BucketWithinBudget
=============================================================================
