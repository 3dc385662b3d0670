------------------------------ MODULE RateLimit -----------------------------
(***************************************************************************)
(* The two-level token buckets of src/src/security/rate_limit.rs, as the   *)
(* listeners' threads ask them (AppState::check_rate_limit), while the     *)
(* hygiene loop prunes idle buckets and the memory governor clears all.    *)
(*                                                                         *)
(* One address and the identities behind it: another address shares no     *)
(* bucket with it.  Time is counted in ticks, tokens are whole.  A thread  *)
(* reads the clock once and then takes one lock after the other, so a time *)
(* is kept as how long ago it is.                                          *)
(***************************************************************************)
EXTENDS Naturals

CONSTANTS
    Identity,          \* the identities behind the address
    Checker,           \* the threads that check
    IdCap, IdRate,     \* identity_capacity, identity_refill
    IpCap, IpRate,     \* ip_ceiling_capacity, ip_ceiling_refill
    IdleTicks,         \* a bucket unused so long is pruned
    MaxLag,            \* bound: how old a reading of the clock gets
    MaxAge             \* bound: ages are counted up to here

\* The defaults (60 and 500 tokens, 20 and 200 a second, 60 s unused) are far from
\* the last two: a bucket that is pruned would have been full.
ASSUME RateAssumption ==
    /\ {IdCap, IdRate, IpCap, IpRate, IdleTicks, MaxLag, MaxAge} \subseteq Nat
    /\ "ip" \notin Identity
    /\ MaxLag <= MaxAge
    /\ IdCap <= IdleTicks * IdRate /\ IpCap <= IdleTicks * IpRate

Ip == "ip"
Bucket == Identity \cup {Ip}
Cap(b) == IF b = Ip THEN IpCap ELSE IdCap
Rate(b) == IF b = Ip THEN IpRate ELSE IdRate

VARIABLES
    bucket,      \* [tokens, age of last_refill], or Absent
    check,       \* what a thread is at: the identity it asks for, the age of its `now`
    sweep,       \* what prune_idle or clear has still to visit, the age of its `now`
    budget       \* history: a bucket that is never pruned and refills at every tick

rateVars == <<bucket, check, sweep, budget>>

Absent == [tokens |-> 0, age |-> MaxAge + 1]
NoCheck == [pc |-> "idle", who |-> Ip, late |-> 0]
NoSweep == [kind |-> "none", late |-> 0, left |-> {}]

\* The capacity, and what is refilled while a check is under way: a late check takes
\* its token from what there was when it read the clock.
Most(b) == Cap(b) + MaxLag * Rate(b)

RateInit ==
    /\ bucket = [b \in Bucket |-> Absent]
    /\ check = [t \in Checker |-> NoCheck]
    /\ sweep = NoSweep
    /\ budget = [b \in Bucket |-> Most(b)]

LesserOf(a, b) == IF a < b THEN a ELSE b

\* duration_since: a reading before the last one counts as no time.
Elapsed(age, late) == IF age > late THEN age - late ELSE 0

\* or_insert_with(TokenBucket::new): a new bucket is full, and of now.
Found(b) == IF bucket[b] = Absent THEN [tokens |-> Cap(b), age |-> 0] ELSE bucket[b]

Refilled(b, late) ==
    LesserOf(Found(b).tokens + Elapsed(Found(b).age, late) * Rate(b), Cap(b))

\* try_consume: the bucket's time becomes the caller's, though it be older; then the
\* time in between will be credited again, as the budget records.
TryConsume(b, late) ==
    LET granted == IF Refilled(b, late) >= 1 THEN 1 ELSE 0
        again == Elapsed(late, Found(b).age) * Rate(b)
    IN  /\ bucket' = [bucket EXCEPT ![b] = [tokens |-> Refilled(b, late) - granted, age |-> late]]
        /\ budget' = [budget EXCEPT ![b] = LesserOf(@ - granted + again, Most(b))]

---------------------------------------------------------------------------
\* Instant::now(), before any lock.
Enter(t, who) ==
    /\ check[t].pc = "idle"
    /\ check' = [check EXCEPT ![t] = [pc |-> "identity", who |-> who, late |-> 0]]
    /\ UNCHANGED <<bucket, sweep, budget>>

AskIdentity(t) ==
    /\ check[t].pc = "identity"
    /\ TryConsume(check[t].who, check[t].late)
    /\ check' = [check EXCEPT ![t] = IF Refilled(@.who, @.late) >= 1
                                       THEN [@ EXCEPT !.pc = "ceiling"] ELSE NoCheck]
    /\ UNCHANGED sweep

\* The identity's token is not given back when the ceiling denies.
AskCeiling(t) ==
    /\ check[t].pc = "ceiling"
    /\ TryConsume(Ip, check[t].late)
    /\ check' = [check EXCEPT ![t] = NoCheck]
    /\ UNCHANGED sweep

\* prune_idle and clear visit the identities' stripes, then the addresses'.
StartSweep(kind) ==
    /\ sweep = NoSweep
    /\ sweep' = [kind |-> kind, late |-> 0, left |-> Bucket]
    /\ UNCHANGED <<bucket, check, budget>>

Visit(b) ==
    /\ b \in sweep.left /\ (b = Ip => sweep.left = {Ip})
    /\ sweep' = IF b = Ip THEN NoSweep ELSE [sweep EXCEPT !.left = @ \ {b}]
    /\ UNCHANGED check

\* Mutant: a bucket goes as soon as it is unused for a tick.
Stale_Early(b) == Elapsed(bucket[b].age, sweep.late) >= 1
Stale(b) == Elapsed(bucket[b].age, sweep.late) >= IdleTicks

Prune(b) ==
    /\ sweep.kind = "prune" /\ Visit(b)
    /\ bucket' = [bucket EXCEPT ![b] = IF @ # Absent /\ Stale(b) THEN Absent ELSE @]
    /\ UNCHANGED budget

Clear(b) ==
    /\ sweep.kind = "clear" /\ Visit(b)
    /\ bucket' = [bucket EXCEPT ![b] = Absent]
    /\ budget' = [budget EXCEPT ![b] = Most(b)]

\* Time passes, unless a thread or a sweep has been under way for too long (a bound).
Second ==
    /\ \A t \in Checker : check[t].late < MaxLag
    /\ sweep.late < MaxLag
    /\ bucket' = [b \in Bucket |-> IF bucket[b].age < MaxAge
                                     THEN [bucket[b] EXCEPT !.age = @ + 1] ELSE bucket[b]]
    /\ check' = [t \in Checker |-> IF check[t].pc = "idle" THEN NoCheck
                                     ELSE [check[t] EXCEPT !.late = @ + 1]]
    /\ sweep' = IF sweep = NoSweep THEN NoSweep ELSE [sweep EXCEPT !.late = @ + 1]
    /\ budget' = [b \in Bucket |-> LesserOf(budget[b] + Rate(b), Most(b))]

RateNext ==
    \/ \E t \in Checker : AskIdentity(t) \/ AskCeiling(t) \/ \E who \in Identity : Enter(t, who)
    \/ \E kind \in {"prune", "clear"} : StartSweep(kind)
    \/ \E b \in Bucket : Prune(b) \/ Clear(b)
    \/ Second

RateSpec == RateInit /\ [][RateNext]_rateVars

---------------------------------------------------------------------------
(***************************************************************************)
(* No bucket ever has more to give than the burst and the time since       *)
(* justify, whatever was pruned in between and however the threads         *)
(* overlap: only time by which one thread's clock reading was behind       *)
(* another's is credited twice.                                            *)
(***************************************************************************)
BudgetHolds == \A b \in Bucket : Refilled(b, 0) <= budget[b]

RateTypeOK ==
    /\ \A b \in Bucket : bucket[b] # Absent => bucket[b].tokens <= Cap(b) /\ bucket[b].age <= MaxAge
    /\ \A t \in Checker : check[t].pc \in {"idle", "identity", "ceiling"} /\ check[t].late <= MaxLag
    /\ sweep.kind \in {"none", "prune", "clear"} /\ sweep.left \subseteq Bucket
    /\ \A b \in Bucket : budget[b] \in 0..Most(b)
=============================================================================
