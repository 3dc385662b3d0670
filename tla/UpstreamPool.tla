---------------------------- MODULE UpstreamPool ----------------------------
(***************************************************************************)
(* The pool of upstream resolvers in src/dns/upstream.rs: which nodes are  *)
(* active, what is known of their health, and the ranked copy every query  *)
(* reads.                                                                  *)
(*                                                                         *)
(* Three kinds of actor change it at once.  A sync (at boot, from cron or  *)
(* from the API) fetches a feed, probes every candidate and installs the   *)
(* best PoolSize of them as new nodes.  The probe loop asks the active     *)
(* nodes, replaces degraded ones by candidates that answer, and ranks the  *)
(* pool again.  Queries and keep-alive pings record what they met on the   *)
(* nodes of the ranked copy.  Nodes are shared by reference (Arc), so a    *)
(* node may be in the pool, in an older ranked copy and in a task at once: *)
(* the heap and its identifiers stand for that.                            *)
(*                                                                         *)
(* Latencies are counted in ticks of 170 ms, so that the moving average    *)
(* takes few values and each threshold falls between two of them.  The     *)
(* order of the pool and of its ranked copy is left out: a choice that     *)
(* depends on it is nondeterministic.                                      *)
(***************************************************************************)
EXTENDS Naturals, FiniteSets, FiniteSetsExt

CONSTANTS
    Url,         \* the resolvers there are
    Builtin,     \* the candidates compiled in
    Default,     \* those of them that form the pool at start
    High,        \* the resolvers of high aura
    Medium,      \* ... of medium aura; the others are "low"
    PoolSize,    \* how many nodes the pool should hold (9)
    ErrorLimit,  \* how many errors degrade a node (3)
    Feeds,       \* the lists a feed may hold
    Syncer,      \* the callers of sync_and_rank that may overlap
    Speeds,      \* which of "dead", "slow", "fast" a resolver may be
    Gen,         \* tells nodes of one resolver apart that exist together
    MaxErrors,   \* bound: an error counter stays there
    MaxHealing,  \* bound: record_success calls stopped half-way
    MaxResets    \* bound: calls of reset_cb

ASSUME PoolAssumption ==
    /\ Default \subseteq Builtin /\ Builtin \subseteq Url
    /\ High \subseteq Url /\ Medium \subseteq Url
    /\ IsFiniteSet(Url) /\ PoolSize \in Nat \ {0}
    /\ Default # {} /\ Cardinality(Default) <= PoolSize
    /\ Speeds \subseteq {"dead", "slow", "fast"}
    /\ Feeds \subseteq (SUBSET Url) \ {{}} /\ ErrorLimit \in Nat \ {0}
    /\ MaxErrors \in Nat \ {0} /\ MaxHealing \in Nat /\ MaxResets \in Nat
    /\ "prober" \notin Syncer

\* There are four of them at least: nobody has more than three in use.
ASSUME GenAssumption == Gen # {} /\ \A x, y, z \in Gen : Gen \ {x, y, z} # {}

Prober == "prober"
Actor == Syncer \cup {Prober}
Node == Url \X Gen
FirstGen == CHOOSE g \in Gen : TRUE

VARIABLES
    speed,      \* the world: how each resolver answers now
    candidates, \* UpstreamPool.candidates
    heap,       \* what each node holds that anybody can still see
    pool,       \* UpstreamPool.upstreams
    ranked,     \* UpstreamPool.cached_ranked
    pc,         \* where each sync and the probe loop are
    answers,    \* per actor: what the candidates asked so far answered
    asked,      \* per actor: the candidates still to be asked
    copied,     \* per actor: the clone recompute_ranks sorts, under the lock
    todo,       \* the nodes the probe loop has not recorded yet
    active,     \* active_urls of demote_degraded_and_promote_best
    degraded,   \* degraded_info of apply_candidate_promotions
    next,       \* its new_active
    healing,    \* record_success calls between the load and the store of errors
    resets      \* how often reset_cb was called

world == <<speed, candidates, resets>>
loop == <<todo, active, degraded, next>>
vars == <<world, heap, pool, ranked, pc, answers, asked, copied, loop, healing>>

-----------------------------------------------------------------------------
(***************************************************************************)
(* One node.                                                               *)
(***************************************************************************)
Tick == 170      \* milliseconds
LostLatency == 59 \* 9999 ms, the latency of a probe without an answer
Unused == [errors |-> 0, latency |-> 0, odd |-> FALSE]

Ticks(answer) == CASE answer = "fast" -> 1 [] answer = "slow" -> 4
                   [] OTHER -> LostLatency

\* latency_ms after another measurement; 0 and 9999 stand for "none yet".
Average(old, measured) ==
    IF old \in {0, LostLatency} THEN measured ELSE (7 * old + 3 * measured + 5) \div 10

EffectiveLatency(n) == n.latency * Tick + Min({n.errors, 20}) * 50

IsDegraded(n) ==
    \/ n.errors >= ErrorLimit
    \/ n.latency * Tick >= 500
    \/ EffectiveLatency(n) >= 350

\* A node as sync_and_rank makes it after a probe, or as it is promoted.
Probed(answer) ==
    [errors |-> IF answer = "dead" THEN 1 ELSE 0,
     latency |-> Ticks(answer), odd |-> answer # "dead"]

AuraRank(u) == IF u \in High THEN 3 ELSE IF u \in Medium THEN 2 ELSE 1

\* The sort key of a probed candidate: who answered, higher aura, lower latency.
Worth(u, answer) ==
    (IF answer = "dead" THEN 0 ELSE 1000) + 100 * AuraRank(u) - Ticks(answer)

\* The sets the first k entries of the sorted list of answers may form.
BestOf(urls, k, answer) ==
    {T \in kSubset(Min({k, Cardinality(urls)}), urls) :
        \A t \in T, u \in urls \ T : Worth(t, answer[t]) >= Worth(u, answer[u])}

UrlsOf(nodes) == {i[1] : i \in nodes}

-----------------------------------------------------------------------------
(***************************************************************************)
(* The heap: an identifier is taken as long as somebody refers to it.      *)
(***************************************************************************)
Referred ==
    pool \cup ranked \cup todo \cup next \cup (UNION {copied[a] : a \in Actor})
         \cup {r.node : r \in healing}

FreshNode(u) == <<u, CHOOSE g \in Gen : <<u, g>> \notin Referred>>

\* Only the pool, or a list about to become it, lets anybody see what a node
\* holds: the rest of h, and the calls about to change it, are let go.  The
\* other variables are primed first.
Seen == pool \cup next
Dropped(h) ==
    /\ heap' = [i \in Node |-> IF i \in Seen' THEN h[i] ELSE Unused]
    /\ healing' = {r \in healing : r.node \in Seen'}

Allocated(nodes, answer) ==
    [i \in Node |-> IF i \in nodes THEN Probed(answer[i[1]]) ELSE heap[i]]

Degraded == {i \in pool : IsDegraded(heap[i])}

Unasked == [u \in Url |-> "none"]

Init ==
    /\ speed \in [Url -> Speeds]
    /\ candidates = Builtin /\ resets = 0
    /\ heap = [i \in Node |-> Unused]
    /\ pool = {<<u, FirstGen>> : u \in Default}
    /\ ranked = pool
    /\ pc = [a \in Actor |-> "idle"]
    /\ answers = [a \in Actor |-> Unasked]
    /\ asked = [a \in Actor |-> {}]
    /\ copied = [a \in Actor |-> {}]
    /\ todo = {} /\ active = {} /\ degraded = {} /\ next = {}
    /\ healing = {}

-----------------------------------------------------------------------------
(***************************************************************************)
(* The world.                                                              *)
(***************************************************************************)
SpeedChanges(u, s) ==
    /\ s # speed[u]
    /\ speed' = [speed EXCEPT ![u] = s]
    /\ UNCHANGED <<candidates, resets, heap, pool, ranked, pc, answers, asked, copied,
                   loop, healing>>

(***************************************************************************)
(* record_success and record_error.  Every second success loads the error  *)
(* counter and stores one less, and no lock is held: others may record in  *)
(* between.  The call may also run through undisturbed.                    *)
(***************************************************************************)
\* Mutant: record_success stores one less without the test for zero.
HealDue_Unchecked(i) == heap[i].odd

HealDue(i) == heap[i].odd /\ heap[i].errors > 0

Write(i, n) == heap' = IF i \in Seen THEN [heap EXCEPT ![i] = n] ELSE heap

Healed(n, errors, answer) ==
    [n EXCEPT !.errors = errors, !.latency = Average(n.latency, Ticks(answer))]

RecordSuccess(i, answer) ==
    LET counted == [heap[i] EXCEPT !.odd = ~heap[i].odd]
        errors == IF HealDue(i) THEN heap[i].errors - 1 ELSE heap[i].errors
    IN  \/ /\ Write(i, Healed(counted, errors, answer))
           /\ UNCHANGED healing
        \/ /\ HealDue(i) /\ Cardinality(healing) < MaxHealing
           /\ Write(i, counted)
           /\ healing' = healing \cup
                  {[node |-> i, loaded |-> heap[i].errors, answer |-> answer]}

RecordError(i) ==
    /\ Write(i, [heap[i] EXCEPT !.errors = Min({@ + 1, MaxErrors}), !.odd = FALSE])
    /\ UNCHANGED healing

Record(i) ==
    IF speed[i[1]] = "dead" THEN RecordError(i) ELSE RecordSuccess(i, speed[i[1]])

StoreHealed(r) ==
    /\ healing' = healing \ {r}
    /\ Write(r.node, Healed(heap[r.node], r.loaded - 1, r.answer))
    /\ UNCHANGED <<world, pool, ranked, pc, answers, asked, copied, loop>>

\* A query attempt or a keep-alive ping; a ping keeps quiet about a failure.
Query(i) ==
    /\ i \in ranked
    /\ Record(i)
    /\ UNCHANGED <<world, pool, ranked, pc, answers, asked, copied, loop>>

ResetCb ==
    /\ resets < MaxResets /\ resets' = resets + 1
    /\ heap' = [i \in Node |-> IF i \in pool THEN [heap[i] EXCEPT !.errors = 0] ELSE heap[i]]
    /\ UNCHANGED <<speed, candidates, pool, ranked, pc, answers, asked, copied, loop, healing>>

-----------------------------------------------------------------------------
(***************************************************************************)
(* recompute_ranks holds the read lock of the pool from the clone to the   *)
(* store, so that no writer comes between.                                 *)
(***************************************************************************)
Ranking(a) == pc[a] \in {"store", "apply_store"}
\* Mutant: recompute_ranks lets go of the pool's lock before it stores.
WriterMayEnter_Unlocked == TRUE

WriterMayEnter == \A a \in Actor : ~Ranking(a)

CopyPool(a) ==
    /\ pc[a] \in {"copy", "apply_copy"}
    /\ copied' = [copied EXCEPT ![a] = pool]
    /\ pc' = [pc EXCEPT ![a] = IF @ = "copy" THEN "store" ELSE "apply_store"]
    /\ UNCHANGED <<world, heap, pool, ranked, answers, asked, loop, healing>>

StoreRanks(a) ==
    /\ Ranking(a)
    /\ ranked' = copied[a]
    /\ copied' = [copied EXCEPT ![a] = {}]
    /\ pc' = [pc EXCEPT ![a] = IF @ = "store" THEN "idle" ELSE "copy"]
    /\ UNCHANGED <<world, heap, pool, answers, asked, loop, healing>>

\* A task asks one candidate how it answers: POST, then GET.
Ask(a, u) ==
    /\ pc[a] = "asking" /\ u \in asked[a]
    /\ asked' = [asked EXCEPT ![a] = @ \ {u}]
    /\ answers' = [answers EXCEPT ![a][u] = speed[u]]
    /\ UNCHANGED <<world, heap, pool, ranked, pc, copied, loop, healing>>

Asked(a) == {u \in Url : answers[a][u] # "none"}
Forget(a) == answers' = [answers EXCEPT ![a] = Unasked]

-----------------------------------------------------------------------------
(***************************************************************************)
(* sync_and_rank.                                                          *)
(***************************************************************************)
\* The first feed with a usable entry, or the compiled-in list.
Fetch(a, feed) ==
    /\ a \in Syncer /\ pc[a] = "idle"
    /\ candidates' = feed
    /\ pc' = [pc EXCEPT ![a] = "asking"]
    /\ asked' = [asked EXCEPT ![a] = feed]
    /\ UNCHANGED <<speed, resets, heap, pool, ranked, answers, copied, loop, healing>>

Install(a) ==
    /\ a \in Syncer /\ pc[a] = "asking" /\ asked[a] = {} /\ WriterMayEnter
    /\ \E chosen \in BestOf(Asked(a), PoolSize, answers[a]) :
         LET nodes == {FreshNode(u) : u \in chosen}
         IN  /\ pool' = nodes
             /\ pc' = [pc EXCEPT ![a] = "copy"]
             /\ Forget(a)
             /\ UNCHANGED <<world, ranked, asked, copied, loop>>
             /\ Dropped(Allocated(nodes, answers[a]))

-----------------------------------------------------------------------------
(***************************************************************************)
(* The probe loop: probe_active_upstreams, every 30 s.                     *)
(***************************************************************************)
ProbePool ==
    /\ pc[Prober] = "idle"
    /\ todo' = pool
    /\ pc' = [pc EXCEPT ![Prober] = "probing"]
    /\ UNCHANGED <<world, heap, pool, ranked, answers, asked, copied, active, degraded, next,
                   healing>>

ProbeNode(i) ==
    /\ pc[Prober] = "probing" /\ i \in todo
    /\ Record(i)
    /\ todo' = todo \ {i}
    /\ UNCHANGED <<world, pool, ranked, pc, answers, asked, copied, active, degraded, next>>

\* Mutant: demote_degraded_and_promote_best only looks at the size of the pool.
NeedsCheck_SizeOnly == Cardinality(pool) < PoolSize

\* demote_degraded_and_promote_best takes the lock three times: is there
\* anything to do, which resolvers are active, which candidates are not.
NeedsCheck == Cardinality(pool) < PoolSize \/ Degraded # {}

CheckPool ==
    /\ pc[Prober] = "probing" /\ todo = {}
    /\ pc' = [pc EXCEPT ![Prober] = IF NeedsCheck THEN "check" ELSE "copy"]
    /\ UNCHANGED <<world, heap, pool, ranked, answers, asked, copied, loop, healing>>

ReadActive ==
    /\ pc[Prober] = "check"
    /\ active' = UrlsOf(pool)
    /\ pc' = [pc EXCEPT ![Prober] = "list"]
    /\ UNCHANGED <<world, heap, pool, ranked, answers, asked, copied, todo, degraded, next,
                   healing>>

ListCandidates ==
    LET available == candidates \ active
    IN  /\ pc[Prober] = "list"
        /\ asked' = [asked EXCEPT ![Prober] = available]
        /\ active' = {}
        /\ pc' = [pc EXCEPT ![Prober] = IF available = {} THEN "copy" ELSE "asking"]
        /\ UNCHANGED <<world, heap, pool, ranked, answers, copied, todo, degraded, next,
                       healing>>

(***************************************************************************)
(* apply_candidate_promotions reads the pool once, under the read lock,    *)
(* and writes what it made of it in another region.                        *)
(***************************************************************************)
\* Mutant: apply_candidate_promotions trusts the filter its caller applied.
ValidCandidates_Unfiltered == {u \in Asked(Prober) : answers[Prober][u] # "dead"}

ValidCandidates ==
    {u \in Asked(Prober) : answers[Prober][u] # "dead" /\ u \notin UrlsOf(pool)}

PoolIsFine == Degraded = {} /\ Cardinality(pool) >= PoolSize

\* How many candidates find a place: those of degraded nodes, then the free ones.
Places == Cardinality(Degraded)
          + (IF Cardinality(pool) < PoolSize THEN PoolSize - Cardinality(pool) ELSE 0)

NothingToPromote ==
    /\ pc[Prober] = "asking" /\ asked[Prober] = {}
    /\ PoolIsFine \/ ValidCandidates = {}
    /\ pc' = [pc EXCEPT ![Prober] = "copy"]
    /\ Forget(Prober)
    /\ UNCHANGED <<world, heap, pool, ranked, asked, copied, loop, healing>>

PlanPromotions ==
    /\ pc[Prober] = "asking" /\ asked[Prober] = {}
    /\ ~PoolIsFine /\ ValidCandidates # {}
    /\ \E chosen \in BestOf(ValidCandidates, Places, answers[Prober]) :
       \E out \in kSubset(Min({Cardinality(chosen), Cardinality(Degraded)}), Degraded) :
         LET nodes == {FreshNode(u) : u \in chosen}
         IN  /\ next' = (pool \ out) \cup nodes
             /\ degraded' = Degraded
             /\ pc' = [pc EXCEPT ![Prober] = "write"]
             /\ Forget(Prober)
             /\ UNCHANGED <<world, pool, ranked, asked, copied, todo, active>>
             /\ Dropped(Allocated(nodes, answers[Prober]))

WritePool ==
    /\ pc[Prober] = "write" /\ WriterMayEnter
    /\ pool' = next
    /\ next' = {} /\ degraded' = {}
    /\ pc' = [pc EXCEPT ![Prober] = "apply_copy"]
    /\ UNCHANGED <<world, ranked, answers, asked, copied, todo, active>>
    /\ Dropped(heap)

-----------------------------------------------------------------------------
SyncStep(a) == (\E u \in Url : Ask(a, u)) \/ Install(a) \/ CopyPool(a) \/ StoreRanks(a)

ProberStep ==
    \/ ProbePool \/ (\E i \in Node : ProbeNode(i))
    \/ CheckPool \/ ReadActive \/ ListCandidates \/ (\E u \in Url : Ask(Prober, u))
    \/ NothingToPromote \/ PlanPromotions \/ WritePool
    \/ CopyPool(Prober) \/ StoreRanks(Prober)

Next ==
    \/ \E u \in Url, s \in Speeds : SpeedChanges(u, s)
    \/ \E i \in Node : Query(i)
    \/ \E r \in healing : StoreHealed(r)
    \/ ResetCb
    \/ \E a \in Syncer, feed \in Feeds \cup {Builtin} : Fetch(a, feed)
    \/ \E a \in Syncer : SyncStep(a)
    \/ ProberStep

Spec == Init /\ [][Next]_vars

(***************************************************************************)
(* The loop ticks for ever and every request has a timeout.  The locks are *)
(* fair ones: a writer that waits keeps new readers out, hence SF.         *)
(***************************************************************************)
FairSpec ==
    /\ Spec
    /\ WF_vars(ProberStep) /\ SF_vars(WritePool)
    /\ WF_vars(\E r \in healing : StoreHealed(r))
    /\ \A a \in Syncer : WF_vars(SyncStep(a)) /\ SF_vars(Install(a))

-----------------------------------------------------------------------------
Answer == {"none", "dead", "slow", "fast"}
HeldNode == [errors : 0..MaxErrors, latency : 0..4 \cup {LostLatency}, odd : BOOLEAN]

(***************************************************************************)
(* Every variable has its type, and an error counter never wraps below 0.  *)
(***************************************************************************)
TypeOK ==
    /\ speed \in [Url -> Speeds]
    /\ candidates \subseteq Url
    /\ heap \in [Node -> HeldNode]
    /\ \A s \in {pool, ranked, todo, degraded, next} : s \subseteq Node
    /\ pc \in [Actor -> {"idle", "asking", "copy", "store", "apply_copy", "apply_store",
                         "probing", "check", "list", "write"}]
    /\ answers \in [Actor -> [Url -> Answer]]
    /\ asked \in [Actor -> SUBSET Url]
    /\ copied \in [Actor -> SUBSET Node]
    /\ active \subseteq Url
    /\ healing \subseteq [node : Node, loaded : 1..MaxErrors, answer : {"slow", "fast"}]
    /\ resets \in 0..MaxResets

(***************************************************************************)
(* The pool is never empty, never larger than it should be, and has no     *)
(* resolver twice: apply_candidate_promotions filters its candidates again *)
(* because a sync may have installed one since the list was made.          *)
(***************************************************************************)
Distinct(nodes) == \A i, j \in nodes : i[1] = j[1] => i = j

PoolSound ==
    /\ pool # {} /\ Cardinality(pool) <= PoolSize
    /\ Distinct(pool)

(***************************************************************************)
(* Unless some actor has yet to rank it, the ranked copy queries use has   *)
(* the nodes of the pool: no recompute_ranks stores an older pool over a   *)
(* newer one, because it keeps the read lock meanwhile.                    *)
(***************************************************************************)
RanksCurrent ==
    (\A a \in Actor : pc[a] \notin {"copy", "store", "apply_copy", "apply_store"})
        => ranked = pool

(***************************************************************************)
(* Once resolvers and candidates stay as they are, and enough candidates   *)
(* answer fast, the probe loop gets every dead resolver out of the pool    *)
(* for good, whatever syncs run and whichever errors were reset before.    *)
(***************************************************************************)
FastCandidates == {u \in candidates : speed[u] = "fast"}

Settled ==
    /\ <>[][FALSE]_<<speed, candidates>>
    /\ <>[](Cardinality(FastCandidates) >= PoolSize)

PoolHeals ==
    Settled /\ <>[](\A u \in Url : speed[u] # "slow")
        => <>[](\A i \in pool : speed[i[1]] # "dead")

(***************************************************************************)
(* "Automatically demote degraded resolvers and promote fastest healthy    *)
(* candidates": once all stays as it is and enough candidates are fast,    *)
(* the pool ends up with no slow resolver.  The code puts aura first, so   *)
(* slow resolvers of high aura replace each other for ever.                *)
(***************************************************************************)
PoolQualifies == Settled => <>[](\A i \in pool : speed[i[1]] = "fast")

(***************************************************************************)
(* "demotes degraded ones": a promotion takes only nodes out of the pool   *)
(* that it found degraded.  A sync between its read and its write loses    *)
(* all it installed.                                                       *)
(***************************************************************************)
DemotesOnlyDegraded == [][WritePool => pool \ pool' \subseteq degraded]_vars

(***************************************************************************)
(* "every 2 consecutive successes, heal 1 error!": an error counter falls  *)
(* by one at a time unless the breakers are reset.  Errors recorded        *)
(* between the load and the store of record_success are lost with it.      *)
(***************************************************************************)
HealsOneError ==
    [][resets' = resets =>
         \A i \in pool \cap pool' : heap'[i].errors + 1 >= heap[i].errors]_vars
=============================================================================
