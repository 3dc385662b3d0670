------------------------- MODULE UpstreamPoolProofs -------------------------
(***************************************************************************)
(* What holds of the upstream pool for any resolvers, syncers and feeds:   *)
(* the ranked copy is current once everybody has ranked, and the pool is   *)
(* never empty, never too large and has no resolver twice.                 *)
(***************************************************************************)
EXTENDS UpstreamPool, FiniteSetTheorems, TLAPS

-----------------------------------------------------------------------------
(***************************************************************************)
(* RanksCurrent is not inductive: whoever holds the lock stores the clone  *)
(* made when it was taken, and that clone is still the pool because no     *)
(* writer gets in (CopiesCurrent).                                         *)
(***************************************************************************)
MustRank == {"copy", "store", "apply_copy", "apply_store"}

AreFunctions ==
    /\ pc = [a \in Actor |-> pc[a]]
    /\ copied = [a \in Actor |-> copied[a]]

CopiesCurrent == \A a \in Actor : Ranking(a) => copied[a] = pool

RankInv == AreFunctions /\ CopiesCurrent /\ RanksCurrent

\* A step that moves no actor and touches neither the pool nor its copies.
LEMMA StillRanked ==
    ASSUME RankInv, UNCHANGED <<pool, ranked, copied, pc>>
    PROVE  RankInv'
  BY DEF RankInv, AreFunctions, CopiesCurrent, RanksCurrent, Ranking

\* A step that moves an actor without the lock, and from no duty to rank.
LEMMA MovesRanked ==
    ASSUME RankInv, UNCHANGED <<pool, ranked, copied>>,
           NEW a \in Actor, NEW place, pc' = [pc EXCEPT ![a] = place],
           ~Ranking(a), place \notin {"store", "apply_store"},
           pc[a] \notin MustRank
    PROVE  RankInv'
  BY DEF RankInv, AreFunctions, CopiesCurrent, RanksCurrent, Ranking, MustRank

\* A writer of the pool takes on the duty to rank it, and nobody has a clone.
LEMMA WriterRanks ==
    ASSUME RankInv, UNCHANGED <<ranked, copied>>, WriterMayEnter,
           NEW a \in Actor, NEW place \in {"copy", "apply_copy"},
           pc' = [pc EXCEPT ![a] = place]
    PROVE  RankInv'
<1>1. AreFunctions'
  BY DEF RankInv, AreFunctions
<1>2. \A b \in Actor : ~Ranking(b)'
  BY DEF RankInv, AreFunctions, WriterMayEnter, Ranking
<1>3. pc'[a] = place
  BY DEF RankInv, AreFunctions
<1>4. RanksCurrent'
  BY <1>3 DEF RanksCurrent
<1> QED
  BY <1>1, <1>2, <1>4 DEF RankInv, CopiesCurrent

LEMMA CopyRanks ==
    ASSUME RankInv, NEW a \in Actor, CopyPool(a)
    PROVE  RankInv'
<1>1. pc[a] \in {"copy", "apply_copy"} /\ pc'[a] \in {"store", "apply_store"}
  BY DEF CopyPool, RankInv, AreFunctions
<1>2. AreFunctions'
  BY DEF CopyPool, RankInv, AreFunctions
<1>3. CopiesCurrent'
  BY <1>1 DEF CopyPool, RankInv, AreFunctions, CopiesCurrent, Ranking
<1>4. RanksCurrent'
  BY <1>1 DEF RanksCurrent
<1> QED
  BY <1>2, <1>3, <1>4 DEF RankInv

LEMMA StoreRanksRanks ==
    ASSUME RankInv, NEW a \in Actor, StoreRanks(a)
    PROVE  RankInv'
<1>1. ranked' = pool /\ pool' = pool
  BY DEF StoreRanks, RankInv, CopiesCurrent
<1>2. AreFunctions'
  BY DEF StoreRanks, RankInv, AreFunctions
<1>3. CopiesCurrent'
  <2> SUFFICES ASSUME NEW b \in Actor, Ranking(b)'
               PROVE  copied'[b] = pool'
    BY DEF CopiesCurrent
  <2>1. b # a
    BY DEF StoreRanks, RankInv, AreFunctions, Ranking
  <2>2. Ranking(b) /\ copied'[b] = copied[b]
    BY <2>1 DEF StoreRanks, RankInv, AreFunctions, Ranking
  <2> QED
    BY <1>1, <2>2 DEF RankInv, CopiesCurrent
<1>4. RanksCurrent'
  BY <1>1 DEF RanksCurrent
<1> QED
  BY <1>2, <1>3, <1>4 DEF RankInv

LEMMA RankStep == RankInv /\ [Next]_vars => RankInv'
<1> SUFFICES ASSUME RankInv, [Next]_vars PROVE RankInv'
  OBVIOUS
<1> USE DEF world, loop
<1>p. Prober \in Actor
  BY DEF Actor
<1>1. CASE UNCHANGED vars
  BY <1>1, StillRanked DEF vars
<1>2. ASSUME NEW u \in Url, NEW s \in Speeds, SpeedChanges(u, s) PROVE RankInv'
  BY <1>2, StillRanked DEF SpeedChanges
<1>3. ASSUME NEW i \in Node, Query(i) PROVE RankInv'
  BY <1>3, StillRanked DEF Query
<1>4. ASSUME NEW r \in healing, StoreHealed(r) PROVE RankInv'
  BY <1>4, StillRanked DEF StoreHealed
<1>5. CASE ResetCb
  BY <1>5, StillRanked DEF ResetCb
<1>6. ASSUME NEW a \in Syncer, NEW feed, Fetch(a, feed) PROVE RankInv'
  <2>1. a \in Actor /\ pc[a] = "idle"
    BY <1>6 DEF Fetch, Actor
  <2> QED
    BY <1>6, <2>1, MovesRanked DEF Fetch, Ranking, MustRank
<1>7. ASSUME NEW a \in Actor, NEW u \in Url, Ask(a, u) PROVE RankInv'
  BY <1>7, StillRanked DEF Ask
<1>8. ASSUME NEW a \in Syncer, Install(a) PROVE RankInv'
  BY <1>8, WriterRanks DEF Install, Actor
<1>9. ASSUME NEW i \in Node, ProbeNode(i) PROVE RankInv'
  BY <1>9, StillRanked DEF ProbeNode
<1>10. CASE ProbePool
  BY <1>10, <1>p, MovesRanked DEF ProbePool, Ranking, MustRank
<1>11. CASE CheckPool
  <2>1. PICK place \in {"check", "copy"} : pc' = [pc EXCEPT ![Prober] = place]
    BY <1>11 DEF CheckPool
  <2>2. /\ ~Ranking(Prober) /\ pc[Prober] \notin MustRank
        /\ UNCHANGED <<pool, ranked, copied>>
    BY <1>11 DEF CheckPool, Ranking, MustRank
  <2> QED
    BY <2>1, <2>2, <1>p, MovesRanked
<1>12. CASE ReadActive
  BY <1>12, <1>p, MovesRanked DEF ReadActive, Ranking, MustRank
<1>13. CASE ListCandidates
  BY <1>13, <1>p, MovesRanked DEF ListCandidates, Ranking, MustRank
<1>14. CASE NothingToPromote
  BY <1>14, <1>p, MovesRanked DEF NothingToPromote, Ranking, MustRank
<1>15. CASE PlanPromotions
  BY <1>15, <1>p, MovesRanked DEF PlanPromotions, Ranking, MustRank
<1>16. CASE WritePool
  BY <1>16, <1>p, WriterRanks DEF WritePool
<1>17. ASSUME NEW a \in Actor, CopyPool(a) \/ StoreRanks(a) PROVE RankInv'
  BY <1>17, CopyRanks, StoreRanksRanks
<1> QED
  BY <1>p, <1>1, <1>2, <1>3, <1>4, <1>5, <1>6, <1>7, <1>8, <1>9, <1>10, <1>11, <1>12,
     <1>13, <1>14, <1>15, <1>16, <1>17
     DEF Next, SyncStep, ProberStep, Actor

(***************************************************************************)
(* Once no actor has the pool still to rank, queries read the nodes of the *)
(* pool: overlapping recompute_ranks never leave an older one behind.      *)
(***************************************************************************)
THEOREM RanksAreCurrent == Spec => []RanksCurrent
<1>1. Init => RankInv
  BY DEF Init, RankInv, AreFunctions, CopiesCurrent, RanksCurrent, Ranking
<1>2. RankInv => RanksCurrent
  BY DEF RankInv
<1> QED
  BY <1>1, <1>2, RankStep, PTL DEF Spec

-----------------------------------------------------------------------------
(***************************************************************************)
(* No resolver is in the pool twice.  A promotion plans a pool and writes  *)
(* it later, so the plan must have the property too; it has, because the   *)
(* candidates are filtered against the very snapshot they are added to.    *)
(***************************************************************************)
DistinctInv == Distinct(pool) /\ Distinct(next)

\* New nodes, one for each resolver of a set, are distinct.
LEMMA FreshDistinct ==
    ASSUME NEW chosen
    PROVE  /\ Distinct({FreshNode(u) : u \in chosen})
           /\ \A i \in {FreshNode(u) : u \in chosen} : i[1] \in chosen
<1>1. \A u, g : <<u, g>>[1] = u
  OBVIOUS
<1>2. \A u : FreshNode(u)[1] = u
  <2> TAKE u
  <2> DEFINE g == CHOOSE g \in Gen : <<u, g>> \notin Referred
  <2>1. FreshNode(u) = <<u, g>>
    BY DEF FreshNode
  <2> HIDE DEF g
  <2> QED
    BY <1>1, <2>1
<1> QED
  BY <1>2 DEF Distinct

LEMMA BestAreAmong ==
    ASSUME NEW urls, NEW k, NEW answer, NEW chosen \in BestOf(urls, k, answer)
    PROVE  chosen \subseteq urls
  BY DEF BestOf, kSubset

LEMMA InstallDistinct ==
    ASSUME DistinctInv, NEW a \in Syncer, Install(a)
    PROVE  DistinctInv'
<1>1. PICK chosen : pool' = {FreshNode(u) : u \in chosen}
  BY DEF Install
<1>2. next' = next
  BY DEF Install, loop
<1> QED
  BY <1>1, <1>2, FreshDistinct DEF DistinctInv, Distinct

LEMMA PlanDistinct ==
    ASSUME DistinctInv, PlanPromotions
    PROVE  DistinctInv'
<1>1. PICK chosen \in BestOf(ValidCandidates, Places, answers[Prober]) :
           \E out : next' = (pool \ out) \cup {FreshNode(u) : u \in chosen}
  BY DEF PlanPromotions
<1> DEFINE nodes == {FreshNode(u) : u \in chosen}
<1>2. \A i \in nodes, j \in pool : i[1] # j[1]
  <2>1. chosen \subseteq ValidCandidates
    BY BestAreAmong
  <2>2. \A i \in nodes : i[1] \notin UrlsOf(pool)
    BY <2>1, FreshDistinct DEF ValidCandidates
  <2> QED
    BY <2>2 DEF UrlsOf
<1>3. Distinct(nodes)
  BY FreshDistinct
<1>4. Distinct(next')
  <2> HIDE DEF nodes
  <2>1. \E out : next' = (pool \ out) \cup nodes
    BY <1>1 DEF nodes
  <2> QED
    BY <1>2, <1>3, <2>1 DEF DistinctInv, Distinct
<1>5. pool' = pool
  BY DEF PlanPromotions
<1> QED
  BY <1>4, <1>5 DEF DistinctInv, Distinct

LEMMA DistinctStep == DistinctInv /\ [Next]_vars => DistinctInv'
<1> SUFFICES ASSUME DistinctInv, [Next]_vars PROVE DistinctInv'
  OBVIOUS
<1> USE DEF world, loop
<1>1. CASE UNCHANGED <<pool, next>>
  BY <1>1 DEF DistinctInv, Distinct
<1>2. CASE \E a \in Syncer : Install(a)
  BY <1>2, InstallDistinct
<1>3. CASE PlanPromotions
  BY <1>3, PlanDistinct
<1>4. CASE WritePool
  BY <1>4 DEF WritePool, DistinctInv, Distinct
<1>5. (\E u \in Url, s \in Speeds : SpeedChanges(u, s)) => UNCHANGED <<pool, next>>
  BY DEF SpeedChanges
<1>6. (\E i \in Node : Query(i)) => UNCHANGED <<pool, next>>
  BY DEF Query
<1>7. (\E r \in healing : StoreHealed(r)) => UNCHANGED <<pool, next>>
  BY DEF StoreHealed
<1>8. ResetCb => UNCHANGED <<pool, next>>
  BY DEF ResetCb
<1>9. (\E a \in Syncer, feed \in Feeds \cup {Builtin} : Fetch(a, feed))
          => UNCHANGED <<pool, next>>
  BY DEF Fetch
<1>10. \A a : (\E u \in Url : Ask(a, u)) => UNCHANGED <<pool, next>>
  BY DEF Ask
<1>11. \A a : CopyPool(a) \/ StoreRanks(a) => UNCHANGED <<pool, next>>
  BY DEF CopyPool, StoreRanks
<1>12. ProbePool \/ (\E i \in Node : ProbeNode(i)) => UNCHANGED <<pool, next>>
  BY DEF ProbePool, ProbeNode
<1>13. CheckPool \/ ReadActive \/ ListCandidates \/ NothingToPromote
          => UNCHANGED <<pool, next>>
  BY DEF CheckPool, ReadActive, ListCandidates, NothingToPromote
<1>14. UNCHANGED vars => UNCHANGED <<pool, next>>
  BY DEF vars
<1> QED
  BY <1>1, <1>2, <1>3, <1>4, <1>5, <1>6, <1>7, <1>8, <1>9, <1>10, <1>11, <1>12, <1>13,
     <1>14 DEF Next, SyncStep, ProberStep

-----------------------------------------------------------------------------
(***************************************************************************)
(* The size of the pool.  A sync installs at least one resolver because a  *)
(* feed that is taken lists one, and every candidate is either answered    *)
(* for or still to be asked (AskedFor).  A promotion puts in as many as it *)
(* takes out, or fills free places, counted on one snapshot.               *)
(***************************************************************************)
Fits(nodes) == IsFiniteSet(nodes) /\ nodes # {} /\ Cardinality(nodes) <= PoolSize

AskedFor == \A a \in Syncer : pc[a] = "asking" => asked[a] # {} \/ Asked(a) # {}

Stage == {"idle", "asking", "copy", "store", "apply_copy", "apply_store", "probing",
          "check", "list", "write"}

Shapes ==
    /\ pc \in [Actor -> Stage]
    /\ asked \in [Actor -> SUBSET Url]
    /\ answers \in [Actor -> [Url -> Answer]]
    /\ candidates \subseteq Url
    /\ speed \in [Url -> Speeds]

SizeInv ==
    /\ Shapes /\ AskedFor
    /\ Fits(pool) /\ (pc[Prober] = "write" => Fits(next))

\* The least of two numbers.
LEMMA MinOfTwo ==
    ASSUME NEW m \in Nat, NEW n \in Nat
    PROVE  Min({m, n}) = IF m <= n THEN m ELSE n
<1> DEFINE k == IF m <= n THEN m ELSE n
<1>1. k \in {m, n} /\ \A y \in {m, n} : k <= y
  OBVIOUS
<1>2. Min({m, n}) \in {m, n} /\ \A y \in {m, n} : Min({m, n}) <= y
  BY <1>1 DEF Min
<1> QED
  BY <1>1, <1>2

\* As many of the best as asked for, or all there are.
LEMMA BestSize ==
    ASSUME NEW urls, IsFiniteSet(urls), NEW k \in Nat, NEW answer,
           NEW chosen \in BestOf(urls, k, answer)
    PROVE  /\ IsFiniteSet(chosen) /\ chosen \subseteq urls
           /\ Cardinality(chosen) = IF k <= Cardinality(urls) THEN k ELSE Cardinality(urls)
<1>1. Cardinality(urls) \in Nat
  BY FS_CardinalityType
<1>2. chosen \in SUBSET urls /\ Cardinality(chosen) = Min({k, Cardinality(urls)})
  BY DEF BestOf, kSubset
<1> QED
  BY <1>1, <1>2, MinOfTwo, FS_Subset

\* There are no more new nodes than resolvers they are made for.
LEMMA FreshSize ==
    ASSUME NEW chosen, IsFiniteSet(chosen)
    PROVE  LET nodes == {FreshNode(u) : u \in chosen}
           IN  /\ IsFiniteSet(nodes) /\ Cardinality(nodes) <= Cardinality(chosen)
               /\ (chosen # {} => nodes # {})
<1> DEFINE nodes == {FreshNode(u) : u \in chosen}
           f == [u \in chosen |-> FreshNode(u)]
<1>1. f \in Surjection(chosen, nodes)
  BY DEF Surjection
<1>2. IsFiniteSet(nodes) /\ Cardinality(nodes) <= Cardinality(chosen)
  <2> HIDE DEF nodes, f
  <2> QED
    BY <1>1, FS_Surjection
<1> QED
  BY <1>2

\* The shapes of the next state, one by one.
LEMMA ShapesAre ==
    ASSUME pc' \in [Actor -> Stage], asked' \in [Actor -> SUBSET Url],
           answers' \in [Actor -> [Url -> Answer]],
           candidates' \subseteq Url, speed' \in [Url -> Speeds]
    PROVE  Shapes'
  BY DEF Shapes, Actor, Answer, Stage

\* A step that keeps the pool, the plan and where the syncs are.
LEMMA StillSized ==
    ASSUME SizeInv, Shapes', UNCHANGED <<pool, next>>,
           \A a \in Syncer : UNCHANGED <<pc[a], asked[a], answers[a]>>,
           pc'[Prober] = "write" => pc[Prober] = "write"
    PROVE  SizeInv'
<1>1. \A a \in Syncer : Asked(a)' = Asked(a)
  BY DEF Asked
<1>2. AskedFor'
  BY <1>1 DEF SizeInv, AskedFor
<1> QED
  BY <1>2 DEF SizeInv, Fits

\* A step of the probe loop to another place than "write".
LEMMA ProberStillSized ==
    ASSUME SizeInv, UNCHANGED <<pool, next, candidates, speed>>,
           NEW place \in Stage, place # "write", pc' = [pc EXCEPT ![Prober] = place],
           NEW urls \in SUBSET Url, asked' = [asked EXCEPT ![Prober] = urls],
           NEW answer \in [Url -> Answer], answers' = [answers EXCEPT ![Prober] = answer]
    PROVE  SizeInv'
<1>1. Prober \in Actor /\ \A a \in Syncer : a \in Actor /\ a # Prober
  BY PoolAssumption DEF Actor, Prober
<1>2. Shapes'
  <2>2. pc' \in [Actor -> Stage] /\ asked' \in [Actor -> SUBSET Url]
    BY <1>1 DEF SizeInv, Shapes, Stage
  <2>3. answers' \in [Actor -> [Url -> Answer]]
    BY <1>1 DEF SizeInv, Shapes
  <2>4. candidates' \subseteq Url /\ speed' \in [Url -> Speeds]
    BY <1>1 DEF SizeInv, Shapes
  <2> QED
    BY <2>2, <2>3, <2>4, ShapesAre
<1>3. \A a \in Syncer : UNCHANGED <<pc[a], asked[a], answers[a]>>
  BY <1>1 DEF SizeInv, Shapes
<1>4. pc'[Prober] # "write"
  BY <1>1 DEF SizeInv, Shapes
<1> QED
  BY <1>2, <1>3, <1>4, StillSized

LEMMA FetchSized ==
    ASSUME SizeInv, NEW a \in Syncer, NEW feed \in Feeds \cup {Builtin}, Fetch(a, feed)
    PROVE  SizeInv'
<1>1. feed \subseteq Url /\ feed # {}
  BY PoolAssumption
<1>2. a \in Actor /\ a # Prober /\ Prober \in Actor
  BY PoolAssumption DEF Actor, Prober
<1>3. /\ pc' = [pc EXCEPT ![a] = "asking"] /\ asked' = [asked EXCEPT ![a] = feed]
      /\ candidates' = feed
      /\ UNCHANGED <<pool, next, answers, speed>>
  BY DEF Fetch, loop
<1>4. Shapes'
  <2>2. pc' \in [Actor -> Stage] /\ asked' \in [Actor -> SUBSET Url]
    BY <1>1, <1>2, <1>3 DEF SizeInv, Shapes, Stage
  <2>3. answers' \in [Actor -> [Url -> Answer]]
    BY <1>1, <1>2, <1>3 DEF SizeInv, Shapes
  <2>4. candidates' \subseteq Url /\ speed' \in [Url -> Speeds]
    BY <1>1, <1>2, <1>3 DEF SizeInv, Shapes
  <2> QED
    BY <2>2, <2>3, <2>4, ShapesAre
<1>5. AskedFor'
  <2> SUFFICES ASSUME NEW b \in Syncer, pc'[b] = "asking"
               PROVE  asked'[b] # {} \/ Asked(b)' # {}
    BY DEF AskedFor
  <2>1. CASE b = a
    BY <2>1, <1>1, <1>2, <1>3 DEF SizeInv, Shapes
  <2>2. CASE b # a
    <3>1. pc[b] = "asking" /\ asked'[b] = asked[b] /\ Asked(b)' = Asked(b)
      BY <2>2, <1>2, <1>3 DEF SizeInv, Shapes, Actor, Asked
    <3> QED
      BY <3>1 DEF SizeInv, AskedFor
  <2> QED
    BY <2>1, <2>2
<1>6. pc'[Prober] = pc[Prober]
  BY <1>2, <1>3 DEF SizeInv, Shapes
<1> QED
  BY <1>3, <1>4, <1>5, <1>6 DEF SizeInv, Fits

LEMMA AskSized ==
    ASSUME SizeInv, NEW a \in Actor, NEW u \in Url, Ask(a, u)
    PROVE  SizeInv'
<1>1. /\ asked' = [asked EXCEPT ![a] = asked[a] \ {u}]
      /\ answers' = [answers EXCEPT ![a] = [answers[a] EXCEPT ![u] = speed[u]]]
      /\ UNCHANGED <<pool, next, pc, candidates, speed>>
  BY DEF Ask, world, loop
<1>2. speed[u] \in Answer /\ speed[u] # "none"
  BY PoolAssumption DEF SizeInv, Shapes, Answer
<1>3. answers[a] \in [Url -> Answer]
  BY DEF SizeInv, Shapes
<1>4. Shapes'
  <2>1. [answers[a] EXCEPT ![u] = speed[u]] \in [Url -> Answer]
    BY <1>2, <1>3
  <2>2. asked[a] \ {u} \in SUBSET Url
    BY DEF SizeInv, Shapes
  <2>3. pc' \in [Actor -> Stage] /\ asked' \in [Actor -> SUBSET Url]
    BY <1>1, <2>2 DEF SizeInv, Shapes
  <2>4. answers' \in [Actor -> [Url -> Answer]]
    BY <1>1, <2>1 DEF SizeInv, Shapes
  <2>5. candidates' \subseteq Url /\ speed' \in [Url -> Speeds]
    BY <1>1 DEF SizeInv, Shapes
  <2> QED
    BY <2>3, <2>4, <2>5, ShapesAre
<1>5. AskedFor'
  <2> SUFFICES ASSUME NEW b \in Syncer, pc'[b] = "asking"
               PROVE  asked'[b] # {} \/ Asked(b)' # {}
    BY DEF AskedFor
  <2>1. CASE b = a
    <3>1. answers'[a][u] = speed[u]
      BY <1>1, <1>3 DEF SizeInv, Shapes
    <3>2. u \in Asked(a)'
      BY <3>1, <1>2 DEF Asked
    <3> QED
      BY <2>1, <3>2
  <2>2. CASE b # a
    <3>1. asked'[b] = asked[b] /\ answers'[b] = answers[b]
      BY <2>2, <1>1 DEF SizeInv, Shapes, Actor
    <3>2. Asked(b)' = Asked(b)
      BY <3>1 DEF Asked
    <3> QED
      BY <3>1, <3>2, <1>1 DEF SizeInv, AskedFor
  <2> QED
    BY <2>1, <2>2
<1> QED
  BY <1>1, <1>4, <1>5 DEF SizeInv, Fits

LEMMA InstallSized ==
    ASSUME SizeInv, NEW a \in Syncer, Install(a)
    PROVE  SizeInv'
<1>1. a \in Actor /\ a # Prober /\ Prober \in Actor
  BY PoolAssumption DEF Actor, Prober
<1>2. PICK chosen \in BestOf(Asked(a), PoolSize, answers[a]) :
           pool' = {FreshNode(u) : u \in chosen}
  BY DEF Install
<1>3. /\ pc' = [pc EXCEPT ![a] = "copy"] /\ answers' = [answers EXCEPT ![a] = Unasked]
      /\ UNCHANGED <<next, asked, candidates, speed>>
  BY DEF Install, Forget, world, loop
<1>4. Asked(a) # {} /\ IsFiniteSet(Asked(a))
  <2>1. Asked(a) # {}
    BY DEF Install, SizeInv, AskedFor
  <2>2. Asked(a) \in SUBSET Url
    BY DEF Asked
  <2> QED
    BY <2>1, <2>2, PoolAssumption, FS_Subset
<1>5. Fits(pool')
  <2>1. PoolSize \in Nat \ {0}
    BY PoolAssumption
  <2>2. Cardinality(Asked(a)) \in Nat \ {0}
    BY <1>4, FS_CardinalityType, FS_EmptySet
  <2>3. IsFiniteSet(chosen) /\ Cardinality(chosen) <= PoolSize /\ Cardinality(chosen) \in Nat \ {0}
    BY <1>2, <1>4, <2>1, <2>2, BestSize
  <2>4. chosen # {}
    BY <2>3, FS_EmptySet
  <2> DEFINE nodes == {FreshNode(u) : u \in chosen}
  <2>5. IsFiniteSet(nodes) /\ nodes # {} /\ Cardinality(nodes) <= Cardinality(chosen)
    BY <2>3, <2>4, FreshSize
  <2>6. Cardinality(nodes) \in Nat
    BY <2>5, FS_CardinalityType
  <2> HIDE DEF nodes
  <2>7. Fits(nodes)
    BY <2>1, <2>3, <2>5, <2>6 DEF Fits
  <2> QED
    BY <1>2, <2>7 DEF nodes
<1>6. Shapes'
  <2>1. Unasked \in [Url -> Answer]
    BY DEF Unasked, Answer
  <2>2. pc' \in [Actor -> Stage] /\ asked' \in [Actor -> SUBSET Url]
    BY <1>1, <1>3 DEF SizeInv, Shapes, Stage
  <2>3. answers' \in [Actor -> [Url -> Answer]]
    BY <1>1, <1>3, <2>1 DEF SizeInv, Shapes
  <2>4. candidates' \subseteq Url /\ speed' \in [Url -> Speeds]
    BY <1>1, <1>3 DEF SizeInv, Shapes
  <2> QED
    BY <2>2, <2>3, <2>4, ShapesAre
<1>7. AskedFor'
  <2> SUFFICES ASSUME NEW b \in Syncer, pc'[b] = "asking"
               PROVE  asked'[b] # {} \/ Asked(b)' # {}
    BY DEF AskedFor
  <2>1. b # a /\ pc[b] = "asking" /\ asked'[b] = asked[b] /\ answers'[b] = answers[b]
    BY <1>1, <1>3 DEF SizeInv, Shapes, Actor
  <2>2. Asked(b)' = Asked(b)
    BY <2>1 DEF Asked
  <2> QED
    BY <2>1, <2>2 DEF SizeInv, AskedFor
<1>8. pc'[Prober] = pc[Prober]
  BY <1>1, <1>3 DEF SizeInv, Shapes
<1>9. Fits(pool)'
  BY <1>5 DEF Fits
<1> QED
  BY <1>3, <1>6, <1>7, <1>8, <1>9 DEF SizeInv, Fits

\* A plan takes as many out as it puts in, or fills the free places.
LEMMA PlanFits ==
    ASSUME SizeInv, PlanPromotions
    PROVE  Fits(next')
<1>0. PICK chosen \in BestOf(ValidCandidates, Places, answers[Prober]) :
           \E out \in kSubset(Min({Cardinality(chosen), Cardinality(Degraded)}), Degraded) :
              next' = (pool \ out) \cup {FreshNode(u) : u \in chosen}
  BY DEF PlanPromotions
<1>1. PICK out \in kSubset(Min({Cardinality(chosen), Cardinality(Degraded)}), Degraded) :
           next' = (pool \ out) \cup {FreshNode(u) : u \in chosen}
  BY <1>0
<1> DEFINE p == Cardinality(pool)
           d == Cardinality(Degraded)
           c == Cardinality(chosen)
           nodes == {FreshNode(u) : u \in chosen}
<1>2. /\ IsFiniteSet(pool) /\ IsFiniteSet(Degraded) /\ Degraded \subseteq pool
      /\ p \in Nat \ {0} /\ p <= PoolSize /\ d \in Nat /\ d <= p
      /\ PoolSize \in Nat
  <2>1. Degraded \in SUBSET pool
    BY DEF Degraded
  <2>2. IsFiniteSet(pool) /\ pool # {} /\ p <= PoolSize
    BY DEF SizeInv, Fits
  <2> QED
    BY <2>1, <2>2, FS_Subset, FS_CardinalityType, FS_EmptySet, PoolAssumption
<1>3. Places \in Nat \ {0} /\ Places = d + (PoolSize - p)
  <2>1. Places = d + (PoolSize - p) /\ Places \in Nat
    BY <1>2 DEF Places
  <2>2. Degraded # {} \/ p < PoolSize
    BY <1>2 DEF PlanPromotions, PoolIsFine
  <2>3. Degraded # {} => d # 0
    BY <1>2, FS_EmptySet
  <2> QED
    BY <1>2, <2>1, <2>2, <2>3
<1>4. ValidCandidates # {} /\ IsFiniteSet(ValidCandidates)
  <2>1. ValidCandidates \in SUBSET Url
    BY DEF ValidCandidates, Asked
  <2> QED
    BY <2>1, PoolAssumption, FS_Subset DEF PlanPromotions
<1>5. IsFiniteSet(chosen) /\ c \in Nat \ {0} /\ c <= Places
  <2>1. Cardinality(ValidCandidates) \in Nat \ {0}
    BY <1>4, FS_CardinalityType, FS_EmptySet
  <2> QED
    BY <1>3, <1>4, <2>1, BestSize
<1>6. IsFiniteSet(nodes) /\ nodes # {} /\ Cardinality(nodes) \in Nat /\ Cardinality(nodes) <= c
  <2>1. chosen # {}
    BY <1>5, FS_EmptySet
  <2>2. IsFiniteSet(nodes) /\ nodes # {} /\ Cardinality(nodes) <= c
    BY <1>5, <2>1, FreshSize
  <2> HIDE DEF nodes
  <2> QED
    BY <2>2, FS_CardinalityType
<1>7. /\ out \subseteq Degraded
      /\ Cardinality(out) = IF c <= d THEN c ELSE d
  <2>1. out \in SUBSET Degraded /\ Cardinality(out) = Min({c, d})
    BY <1>1 DEF kSubset
  <2> QED
    BY <2>1, <1>2, <1>5, MinOfTwo
<1>8. /\ IsFiniteSet(pool \ out)
      /\ Cardinality(pool \ out) = p - Cardinality(out)
  <2>1. pool \cap out = out
    BY <1>2, <1>7
  <2> QED
    BY <1>2, <2>1, FS_Difference
<1> HIDE DEF nodes
<1>9. /\ IsFiniteSet((pool \ out) \cup nodes)
      /\ Cardinality((pool \ out) \cup nodes)
            = Cardinality(pool \ out) + Cardinality(nodes) - Cardinality((pool \ out) \cap nodes)
      /\ Cardinality((pool \ out) \cap nodes) \in Nat
  BY <1>6, <1>8, FS_Union, FS_Intersection, FS_CardinalityType
<1>10. Cardinality((pool \ out) \cup nodes) <= PoolSize
  BY <1>2, <1>3, <1>5, <1>6, <1>7, <1>8, <1>9
<1>11. Fits((pool \ out) \cup nodes)
  BY <1>6, <1>9, <1>10 DEF Fits
<1> QED
  BY <1>1, <1>11 DEF nodes

LEMMA PlanSized ==
    ASSUME SizeInv, PlanPromotions
    PROVE  SizeInv'
<1>1. /\ pc' = [pc EXCEPT ![Prober] = "write"]
      /\ answers' = [answers EXCEPT ![Prober] = Unasked]
      /\ UNCHANGED <<pool, asked, candidates, speed>>
  BY DEF PlanPromotions, Forget, world
<1>2. Prober \in Actor /\ \A a \in Syncer : a \in Actor /\ a # Prober
  BY PoolAssumption DEF Actor, Prober
<1>3. Shapes'
  <2>1. Unasked \in [Url -> Answer]
    BY DEF Unasked, Answer
  <2>2. pc' \in [Actor -> Stage] /\ asked' \in [Actor -> SUBSET Url]
    BY <1>1, <1>2 DEF SizeInv, Shapes, Stage
  <2>3. answers' \in [Actor -> [Url -> Answer]]
    BY <1>1, <1>2, <2>1 DEF SizeInv, Shapes
  <2>4. candidates' \subseteq Url /\ speed' \in [Url -> Speeds]
    BY <1>1, <1>2 DEF SizeInv, Shapes
  <2> QED
    BY <2>2, <2>3, <2>4, ShapesAre
<1>4. \A a \in Syncer : UNCHANGED <<pc[a], asked[a], answers[a]>>
  BY <1>1, <1>2 DEF SizeInv, Shapes
<1>5. \A a \in Syncer : Asked(a)' = Asked(a)
  BY <1>4 DEF Asked
<1>6. AskedFor'
  BY <1>4, <1>5 DEF SizeInv, AskedFor
<1>7. Fits(next)' /\ Fits(pool)'
  BY <1>1, PlanFits DEF Fits, SizeInv
<1> QED
  BY <1>3, <1>6, <1>7 DEF SizeInv

LEMMA WriteSized ==
    ASSUME SizeInv, WritePool
    PROVE  SizeInv'
<1>1. /\ pc[Prober] = "write" /\ pool' = next
      /\ pc' = [pc EXCEPT ![Prober] = "apply_copy"]
      /\ UNCHANGED <<asked, answers, candidates, speed>>
  BY DEF WritePool, world
<1>2. Prober \in Actor /\ \A a \in Syncer : a \in Actor /\ a # Prober
  BY PoolAssumption DEF Actor, Prober
<1>3. Shapes'
  <2>2. pc' \in [Actor -> Stage] /\ asked' \in [Actor -> SUBSET Url]
    BY <1>1, <1>2 DEF SizeInv, Shapes, Stage
  <2>3. answers' \in [Actor -> [Url -> Answer]]
    BY <1>1, <1>2 DEF SizeInv, Shapes
  <2>4. candidates' \subseteq Url /\ speed' \in [Url -> Speeds]
    BY <1>1, <1>2 DEF SizeInv, Shapes
  <2> QED
    BY <2>2, <2>3, <2>4, ShapesAre
<1>4. \A a \in Syncer : UNCHANGED <<pc[a], asked[a], answers[a]>>
  BY <1>1, <1>2 DEF SizeInv, Shapes
<1>5. \A a \in Syncer : Asked(a)' = Asked(a)
  BY <1>4 DEF Asked
<1>6. AskedFor'
  BY <1>4, <1>5 DEF SizeInv, AskedFor
<1>7. pc'[Prober] # "write"
  BY <1>1, <1>2 DEF SizeInv, Shapes
<1>8. Fits(pool)'
  BY <1>1 DEF SizeInv, Fits
<1> QED
  BY <1>3, <1>6, <1>7, <1>8 DEF SizeInv

\* recompute_ranks moves an actor, and no sync from or to "asking".
LEMMA RankSized ==
    ASSUME SizeInv, NEW a \in Actor, CopyPool(a) \/ StoreRanks(a)
    PROVE  SizeInv'
<1>1. PICK place \in {"store", "apply_store", "idle", "copy"} :
           pc' = [pc EXCEPT ![a] = place]
  BY DEF CopyPool, StoreRanks
<1>2. UNCHANGED <<pool, next, asked, answers, candidates, speed>>
  BY DEF CopyPool, StoreRanks, world, loop
<1>3. Shapes'
  <2>2. pc' \in [Actor -> Stage] /\ asked' \in [Actor -> SUBSET Url]
    BY <1>1, <1>2 DEF SizeInv, Shapes, Stage
  <2>3. answers' \in [Actor -> [Url -> Answer]]
    BY <1>1, <1>2 DEF SizeInv, Shapes
  <2>4. candidates' \subseteq Url /\ speed' \in [Url -> Speeds]
    BY <1>1, <1>2 DEF SizeInv, Shapes
  <2> QED
    BY <2>2, <2>3, <2>4, ShapesAre
<1>4. \A b \in Actor : pc'[b] \in {"asking", "write"} => pc'[b] = pc[b]
  BY <1>1 DEF SizeInv, Shapes
<1>5. \A b \in Syncer : Asked(b)' = Asked(b)
  BY <1>2 DEF Asked
<1>6. AskedFor'
  BY <1>2, <1>4, <1>5 DEF SizeInv, AskedFor, Actor
<1>7. pc'[Prober] = "write" => pc[Prober] = "write"
  BY <1>4 DEF Actor
<1> QED
  BY <1>2, <1>3, <1>6, <1>7 DEF SizeInv, Fits

LEMMA SizeStep == SizeInv /\ [Next]_vars => SizeInv'
<1> SUFFICES ASSUME SizeInv, [Next]_vars PROVE SizeInv'
  OBVIOUS
<1> USE DEF world, loop
<1>p. Prober \in Actor /\ asked[Prober] \in SUBSET Url /\ answers[Prober] \in [Url -> Answer]
  BY DEF Actor, SizeInv, Shapes
<1>s. /\ asked = [asked EXCEPT ![Prober] = asked[Prober]]
      /\ answers = [answers EXCEPT ![Prober] = answers[Prober]]
      /\ Unasked \in [Url -> Answer]
  BY <1>p DEF SizeInv, Shapes, Unasked, Answer
<1>1. CASE UNCHANGED <<pool, next, pc, asked, answers, candidates, speed>>
  <2>1. Shapes'
    <3>1. /\ pc' \in [Actor -> Stage] /\ asked' \in [Actor -> SUBSET Url]
          /\ answers' \in [Actor -> [Url -> Answer]]
          /\ candidates' \subseteq Url /\ speed' \in [Url -> Speeds]
      BY <1>1 DEF SizeInv, Shapes
    <3> QED
      BY <3>1, ShapesAre
  <2> QED
    BY <1>1, <2>1, StillSized
<1>2. ASSUME NEW u \in Url, NEW t \in Speeds, SpeedChanges(u, t) PROVE SizeInv'
  <2>1. Shapes'
    <3>1. /\ UNCHANGED <<pc, asked, answers, candidates>>
          /\ speed' = [speed EXCEPT ![u] = t]
      BY <1>2 DEF SpeedChanges
    <3>2. /\ pc' \in [Actor -> Stage] /\ asked' \in [Actor -> SUBSET Url]
          /\ answers' \in [Actor -> [Url -> Answer]]
          /\ candidates' \subseteq Url /\ speed' \in [Url -> Speeds]
      BY <3>1 DEF SizeInv, Shapes
    <3> QED
      BY <3>2, ShapesAre
  <2> QED
    BY <1>2, <2>1, StillSized DEF SpeedChanges
<1>3. ASSUME NEW i \in Node, Query(i) \/ ProbeNode(i) PROVE SizeInv'
  BY <1>1, <1>3 DEF Query, ProbeNode
<1>4. ASSUME NEW r \in healing, StoreHealed(r) PROVE SizeInv'
  BY <1>1, <1>4 DEF StoreHealed
<1>5. CASE ResetCb
  BY <1>1, <1>5 DEF ResetCb
<1>6. ASSUME NEW a \in Syncer, NEW feed \in Feeds \cup {Builtin}, Fetch(a, feed) PROVE SizeInv'
  BY <1>6, FetchSized
<1>7. ASSUME NEW a \in Actor, NEW u \in Url, Ask(a, u) PROVE SizeInv'
  BY <1>7, AskSized
<1>8. ASSUME NEW a \in Syncer, Install(a) PROVE SizeInv'
  BY <1>8, InstallSized
<1>9. CASE ProbePool \/ ReadActive \/ CheckPool
  <2>1. PICK place \in {"probing", "list", "check", "copy"} : pc' = [pc EXCEPT ![Prober] = place]
    BY <1>9 DEF ProbePool, ReadActive, CheckPool
  <2>2. UNCHANGED <<pool, next, candidates, speed, asked, answers>>
    BY <1>9 DEF ProbePool, ReadActive, CheckPool
  <2>3. place \in Stage /\ place # "write"
    BY DEF Stage
  <2>4. /\ asked' = [asked EXCEPT ![Prober] = asked[Prober]]
        /\ answers' = [answers EXCEPT ![Prober] = answers[Prober]]
    BY <2>2, <1>s
  <2> QED
    BY <2>1, <2>2, <2>3, <2>4, <1>p, ProberStillSized
<1>10. CASE ListCandidates
  <2>1. PICK place \in {"copy", "asking"} : pc' = [pc EXCEPT ![Prober] = place]
    BY <1>10 DEF ListCandidates
  <2>2. PICK urls \in SUBSET Url : asked' = [asked EXCEPT ![Prober] = urls]
    BY <1>10 DEF ListCandidates, SizeInv, Shapes
  <2>3. UNCHANGED <<pool, next, candidates, speed, answers>>
    BY <1>10 DEF ListCandidates
  <2>4. place \in Stage /\ place # "write"
    BY DEF Stage
  <2>5. answers' = [answers EXCEPT ![Prober] = answers[Prober]]
    BY <2>3, <1>s
  <2> QED
    BY <2>1, <2>2, <2>3, <2>4, <2>5, <1>p, ProberStillSized
<1>11. CASE NothingToPromote
  <2>1. /\ pc' = [pc EXCEPT ![Prober] = "copy"] /\ answers' = [answers EXCEPT ![Prober] = Unasked]
        /\ UNCHANGED <<pool, next, candidates, speed, asked>>
    BY <1>11 DEF NothingToPromote, Forget
  <2>2. "copy" \in Stage /\ "copy" # "write"
    BY DEF Stage
  <2>3. asked' = [asked EXCEPT ![Prober] = asked[Prober]]
    BY <2>1, <1>s
  <2> QED
    BY <2>1, <2>2, <2>3, <1>p, <1>s, ProberStillSized
<1>12. CASE PlanPromotions
  BY <1>12, PlanSized
<1>13. CASE WritePool
  BY <1>13, WriteSized
<1>14. ASSUME NEW a \in Actor, CopyPool(a) \/ StoreRanks(a) PROVE SizeInv'
  BY <1>14, RankSized
<1>15. CASE UNCHANGED vars
  BY <1>1, <1>15 DEF vars
<1> QED
  BY <1>p, <1>2, <1>3, <1>4, <1>5, <1>6, <1>7, <1>8, <1>9, <1>10, <1>11,
     <1>12, <1>13, <1>14, <1>15
     DEF Next, SyncStep, ProberStep, Actor

LEMMA SizeStart == Init => SizeInv
<1> SUFFICES ASSUME Init PROVE SizeInv
  OBVIOUS
<1>1. Shapes
  <2>1. Unasked \in [Url -> Answer] /\ candidates \subseteq Url /\ speed \in [Url -> Speeds]
    BY PoolAssumption DEF Unasked, Answer, Init
  <2>2. pc \in [Actor -> Stage] /\ asked \in [Actor -> SUBSET Url]
    BY DEF Init, Stage
  <2>3. answers \in [Actor -> [Url -> Answer]]
    BY <2>1 DEF Init
  <2> QED
    BY <2>1, <2>2, <2>3 DEF Shapes
<1>a. AskedFor
  BY DEF Init, AskedFor, Actor
<1>2. Fits(pool)
  <2> DEFINE f == [u \in Default |-> <<u, FirstGen>>]
  <2>1. f \in Surjection(Default, pool)
    BY DEF Init, Surjection
  <2>2. IsFiniteSet(Default)
    BY PoolAssumption, FS_Subset
  <2> HIDE DEF f
  <2>3. IsFiniteSet(pool) /\ Cardinality(pool) <= Cardinality(Default)
    BY <2>1, <2>2, FS_Surjection
  <2>4. Cardinality(pool) \in Nat /\ Cardinality(Default) \in Nat
    BY <2>2, <2>3, FS_CardinalityType
  <2>5. pool # {}
    <3>1. PICK u : u \in Default
      BY PoolAssumption
    <3>2. <<u, FirstGen>> \in pool
      BY <3>1 DEF Init
    <3> QED
      BY <3>2
  <2> QED
    BY <2>3, <2>4, <2>5, PoolAssumption DEF Fits
<1>3. pc[Prober] = "idle"
  BY DEF Init, Actor
<1> QED
  BY <1>1, <1>a, <1>2, <1>3 DEF SizeInv

(***************************************************************************)
(* However syncs, probes and promotions overlap, the pool is never empty,  *)
(* never larger than PoolSize, and has no resolver twice: sync_and_rank,   *)
(* demote_degraded_and_promote_best and apply_candidate_promotions.        *)
(***************************************************************************)
THEOREM PoolIsSound == Spec => []PoolSound
<1>1. Init => DistinctInv
  BY DEF Init, DistinctInv, Distinct
<1>2. DistinctInv /\ SizeInv => PoolSound
  BY DEF DistinctInv, SizeInv, Fits, PoolSound
<1> QED
  BY <1>1, <1>2, DistinctStep, SizeStart, SizeStep, PTL DEF Spec

-----------------------------------------------------------------------------
(***************************************************************************)
(* Types.  A new node needs an identifier nobody holds.  Nobody holds more *)
(* than three nodes of one resolver: the pool, the ranked copy, and either *)
(* the probe loop's list or its plan have one each (OneEach), a clone is   *)
(* still the pool, and what nobody can see holds nothing (HeapTyped): an   *)
(* error count is healed only on a node that has errors.                   *)
(***************************************************************************)
HealingCall == [node : Node, loaded : 1..MaxErrors, answer : {"slow", "fast"}]

NodesTyped ==
    /\ \A s \in {pool, ranked, todo, degraded, next} : s \subseteq Node
    /\ copied \in [Actor -> SUBSET Node]
    /\ active \subseteq Url /\ resets \in 0..MaxResets

HeapTyped ==
    /\ heap \in [Node -> HeldNode] /\ healing \subseteq HealingCall
    /\ \A i \in Node \ Seen : heap[i] = Unused
    /\ \A r \in healing : r.node \in Seen

OneEach ==
    /\ Distinct(ranked) /\ Distinct(todo)
    /\ (todo # {} => pc[Prober] = "probing") /\ (next # {} => pc[Prober] = "write")
    /\ \A a \in Actor : copied[a] # {} => Ranking(a)

HeldInv == NodesTyped /\ HeapTyped /\ OneEach

\* A set without a resolver twice has at most one node of each.
LEMMA AtMostOne ==
    ASSUME NEW nodes, Distinct(nodes), NEW u
    PROVE  \E x \in Gen : \A g \in Gen : <<u, g>> \in nodes => g = x
<1>1. \A g, h \in Gen : <<u, g>> \in nodes /\ <<u, h>> \in nodes => g = h
  <2> TAKE g, h \in Gen
  <2>1. <<u, g>>[1] = u /\ <<u, h>>[1] = u
    OBVIOUS
  <2>2. <<u, g>> = <<u, h>> => g = h
    OBVIOUS
  <2> QED
    BY <2>1, <2>2 DEF Distinct
<1>2. CASE \E x \in Gen : <<u, x>> \in nodes
  BY <1>1, <1>2
<1>3. CASE \A x \in Gen : <<u, x>> \notin nodes
  BY <1>3, GenAssumption
<1> QED
  BY <1>2, <1>3

\* There is an identifier for every new node.
LEMMA FreshIsNode ==
    ASSUME HeldInv, RankInv, DistinctInv, NEW u \in Url
    PROVE  FreshNode(u) \in Node
<1>1. UNION {copied[a] : a \in Actor} \subseteq pool
  BY DEF HeldInv, OneEach, RankInv, CopiesCurrent
<1>2. {r.node : r \in healing} \subseteq pool \cup next
  BY DEF HeldInv, HeapTyped, Seen
<1>3. todo = {} \/ next = {}
  BY DEF HeldInv, OneEach
<1>4. Distinct(todo \cup next)
  BY <1>3 DEF HeldInv, OneEach, DistinctInv, Distinct
<1>5. Referred \subseteq pool \cup ranked \cup (todo \cup next)
  <2> DEFINE clones == UNION {copied[a] : a \in Actor}
             healed == {r.node : r \in healing}
  <2> HIDE DEF clones, healed
  <2>1. Referred = pool \cup ranked \cup todo \cup next \cup clones \cup healed
    BY DEF Referred, clones, healed
  <2>2. clones \subseteq pool /\ healed \subseteq pool \cup next
    BY <1>1, <1>2, Zenon DEF clones, healed
  <2> QED
    BY <2>1, <2>2
<1>6. PICK x \in Gen : \A g \in Gen : <<u, g>> \in pool => g = x
  BY AtMostOne DEF DistinctInv
<1>7. PICK y \in Gen : \A g \in Gen : <<u, g>> \in ranked => g = y
  BY AtMostOne DEF HeldInv, OneEach
<1>8. PICK z \in Gen : \A g \in Gen : <<u, g>> \in todo \cup next => g = z
  BY <1>4, AtMostOne
<1>9. PICK g \in Gen : g \notin {x, y, z}
  BY GenAssumption
<1>10. <<u, g>> \notin Referred
  BY <1>5, <1>6, <1>7, <1>8, <1>9
<1>11. (CHOOSE h \in Gen : <<u, h>> \notin Referred) \in Gen
  BY <1>10
<1> DEFINE h == CHOOSE h \in Gen : <<u, h>> \notin Referred
<1>12. FreshNode(u) = <<u, h>> /\ h \in Gen
  BY <1>11, Zenon DEF FreshNode
<1> HIDE DEF h
<1> QED
  BY <1>12 DEF Node

\* What record_success makes of a latency.
LEMMA AverageTyped ==
    ASSUME NEW old \in 0..4 \cup {LostLatency}, NEW answer \in {"slow", "fast"}
    PROVE  Average(old, Ticks(answer)) \in 0..4 \cup {LostLatency}
<1>1. Ticks(answer) = 1 \/ Ticks(answer) = 4
  BY DEF Ticks
<1>2. old = 0 \/ old = 1 \/ old = 2 \/ old = 3 \/ old = 4 \/ old = 59
  BY DEF LostLatency
<1> DEFINE m == Ticks(answer)
<1> HIDE DEF m
<1>3. m = 1 \/ m = 4
  BY <1>1 DEF m
<1>4. Average(old, m) \in 0..4
  BY <1>2, <1>3 DEF Average, LostLatency
<1> QED
  BY <1>4 DEF m

LEMMA UnusedTyped == Unused \in HeldNode
  BY PoolAssumption DEF Unused, HeldNode

LEMMA ProbedTyped == \A answer : Probed(answer) \in HeldNode
<1> TAKE answer
<1>1. Ticks(answer) = 1 \/ Ticks(answer) = 4 \/ Ticks(answer) = LostLatency
  BY DEF Ticks
<1>2. Ticks(answer) \in 0..4 \cup {LostLatency}
  BY <1>1 DEF LostLatency
<1> QED
  BY <1>2, PoolAssumption DEF Probed, HeldNode

LEMMA HealedTyped ==
    ASSUME NEW n \in HeldNode, NEW errors \in 0..MaxErrors, NEW answer \in {"slow", "fast"}
    PROVE  Healed(n, errors, answer) \in HeldNode
<1>1. Average(n.latency, Ticks(answer)) \in 0..4 \cup {LostLatency}
  BY AverageTyped DEF HeldNode
<1> QED
  BY <1>1 DEF Healed, HeldNode

\* A node is written only while the pool or a plan has it.
LEMMA WriteKeeps ==
    ASSUME HeapTyped, NEW i \in Node, NEW n \in HeldNode, Write(i, n),
           UNCHANGED <<pool, next>>,
           \A r \in healing' : r \in HealingCall /\ r.node \in Seen
    PROVE  HeapTyped'
<1>1. heap' \in [Node -> HeldNode]
  BY DEF HeapTyped, Write
<1>2. Seen' = Seen
  BY DEF Seen
<1>3. \A j \in Node \ Seen : heap'[j] = heap[j]
  BY DEF HeapTyped, Write
<1> QED
  BY <1>1, <1>2, <1>3 DEF HeapTyped

\* Nobody heals a node nobody sees: it has no errors.
LEMMA RecordKeeps ==
    ASSUME HeapTyped, Shapes, NEW i \in Node, Record(i), UNCHANGED <<pool, next>>
    PROVE  HeapTyped'
<1>1. heap[i] \in HeldNode /\ i[1] \in Url
  BY DEF HeapTyped, Node
<1>2. speed[i[1]] \in {"dead", "slow", "fast"}
  BY <1>1, PoolAssumption DEF Shapes
<1>3. \A r \in healing : r \in HealingCall /\ r.node \in Seen
  BY DEF HeapTyped
<1>4. CASE speed[i[1]] = "dead"
  <2>1. RecordError(i)
    BY <1>4 DEF Record
  <2>2. heap[i].errors \in 0..MaxErrors /\ MaxErrors \in Nat
    BY <1>1, PoolAssumption DEF HeldNode
  <2>3. Min({heap[i].errors + 1, MaxErrors}) \in 0..MaxErrors
    BY <2>2, MinOfTwo
  <2>4. [heap[i] EXCEPT !.errors = Min({@ + 1, MaxErrors}), !.odd = FALSE] \in HeldNode
    BY <1>1, <2>3 DEF HeldNode
  <2> QED
    BY <1>3, <2>1, <2>4, WriteKeeps DEF RecordError
<1>5. CASE speed[i[1]] # "dead"
  <2>1. PICK answer \in {"slow", "fast"} : RecordSuccess(i, answer)
    BY <1>2, <1>5 DEF Record
  <2> DEFINE counted == [heap[i] EXCEPT !.odd = ~heap[i].odd]
             errors == IF HealDue(i) THEN heap[i].errors - 1 ELSE heap[i].errors
  <2>2. counted \in HeldNode
    BY <1>1 DEF HeldNode
  <2>3. heap[i].errors \in 0..MaxErrors /\ MaxErrors \in Nat
    BY <1>1, PoolAssumption DEF HeldNode
  <2>4. errors \in 0..MaxErrors
    BY <2>3 DEF HealDue
  <2>5. Healed(counted, errors, answer) \in HeldNode
    BY <2>2, <2>4, HealedTyped
  <2>6. CASE Write(i, Healed(counted, errors, answer)) /\ UNCHANGED healing
    BY <1>3, <2>5, <2>6, WriteKeeps
  <2> DEFINE call == [node |-> i, loaded |-> heap[i].errors, answer |-> answer]
  <2>7. CASE HealDue(i) /\ Write(i, counted) /\ healing' = healing \cup {call}
    <3>1. heap[i].errors \in 1..MaxErrors
      BY <2>3, <2>7 DEF HealDue
    <3>2. call \in HealingCall
      BY <3>1 DEF HealingCall
    <3>3. i \in Seen
      <4>1. heap[i] # Unused
        BY <3>1 DEF Unused
      <4> QED
        BY <4>1 DEF HeapTyped
    <3>4. call.node = i
      OBVIOUS
    <3>5. \A r \in healing' : r \in HealingCall /\ r.node \in Seen
      BY <1>3, <2>7, <3>2, <3>3, <3>4
    <3> QED
      BY <2>2, <2>7, <3>5, WriteKeeps
  <2> QED
    BY <2>1, <2>6, <2>7 DEF RecordSuccess
<1> QED
  BY <1>4, <1>5

LEMMA StoreHealedKeeps ==
    ASSUME HeapTyped, NEW r \in healing, StoreHealed(r)
    PROVE  HeapTyped'
<1>1. r \in HealingCall /\ r.node \in Node
  BY DEF HeapTyped, HealingCall
<1>2. heap[r.node] \in HeldNode /\ r.answer \in {"slow", "fast"} /\ r.loaded \in 1..MaxErrors
  BY <1>1 DEF HeapTyped, HealingCall
<1>3. r.loaded - 1 \in 0..MaxErrors
  BY <1>2, PoolAssumption
<1>4. Healed(heap[r.node], r.loaded - 1, r.answer) \in HeldNode
  BY <1>2, <1>3, HealedTyped
<1>5. \A q \in healing' : q \in HealingCall /\ q.node \in Seen
  BY DEF StoreHealed, HeapTyped
<1>6. UNCHANGED <<pool, next>>
  BY DEF StoreHealed, loop
<1>7. Write(r.node, Healed(heap[r.node], r.loaded - 1, r.answer))
  BY DEF StoreHealed
<1> QED
  BY <1>1, <1>4, <1>5, <1>6, <1>7, WriteKeeps

LEMMA ResetKeeps ==
    ASSUME HeapTyped, ResetCb
    PROVE  HeapTyped'
<1>1. \A i \in Node : [heap[i] EXCEPT !.errors = 0] \in HeldNode
  BY PoolAssumption DEF HeapTyped, HeldNode
<1>2. heap' \in [Node -> HeldNode]
  BY <1>1 DEF ResetCb, HeapTyped
<1>3. Seen' = Seen /\ pool \subseteq Seen
  BY DEF ResetCb, Seen, loop
<1>4. \A i \in Node \ Seen : heap'[i] = heap[i]
  BY <1>3 DEF ResetCb
<1> QED
  BY <1>2, <1>3, <1>4 DEF HeapTyped, ResetCb

LEMMA DroppedKeeps ==
    ASSUME HeapTyped, NEW h \in [Node -> HeldNode], Dropped(h)
    PROVE  HeapTyped'
<1>1. heap' \in [Node -> HeldNode]
  BY UnusedTyped DEF Dropped
<1>2. healing' \subseteq HealingCall /\ \A r \in healing' : r.node \in Seen'
  BY DEF Dropped, HeapTyped
<1>3. \A i \in Node \ Seen' : heap'[i] = Unused
  BY DEF Dropped
<1> QED
  BY <1>1, <1>2, <1>3 DEF HeapTyped, HealingCall, HeldNode, Node

LEMMA AllocatedTyped ==
    ASSUME HeapTyped, NEW nodes, NEW answer
    PROVE  Allocated(nodes, answer) \in [Node -> HeldNode]
  BY ProbedTyped DEF HeapTyped, Allocated

\* A step that changes nothing but perhaps what nodes hold.
LEMMA StillHeld ==
    ASSUME HeldInv, HeapTyped',
           UNCHANGED <<pool, ranked, todo, degraded, next, copied, active, resets, pc>>
    PROVE  HeldInv'
<1>1. NodesTyped'
  BY DEF HeldInv, NodesTyped
<1>2. OneEach'
  BY DEF HeldInv, OneEach, Ranking
<1> QED
  BY <1>1, <1>2 DEF HeldInv

LEMMA HeapStill ==
    ASSUME HeapTyped, UNCHANGED <<heap, healing, pool, next>>
    PROVE  HeapTyped'
  BY DEF HeapTyped, Seen

\* A step of an actor without the lock that writes neither the pool nor a
\* plan.  Only the probe loop, and only where it probes, has a list.
LEMMA MovesHeld ==
    ASSUME HeldInv, Shapes, UNCHANGED <<pool, ranked, next, copied, heap, healing, resets>>,
           NEW a \in Actor, NEW place, pc' = [pc EXCEPT ![a] = place],
           ~Ranking(a), pc[a] # "write",
           todo' \subseteq Node, Distinct(todo'), degraded' \subseteq Node, active' \subseteq Url,
           IF a = Prober THEN todo' # {} => place = "probing" ELSE todo' = todo
    PROVE  HeldInv'
<1>1. NodesTyped'
  BY DEF HeldInv, NodesTyped
<1>2. HeapTyped'
  BY HeapStill DEF HeldInv
<1>3. /\ pc'[a] = place
      /\ \A b \in Actor \ {a} : pc'[b] = pc[b]
  BY DEF Shapes
<1>4. Prober \in Actor
  BY DEF Actor
<1>5. Distinct(ranked)' /\ Distinct(todo)'
  BY DEF HeldInv, OneEach, Distinct
<1>6. (todo' # {} => pc'[Prober] = "probing") /\ (next' # {} => pc'[Prober] = "write")
  BY <1>3, <1>4 DEF HeldInv, OneEach
<1>7. \A b \in Actor : copied'[b] # {} => Ranking(b)'
  BY <1>3 DEF HeldInv, OneEach, Ranking
<1>8. OneEach'
  BY <1>5, <1>6, <1>7 DEF OneEach
<1> QED
  BY <1>1, <1>2, <1>8 DEF HeldInv

LEMMA FreshAreNodes ==
    ASSUME HeldInv, RankInv, DistinctInv, NEW chosen \in SUBSET Url
    PROVE  {FreshNode(u) : u \in chosen} \subseteq Node
  BY FreshIsNode

LEMMA InstallHeld ==
    ASSUME HeldInv, RankInv, DistinctInv, Shapes, NEW a \in Syncer, Install(a)
    PROVE  HeldInv'
<1>1. a \in Actor /\ a # Prober /\ Prober \in Actor /\ ~Ranking(a)
  BY PoolAssumption DEF Actor, Prober, Install, Ranking
<1>2. PICK chosen \in BestOf(Asked(a), PoolSize, answers[a]) :
         LET nodes == {FreshNode(u) : u \in chosen}
         IN  pool' = nodes /\ Dropped(Allocated(nodes, answers[a]))
  BY DEF Install
<1>3. chosen \in SUBSET Url
  BY BestAreAmong DEF Asked
<1>4. pool' \subseteq Node
  BY <1>2, <1>3, FreshAreNodes
<1>5. HeapTyped'
  BY <1>2, AllocatedTyped, DroppedKeeps DEF HeldInv
<1>6. /\ UNCHANGED <<ranked, next, copied, todo, active, degraded, resets>>
      /\ pc' = [pc EXCEPT ![a] = "copy"]
  BY DEF Install, loop, world
<1>7. NodesTyped'
  BY <1>4, <1>6 DEF HeldInv, NodesTyped
<1>8. \A b \in Actor \ {a} : pc'[b] = pc[b]
  BY <1>6 DEF Shapes
<1>9. OneEach'
  BY <1>1, <1>6, <1>8 DEF HeldInv, OneEach, Ranking, Distinct
<1> QED
  BY <1>5, <1>7, <1>9 DEF HeldInv

LEMMA PlanHeld ==
    ASSUME HeldInv, RankInv, DistinctInv, Shapes, PlanPromotions
    PROVE  HeldInv'
<1>1. Prober \in Actor /\ ~Ranking(Prober) /\ todo = {}
  BY DEF Actor, PlanPromotions, Ranking, HeldInv, OneEach
<1>2. PICK chosen \in BestOf(ValidCandidates, Places, answers[Prober]) :
         LET nodes == {FreshNode(u) : u \in chosen}
         IN  /\ \E out : next' = (pool \ out) \cup nodes
             /\ Dropped(Allocated(nodes, answers[Prober]))
  BY DEF PlanPromotions
<1>3. chosen \in SUBSET Url
  BY BestAreAmong DEF ValidCandidates, Asked
<1>4. next' \subseteq Node
  <2>1. {FreshNode(u) : u \in chosen} \subseteq Node
    BY <1>3, FreshAreNodes
  <2> QED
    BY <1>2, <2>1 DEF HeldInv, NodesTyped
<1>5. HeapTyped'
  BY <1>2, AllocatedTyped, DroppedKeeps DEF HeldInv
<1>6. /\ UNCHANGED <<pool, ranked, copied, todo, active, resets>>
      /\ degraded' = Degraded /\ pc' = [pc EXCEPT ![Prober] = "write"]
  BY DEF PlanPromotions, world
<1>7. NodesTyped'
  BY <1>4, <1>6 DEF HeldInv, NodesTyped, Degraded
<1>8. pc'[Prober] = "write" /\ \A b \in Actor \ {Prober} : pc'[b] = pc[b]
  BY <1>1, <1>6 DEF Shapes
<1>9. OneEach'
  BY <1>1, <1>6, <1>8 DEF HeldInv, OneEach, Ranking, Distinct
<1> QED
  BY <1>5, <1>7, <1>9 DEF HeldInv

LEMMA WriteHeld ==
    ASSUME HeldInv, Shapes, WritePool
    PROVE  HeldInv'
<1>1. Prober \in Actor /\ ~Ranking(Prober) /\ todo = {}
  BY DEF Actor, WritePool, Ranking, HeldInv, OneEach
<1>2. HeapTyped'
  BY DroppedKeeps DEF WritePool, HeldInv, HeapTyped
<1>3. /\ UNCHANGED <<ranked, copied, todo, active, resets>>
      /\ pool' = next /\ next' = {} /\ degraded' = {}
      /\ pc' = [pc EXCEPT ![Prober] = "apply_copy"]
  BY DEF WritePool, world
<1>4. NodesTyped'
  BY <1>3 DEF HeldInv, NodesTyped
<1>5. \A b \in Actor \ {Prober} : pc'[b] = pc[b]
  BY <1>1, <1>3 DEF Shapes
<1>6. OneEach'
  BY <1>1, <1>3, <1>5 DEF HeldInv, OneEach, Ranking, Distinct
<1> QED
  BY <1>2, <1>4, <1>6 DEF HeldInv

LEMMA CopyHeld ==
    ASSUME HeldInv, Shapes, NEW a \in Actor, CopyPool(a)
    PROVE  HeldInv'
<1>1. PICK place \in {"store", "apply_store"} : pc' = [pc EXCEPT ![a] = place]
  BY DEF CopyPool
<1>2. /\ UNCHANGED <<pool, ranked, todo, degraded, next, active, resets, heap, healing>>
      /\ copied' = [copied EXCEPT ![a] = pool] /\ pc[a] \in {"copy", "apply_copy"}
  BY DEF CopyPool, loop, world
<1>3. HeapTyped'
  BY <1>2, HeapStill DEF HeldInv
<1>4. NodesTyped'
  BY <1>2 DEF HeldInv, NodesTyped
<1>5. pc'[a] = place /\ \A b \in Actor \ {a} : pc'[b] = pc[b] /\ copied'[b] = copied[b]
  BY <1>1, <1>2 DEF Shapes, HeldInv, NodesTyped
<1>6. \A b \in Actor : copied'[b] # {} => Ranking(b)'
  BY <1>5 DEF HeldInv, OneEach, Ranking
<1>7. pc[Prober] \in {"probing", "write"} => pc'[Prober] = pc[Prober]
  BY <1>2, <1>5 DEF Actor
<1>8. OneEach'
  BY <1>2, <1>6, <1>7 DEF HeldInv, OneEach, Distinct
<1> QED
  BY <1>3, <1>4, <1>8 DEF HeldInv

LEMMA StoreHeld ==
    ASSUME HeldInv, RankInv, DistinctInv, Shapes, NEW a \in Actor, StoreRanks(a)
    PROVE  HeldInv'
<1>1. PICK place \in {"idle", "copy"} : pc' = [pc EXCEPT ![a] = place]
  BY DEF StoreRanks
<1>2. /\ UNCHANGED <<pool, todo, degraded, next, active, resets, heap, healing>>
      /\ copied' = [copied EXCEPT ![a] = {}] /\ pc[a] \in {"store", "apply_store"}
      /\ ranked' = pool
  BY DEF StoreRanks, loop, world, Ranking, RankInv, CopiesCurrent
<1>3. HeapTyped'
  BY <1>2, HeapStill DEF HeldInv
<1>4. NodesTyped'
  BY <1>2 DEF HeldInv, NodesTyped
<1>5. /\ copied'[a] = {}
      /\ \A b \in Actor \ {a} : pc'[b] = pc[b] /\ copied'[b] = copied[b]
  BY <1>1, <1>2 DEF Shapes, HeldInv, NodesTyped
<1>6. \A b \in Actor : copied'[b] # {} => Ranking(b)'
  BY <1>5 DEF HeldInv, OneEach, Ranking
<1>7. pc[Prober] \in {"probing", "write"} => pc'[Prober] = pc[Prober]
  BY <1>2, <1>5 DEF Actor
<1>8. OneEach'
  BY <1>2, <1>6, <1>7 DEF HeldInv, OneEach, DistinctInv, Distinct
<1> QED
  BY <1>3, <1>4, <1>8 DEF HeldInv

LEMMA HeldStep ==
    ASSUME HeldInv, RankInv, DistinctInv, Shapes, [Next]_vars
    PROVE  HeldInv'
<1> USE DEF world, loop
<1>p. Prober \in Actor
  BY DEF Actor
<1>h. HeapTyped /\ todo \subseteq Node /\ degraded \subseteq Node /\ active \subseteq Url
      /\ pool \subseteq Node /\ Distinct(todo) /\ Distinct(pool)
  BY DEF HeldInv, NodesTyped, OneEach, DistinctInv
<1>1. ASSUME UNCHANGED <<pool, ranked, todo, degraded, next, copied, active, resets, pc,
                         heap, healing>>
      PROVE  HeldInv'
  BY <1>1, <1>h, HeapStill, StillHeld
<1>2. ASSUME NEW u \in Url, NEW s \in Speeds, SpeedChanges(u, s) PROVE HeldInv'
  BY <1>1, <1>2 DEF SpeedChanges
<1>3. ASSUME NEW i \in Node, Query(i) PROVE HeldInv'
  <2>1. HeapTyped'
    BY <1>3, <1>h, RecordKeeps DEF Query
  <2> QED
    BY <1>3, <2>1, StillHeld DEF Query
<1>4. ASSUME NEW r \in healing, StoreHealed(r) PROVE HeldInv'
  <2>1. HeapTyped'
    BY <1>4, <1>h, StoreHealedKeeps
  <2> QED
    BY <1>4, <2>1, StillHeld DEF StoreHealed
<1>5. ASSUME ResetCb PROVE HeldInv'
  <2>1. HeapTyped'
    BY <1>5, <1>h, ResetKeeps
  <2>2. /\ UNCHANGED <<pool, ranked, todo, degraded, next, copied, active, pc>>
        /\ resets < MaxResets /\ resets' = resets + 1
    BY <1>5 DEF ResetCb
  <2>3. resets' \in 0..MaxResets
    BY <2>2, PoolAssumption DEF HeldInv, NodesTyped
  <2>4. NodesTyped'
    BY <2>2, <2>3 DEF HeldInv, NodesTyped
  <2>5. OneEach'
    BY <2>2 DEF HeldInv, OneEach, Ranking
  <2> QED
    BY <2>1, <2>4, <2>5 DEF HeldInv
<1>6. ASSUME NEW a \in Syncer, NEW feed, Fetch(a, feed) PROVE HeldInv'
  <2>1. a \in Actor /\ a # Prober
    BY PoolAssumption DEF Actor, Prober
  <2>2. /\ pc' = [pc EXCEPT ![a] = "asking"] /\ ~Ranking(a) /\ pc[a] # "write"
        /\ UNCHANGED <<pool, ranked, todo, degraded, next, copied, active, resets, heap, healing>>
    BY <1>6 DEF Fetch, Ranking
  <2> QED
    BY <1>h, <2>1, <2>2, MovesHeld
<1>7. ASSUME NEW a \in Actor, NEW u \in Url, Ask(a, u) PROVE HeldInv'
  BY <1>1, <1>7 DEF Ask
<1>8. ASSUME NEW a \in Syncer, Install(a) PROVE HeldInv'
  BY <1>8, InstallHeld
<1>9. ASSUME NEW i \in Node, ProbeNode(i) PROVE HeldInv'
  <2>1. HeapTyped'
    BY <1>9, <1>h, RecordKeeps DEF ProbeNode
  <2>2. /\ UNCHANGED <<pool, ranked, degraded, next, copied, active, resets, pc>>
        /\ todo' = todo \ {i} /\ pc[Prober] = "probing"
    BY <1>9 DEF ProbeNode
  <2>3. NodesTyped'
    BY <2>2 DEF HeldInv, NodesTyped
  <2>4. OneEach'
    BY <2>2 DEF HeldInv, OneEach, Ranking, Distinct
  <2> QED
    BY <2>1, <2>3, <2>4 DEF HeldInv
<1>10. ASSUME ProbePool PROVE HeldInv'
  <2>1. /\ pc' = [pc EXCEPT ![Prober] = "probing"] /\ ~Ranking(Prober) /\ pc[Prober] # "write"
        /\ UNCHANGED <<pool, ranked, degraded, next, copied, active, resets, heap, healing>>
        /\ todo' = pool
    BY <1>10 DEF ProbePool, Ranking
  <2>2. todo' \subseteq Node /\ Distinct(todo')
    BY <1>h, <2>1 DEF Distinct
  <2> QED
    BY <1>h, <1>p, <2>1, <2>2, MovesHeld
<1>11. ASSUME CheckPool \/ ReadActive \/ ListCandidates \/ NothingToPromote PROVE HeldInv'
  <2>1. PICK place : pc' = [pc EXCEPT ![Prober] = place]
    BY <1>11 DEF CheckPool, ReadActive, ListCandidates, NothingToPromote
  <2>2. /\ ~Ranking(Prober) /\ pc[Prober] # "write"
        /\ UNCHANGED <<pool, ranked, todo, degraded, next, copied, resets, heap, healing>>
    BY <1>11 DEF CheckPool, ReadActive, ListCandidates, NothingToPromote, Ranking
  <2>3. todo = {}
    BY <1>11 DEF CheckPool, ReadActive, ListCandidates, NothingToPromote, HeldInv, OneEach
  <2>4. active' \subseteq Url
    <3>1. UrlsOf(pool) \subseteq Url
      BY <1>h DEF UrlsOf, Node
    <3>2. active' \in {active, {}, UrlsOf(pool)}
      BY <1>11 DEF CheckPool, ReadActive, ListCandidates, NothingToPromote
    <3> QED
      BY <1>h, <3>1, <3>2
  <2>5. todo' = {} /\ todo' \subseteq Node /\ Distinct(todo') /\ degraded' \subseteq Node
    BY <1>h, <2>2, <2>3 DEF Distinct
  <2> QED
    BY <1>p, <2>1, <2>2, <2>4, <2>5, MovesHeld
<1>12. ASSUME PlanPromotions PROVE HeldInv'
  BY <1>12, PlanHeld
<1>13. ASSUME WritePool PROVE HeldInv'
  BY <1>13, WriteHeld
<1>14. ASSUME NEW a \in Actor, CopyPool(a) \/ StoreRanks(a) PROVE HeldInv'
  BY <1>14, CopyHeld, StoreHeld
<1>15. ASSUME UNCHANGED vars PROVE HeldInv'
  BY <1>1, <1>15 DEF vars
<1> QED
  BY <1>p, <1>2, <1>3, <1>4, <1>5, <1>6, <1>7, <1>8, <1>9, <1>10, <1>11, <1>12, <1>13,
     <1>14, <1>15
     DEF Next, SyncStep, ProberStep, Actor

LEMMA HeldStart == Init => HeldInv
<1> SUFFICES ASSUME Init PROVE HeldInv
  OBVIOUS
<1>1. pool \subseteq Node
  <2>1. FirstGen \in Gen /\ Default \subseteq Url
    BY PoolAssumption, GenAssumption DEF FirstGen
  <2> QED
    BY <2>1 DEF Init, Node
<1>2. NodesTyped
  BY <1>1, PoolAssumption DEF Init, NodesTyped
<1>3. HeapTyped
  BY UnusedTyped DEF Init, HeapTyped
<1>4. OneEach
  <2>1. Distinct(pool)
    BY DEF Init, Distinct
  <2> QED
    BY <2>1 DEF Init, OneEach, Distinct
<1> QED
  BY <1>2, <1>3, <1>4 DEF HeldInv

(***************************************************************************)
(* Every variable keeps its type.  In particular an error counter stays    *)
(* between 0 and its bound although record_success loads it and stores one *)
(* less in two steps, and no two nodes that exist together are confused.   *)
(***************************************************************************)
THEOREM PoolTypeCorrect == Spec => []TypeOK
<1>1. Init => RankInv /\ DistinctInv
  BY DEF Init, RankInv, AreFunctions, CopiesCurrent, RanksCurrent, Ranking, DistinctInv, Distinct
<1>2. SizeInv => Shapes
  BY DEF SizeInv
<1>s. HeldInv /\ RankInv /\ DistinctInv /\ SizeInv /\ [Next]_vars => HeldInv'
  BY <1>2, HeldStep
<1>3. HeldInv /\ SizeInv => TypeOK
  BY DEF HeldInv, NodesTyped, HeapTyped, HealingCall, SizeInv, Shapes, Stage, TypeOK
<1> QED
  BY <1>1, <1>2, <1>3, RankStep, DistinctStep, SizeStart, SizeStep, HeldStart, <1>s,
     PTL DEF Spec
=============================================================================
