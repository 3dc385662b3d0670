----------------------------- MODULE LiveProofs -----------------------------
(***************************************************************************)
(* Proofs about the parts whose liveness MCLive checks: coalescing, the    *)
(* feed loop, the listeners and the hedged lookup; and, with what          *)
(* AnswersProofs shows of the query pipeline, about all five together.     *)
(***************************************************************************)
EXTENDS MCLive, AnswersProofs, FiniteSetTheorems, TLAPS

-----------------------------------------------------------------------------
(* Singleflight, for any set of callers and of keys: at most one lookup    *)
(* per key is in flight, nobody waits for a lookup that is over, and       *)
(* do_call implements the promise of Coalesce.                             *)

\* The inductive invariant: OneFlight is not inductive by itself, because
\* nothing in it says that the map knows of every leader.
IInv == TypeOK /\ MapInv /\ WaitersHaveLeader

USE ConstantsAssumption

\* Nothing is in flight and nobody waits at first.
LEMMA InitInv == Init => IInv
  BY DEF Init, IInv, TypeOK, MapInv, WaitersHaveLeader, Live, Waiting

LEMMA LeadInv == ASSUME IInv, NEW c \in Caller, NEW k \in Key, Lead(c, k)
                 PROVE  IInv'
  <1>1. TypeOK'
    BY DEF IInv, Lead, TypeOK
  <1>2. MapInv'
    BY DEF IInv, Lead, TypeOK, MapInv, Live
  <1>3. WaitersHaveLeader'
    BY DEF IInv, Lead, TypeOK, WaitersHaveLeader, Live, Waiting
  <1> QED BY <1>1, <1>2, <1>3 DEF IInv

LEMMA JoinInv == ASSUME IInv, NEW c \in Caller, NEW k \in Key, Join(c, k)
                 PROVE  IInv'
  <1>1. TypeOK'
    BY DEF IInv, Join, TypeOK
  <1>2. MapInv'
    BY DEF IInv, Join, TypeOK, MapInv, Live
  <1>3. WaitersHaveLeader'
    BY DEF IInv, Join, TypeOK, MapInv, WaitersHaveLeader, Live, Waiting
  <1> QED BY <1>1, <1>2, <1>3 DEF IInv

LEMMA LookupEndsInv == ASSUME IInv, NEW c \in Caller, LookupEnds(c)
                       PROVE  IInv'
  <1>1. TypeOK'
    BY DEF IInv, LookupEnds, TypeOK
  <1>2. MapInv'
    BY DEF IInv, LookupEnds, TypeOK, MapInv, Live
  <1>3. WaitersHaveLeader'
    BY DEF IInv, LookupEnds, TypeOK, WaitersHaveLeader, Live, Waiting
  <1> QED BY <1>1, <1>2, <1>3 DEF IInv

LEMMA FinishInv == ASSUME IInv, NEW c \in Caller, Finish(c)
                   PROVE  IInv'
  <1>1. TypeOK'
    BY DEF IInv, Finish, DropGuard, Followers, Waiting, TypeOK
  <1>2. MapInv'
    BY DEF IInv, Finish, DropGuard, TypeOK, MapInv, Live
  <1>3. WaitersHaveLeader'
    BY DEF IInv, Finish, DropGuard, Followers, TypeOK, WaitersHaveLeader, Live, Waiting
  <1> QED BY <1>1, <1>2, <1>3 DEF IInv

LEMMA ReceiveInv == ASSUME IInv, NEW c \in Caller, Receive(c)
                    PROVE  IInv'
  <1>1. TypeOK'
    BY DEF IInv, Receive, TypeOK
  <1>2. MapInv'
    BY DEF IInv, Receive, TypeOK, MapInv, Live
  <1>3. WaitersHaveLeader'
    BY DEF IInv, Receive, TypeOK, WaitersHaveLeader, Live, Waiting
  <1> QED BY <1>1, <1>2, <1>3 DEF IInv

LEMMA CancelLeaderInv == ASSUME IInv, NEW c \in Caller, CancelLeader(c)
                         PROVE  IInv'
  <1>1. TypeOK'
    BY DEF IInv, CancelLeader, DropGuard, Followers, Waiting, TypeOK
  <1>2. MapInv'
    BY DEF IInv, CancelLeader, DropGuard, TypeOK, MapInv, Live
  <1>3. WaitersHaveLeader'
    BY DEF IInv, CancelLeader, DropGuard, Followers, TypeOK, WaitersHaveLeader, Live, Waiting
  <1> QED BY <1>1, <1>2, <1>3 DEF IInv

LEMMA ResetInv == ASSUME IInv, NEW c \in Caller, pc[c] \in {"waiting", "done"}, Reset(c)
                  PROVE  IInv'
  <1>1. TypeOK'
    BY DEF IInv, Reset, TypeOK
  <1>2. MapInv'
    BY DEF IInv, Reset, TypeOK, MapInv, Live
  <1>3. WaitersHaveLeader'
    BY DEF IInv, Reset, TypeOK, WaitersHaveLeader, Live, Waiting
  <1> QED BY <1>1, <1>2, <1>3 DEF IInv

LEMMA StepInv == IInv /\ [Next]_vars => IInv'
  <1> SUFFICES ASSUME IInv, [Next]_vars PROVE IInv'
    OBVIOUS
  <1>1. CASE UNCHANGED vars
    BY <1>1 DEF vars, IInv, TypeOK, MapInv, WaitersHaveLeader, Live, Waiting
  <1>2. ASSUME NEW c \in Caller, NEW k \in Key, Lead(c, k) \/ Join(c, k) PROVE IInv'
    BY <1>2, LeadInv, JoinInv
  <1>3. ASSUME NEW c \in Caller, Progress(c) PROVE IInv'
    BY <1>3, LookupEndsInv, FinishInv, ReceiveInv, ResetInv DEF Progress, Return
  <1>4. ASSUME NEW c \in Caller, Cancel(c) PROVE IInv'
    BY <1>4, CancelLeaderInv, ResetInv DEF Cancel, CancelFollower
  <1> QED BY <1>1, <1>2, <1>3, <1>4 DEF Next

LEMMA Invariance == Spec => []IInv
  BY InitInv, StepInv, PTL DEF Spec

\* Every variable keeps its range in every reachable state.
THEOREM TypeCorrect == Spec => []TypeOK
  <1>1. IInv => TypeOK
    BY DEF IInv
  <1> QED BY <1>1, Invariance, PTL

\* At most one lookup per key is in flight, however calls, ends and
\* cancellations interleave: the map decides, and it names one leader.
THEOREM SingleFlight == Spec => []OneFlight
  <1>1. IInv => OneFlight
    BY DEF IInv, MapInv, OneFlight
  <1> QED BY <1>1, Invariance, PTL

\* The leader of whoever waits is at work on the same key: no caller can be
\* left waiting on a channel nobody will send on or close.
THEOREM NobodyStranded == Spec => []WaitersHaveLeader
  <1>1. IInv => WaitersHaveLeader
    BY DEF IInv
  <1> QED BY <1>1, Invariance, PTL

-----------------------------------------------------------------------------
(***************************************************************************)
(* The refinement.                                                         *)
(***************************************************************************)
\* The abstract variables.
group == [c \in Caller |-> IF Live(c) \/ Waiting(c) THEN key[c] ELSE NoKey]
outcomes == [c \in Caller |-> IF Live(c) THEN Empty ELSE result[c]]

\* The group of a leader's key is the leader and its followers.
LEMMA GroupOfLeader ==
  ASSUME IInv, NEW c \in Caller, Live(c), NEW d \in Caller
  PROVE  group[d] = key[c] <=> d = c \/ d \in Followers(c)
  <1>1. key[c] \in Key /\ in_flight[key[c]] = c
    BY DEF IInv, MapInv
  <1>2. Live(d) /\ key[d] = key[c] => d = c
    BY <1>1 DEF IInv, MapInv
  <1>3. ASSUME Waiting(d) PROVE key[d] = key[c] <=> leader[d] = c
    <2>1. leader[d] \in Caller /\ Live(leader[d]) /\ key[leader[d]] = key[d]
      BY <1>3 DEF IInv, TypeOK, WaitersHaveLeader, Waiting
    <2>2. in_flight[key[d]] = leader[d]
      BY <2>1 DEF IInv, MapInv
    <2> QED BY <1>1, <2>1, <2>2
  <1>4. Waiting(d) => ~Live(d)
    BY DEF Waiting, Live
  <1> QED BY <1>1, <1>2, <1>3, <1>4 DEF group, Followers

LEMMA InitRefines == Init => Abstract!Init
  BY DEF Init, Abstract!Init, Live, Waiting

LEMMA BeginRefines ==
  ASSUME IInv, NEW c \in Caller, NEW k \in Key, Lead(c, k) \/ Join(c, k)
  PROVE  Abstract!Join(c, k)
  <1>1. group[c] = NoKey /\ outcomes[c] = Empty
    BY DEF IInv, TypeOK, Lead, Join, group, outcomes, Live, Waiting
  <1>2. group' = [group EXCEPT ![c] = k]
    BY DEF IInv, TypeOK, Lead, Join, group, Live, Waiting
  <1>3. outcomes' = outcomes
    BY DEF IInv, TypeOK, Lead, Join, outcomes, Live
  <1> QED BY <1>1, <1>2, <1>3 DEF Abstract!Join, group, outcomes

LEMMA QuietRefines ==
  ASSUME IInv, NEW c \in Caller, LookupEnds(c) \/ Receive(c)
  PROVE  group' = group /\ outcomes' = outcomes
  <1>1. CASE LookupEnds(c)
    BY <1>1 DEF IInv, TypeOK, LookupEnds, group, outcomes, Live, Waiting
  <1>2. CASE Receive(c)
    BY <1>2 DEF IInv, TypeOK, Receive, group, outcomes, Live, Waiting
  <1> QED BY <1>1, <1>2

LEMMA FinishRefines ==
  ASSUME IInv, NEW c \in Caller, Finish(c)
  PROVE  Abstract!Settle(key[c], result[c])
  <1>0. Live(c) /\ result[c] # Empty /\ key[c] # NoKey /\ pc' = [pc EXCEPT ![c] = "done"]
    BY DEF Finish, Live, IInv, TypeOK
  <1>1. \A d \in Caller : group[d] = key[c] <=> d = c \/ d \in Followers(c)
    BY <1>0, GroupOfLeader
  <1>2. ASSUME NEW d \in Caller
        PROVE  /\ group'[d] = IF group[d] = key[c] THEN NoKey ELSE group[d]
               /\ outcomes'[d] = IF group[d] = key[c] THEN result[c] ELSE outcomes[d]
    <2>1. CASE d = c
      BY <1>0, <1>1, <2>1 DEF Finish, DropGuard, Followers, Waiting, Live, group, outcomes, IInv, TypeOK
    <2>2. CASE d \in Followers(c)
      BY <1>0, <1>1, <2>2 DEF Finish, DropGuard, Followers, Waiting, Live, group, outcomes, IInv, TypeOK
    <2>3. CASE d # c /\ d \notin Followers(c)
      <3>1. group[d] # key[c]
        BY <1>1, <2>3
      <3>2. result'[d] = result[d] /\ pc'[d] = pc[d] /\ key'[d] = key[d]
        BY <2>3 DEF Finish, DropGuard, IInv, TypeOK
      <3> QED BY <3>1, <3>2 DEF group, outcomes, Live, Waiting
    <2> QED BY <2>1, <2>2, <2>3
  <1> QED BY <1>1, <1>2 DEF Abstract!Settle, Abstract!Members, group, outcomes

LEMMA CancelRefines ==
  ASSUME IInv, NEW c \in Caller, CancelLeader(c)
  PROVE  Abstract!Abandon(key[c], c)
  <1>0. Live(c) /\ result[c] = Empty /\ key[c] # NoKey /\ pc' = [pc EXCEPT ![c] = "idle"]
    BY DEF CancelLeader, Live, IInv, TypeOK
  <1>1. \A d \in Caller : group[d] = key[c] <=> d = c \/ d \in Followers(c)
    BY <1>0, GroupOfLeader
  <1>2. ASSUME NEW d \in Caller
        PROVE  /\ group'[d] = IF group[d] = key[c] THEN NoKey ELSE group[d]
               /\ outcomes'[d] = IF d = c THEN Empty
                                ELSE IF group[d] = key[c] THEN Closed ELSE outcomes[d]
    <2>1. CASE d = c
      BY <1>0, <1>1, <2>1 DEF CancelLeader, DropGuard, Followers, Waiting, Live, group, outcomes, IInv, TypeOK
    <2>2. CASE d # c /\ d \in Followers(c)
      BY <1>0, <1>1, <2>2 DEF CancelLeader, DropGuard, Followers, Waiting, Live, group, outcomes, IInv, TypeOK
    <2>3. CASE d # c /\ d \notin Followers(c)
      <3>1. group[d] # key[c]
        BY <1>1, <2>3
      <3>2. result'[d] = result[d] /\ pc'[d] = pc[d] /\ key'[d] = key[d]
        BY <2>3 DEF CancelLeader, DropGuard, IInv, TypeOK
      <3> QED BY <2>3, <3>1, <3>2 DEF group, outcomes, Live, Waiting
    <2> QED BY <2>1, <2>2, <2>3
  <1>3. group[c] = key[c]
    BY <1>1
  <1> QED BY <1>1, <1>2, <1>3 DEF Abstract!Abandon, Abstract!Members, group, outcomes

LEMMA ResetRefines ==
  ASSUME IInv, NEW c \in Caller, pc[c] \in {"waiting", "done"}, Reset(c)
  PROVE  Abstract!Leave(c)
  <1>1. group' = [group EXCEPT ![c] = NoKey]
    BY DEF IInv, TypeOK, Reset, group, Live, Waiting
  <1>2. outcomes' = [outcomes EXCEPT ![c] = Empty]
    BY DEF IInv, TypeOK, Reset, outcomes, Live
  <1> QED BY <1>1, <1>2 DEF Abstract!Leave, group, outcomes

LEMMA StepRefines ==
  IInv /\ [Next]_vars => [Abstract!Next]_<<group, outcomes>>
  <1> SUFFICES ASSUME IInv, [Next]_vars
               PROVE  Abstract!Next \/ (group' = group /\ outcomes' = outcomes)
    OBVIOUS
  <1>1. CASE UNCHANGED vars
    BY <1>1 DEF vars, group, outcomes, Live, Waiting
  <1>2. ASSUME NEW c \in Caller, NEW k \in Key, Lead(c, k) \/ Join(c, k) PROVE Abstract!Next
    BY <1>2, BeginRefines DEF Abstract!Next
  <1>3. ASSUME NEW c \in Caller, LookupEnds(c) \/ Receive(c)
        PROVE  group' = group /\ outcomes' = outcomes
    BY <1>3, QuietRefines
  <1>4. ASSUME NEW c \in Caller, Finish(c) PROVE Abstract!Next
    <2>1. key[c] \in Key /\ result[c] \in Answer \cup {Closed}
      BY <1>4 DEF Finish, IInv, TypeOK
    <2>2. Abstract!Settle(key[c], result[c])
      BY <1>4, FinishRefines
    <2>3. \E k \in Key, o \in Answer \cup {Closed} : Abstract!Settle(k, o)
      BY <2>1, <2>2 DEF Abstract!Settle, Abstract!Members
    <2> QED BY <2>3 DEF Abstract!Next
  <1>5. ASSUME NEW c \in Caller, CancelLeader(c) PROVE Abstract!Next
    <2>1. key[c] \in Key
      BY <1>5 DEF CancelLeader, IInv, TypeOK
    <2> QED BY <1>5, <2>1, CancelRefines DEF Abstract!Next
  <1>6. ASSUME NEW c \in Caller, pc[c] \in {"waiting", "done"}, Reset(c) PROVE Abstract!Next
    BY <1>6, ResetRefines DEF Abstract!Next
  <1>7. CASE Next
    <2>1. PICK c \in Caller : (\E k \in Key : Lead(c, k) \/ Join(c, k)) \/ Progress(c) \/ Cancel(c)
      BY <1>7 DEF Next
    <2>2. CASE \E k \in Key : Lead(c, k) \/ Join(c, k)
      BY <2>2, <1>2
    <2>3. CASE Progress(c)
      <3>1. CASE LookupEnds(c) \/ Receive(c)
        BY <3>1, <1>3
      <3>2. CASE Finish(c)
        BY <3>2, <1>4
      <3>3. CASE Return(c)
        BY <3>3, <1>6 DEF Return
      <3> QED BY <2>3, <3>1, <3>2, <3>3 DEF Progress
    <2>4. CASE Cancel(c)
      BY <2>4, <1>5, <1>6 DEF Cancel, CancelFollower
    <2> QED BY <2>1, <2>2, <2>3, <2>4
  <1> QED BY <1>1, <1>7

\* do_call keeps the promise of Coalesce: whoever waits for a key when its
\* lookup ends is served in that very step, all with the same outcomes.
THEOREM Refinement == Spec => Implements
  <1>1. Init => Abstract!Init
    BY InitRefines
  <1>2. IInv /\ [Next]_vars => [Abstract!Next]_<<group, outcomes>>
    BY StepRefines
  <1> QED BY <1>1, <1>2, Invariance, PTL DEF Spec, Implements, Abstract!Spec, group, outcomes

-----------------------------------------------------------------------------
(* Feeds: one retry loop at a time, and no filter goes back to an older    *)
(* feed, for any number of triggers, versions, failures and restarts.      *)

Fetch1 == [done : BOOLEAN, version : Nat]
Stage == {"none", "fetch", "white", "end"}

Typed ==
    /\ published \in Nat /\ restarts \in Nat
    /\ loop \in [Loop -> [pc : Stage, block : Fetch1, white : Fetch1, next : 1..3]]
    /\ filter \in [Filter -> Nat]

Active(l) == loop[l].pc # "none"

\* Nobody but the loop that raised the flag runs while it is up.
OneLoop == \A l \in Loop : Active(l) => syncing /\ \A k \in Loop : Active(k) => k = l

\* What an active loop holds is no older than the filters it is for: only that loop changes them,
\* and it fetched what was published then, which no earlier loop can have exceeded.
Newer(l) == Active(l) =>
    /\ loop[l].block.version <= published /\ loop[l].white.version <= published
    /\ loop[l].block.version > 0 => filter["block"] <= loop[l].block.version
    /\ loop[l].white.version > 0 => \A i \in 1..3 : filter[White[i]] <= loop[l].white.version
    /\ loop[l].pc = "white" => loop[l].white.version > 0

FeedsInv ==
    /\ Typed /\ OneLoop
    /\ \A f \in Filter : filter[f] <= published
    /\ \A l \in Loop : Newer(l)

---------------------------------------------------------------------------
\* The filters: one for the block list, three for the whitelist.
LEMMA Filters ==
    /\ "block" \in Filter
    /\ \A i \in 1..3 : White[i] \in Filter /\ White[i] # "block"
    /\ \A f \in Filter : f = "block" \/ \E i \in 1..3 : f = White[i]
    /\ \A i, j \in 1..3 : White[i] = White[j] => i = j
<1>1. White[1] = "white bloom" /\ White[2] = "white exact" /\ White[3] = "white wildcards"
  BY DEF White
<1>2. \A i \in 1..3 : i = 1 \/ i = 2 \/ i = 3
  OBVIOUS
<1>3. \A i \in 1..3 : White[i] # "block"
  BY <1>1, <1>2
<1>4. \A i, j \in 1..3 : White[i] = White[j] => i = j
  BY <1>1, <1>2
<1> QED
  BY <1>3, <1>4 DEF Filter

LEMMA FetchingTyped ==
    /\ Fetching \in [pc : Stage, block : Fetch1, white : Fetch1, next : 1..3]
    /\ NoLoop \in [pc : Stage, block : Fetch1, white : Fetch1, next : 1..3]
<1>1. Asked \in Fetch1 /\ "fetch" \in Stage /\ "none" \in Stage /\ 1 \in 1..3
  BY DEF Asked, Fetch1, Stage
<1>2. Fetching = [pc |-> "fetch", block |-> Asked, white |-> Asked, next |-> 1]
  BY DEF Fetching
<1>3. NoLoop = [pc |-> "none", block |-> Asked, white |-> Asked, next |-> 1]
  BY <1>2 DEF NoLoop
<1> QED
  BY <1>1, <1>2, <1>3

LEMMA FeedsStart == FeedsInit => FeedsInv
<1> SUFFICES ASSUME FeedsInit PROVE FeedsInv
  OBVIOUS
<1>1. Typed
  BY FetchingTyped DEF FeedsInit, Typed, Unfilled
<1>2. OneLoop
  BY DEF FeedsInit, OneLoop, Active, NoLoop, Fetching
<1>3. ASSUME NEW f \in Filter PROVE filter[f] <= published
  BY DEF FeedsInit, Unfilled
<1>4. ASSUME NEW l \in Loop PROVE Newer(l)
  BY DEF FeedsInit, Newer, Active, NoLoop, Fetching
<1> QED
  BY <1>1, <1>2, <1>3, <1>4 DEF FeedsInv

\* A loop starts anew, or ends, with nothing fetched.
LEMMA FreshNewer ==
    ASSUME FeedsInv, NEW l \in Loop, published' = published,
           loop'[l] = Fetching \/ loop'[l] = NoLoop
    PROVE  Newer(l)'
  BY DEF Newer, Active, FeedsInv, Typed, Fetching, NoLoop, Asked

LEMMA TriggerKeeps ==
    ASSUME FeedsInv, NEW l \in Loop, Trigger(l)
    PROVE  FeedsInv'
<1>1. /\ loop' = [loop EXCEPT ![l] = Fetching] /\ syncing' = TRUE /\ ~syncing
      /\ UNCHANGED <<published, filter, restarts>>
  BY DEF Trigger, MayStart
<1>2. Typed'
  BY <1>1, FetchingTyped DEF FeedsInv, Typed
<1>3. OneLoop'
  BY <1>1 DEF FeedsInv, Typed, OneLoop, Active
<1>4. ASSUME NEW k \in Loop PROVE Newer(k)'
  <2>1. CASE k = l
    BY <2>1, <1>1, FreshNewer DEF FeedsInv, Typed
  <2>2. CASE k # l
    BY <2>2, <1>1 DEF FeedsInv, Typed, Newer, Active
  <2> QED
    BY <2>1, <2>2
<1> QED
  BY <1>1, <1>2, <1>3, <1>4 DEF FeedsInv

LEMMA RetryKeeps ==
    ASSUME FeedsInv, NEW l \in Loop, Retry(l)
    PROVE  FeedsInv'
<1>1. /\ loop' = [loop EXCEPT ![l] = Fetching] /\ Active(l)
      /\ UNCHANGED <<published, syncing, filter, restarts>>
  BY DEF Retry, Active
<1>2. Typed'
  BY <1>1, FetchingTyped DEF FeedsInv, Typed
<1>3. OneLoop'
  BY <1>1 DEF FeedsInv, Typed, OneLoop, Active
<1>4. ASSUME NEW k \in Loop PROVE Newer(k)'
  <2>1. CASE k = l
    BY <2>1, <1>1, FreshNewer DEF FeedsInv, Typed
  <2>2. CASE k # l
    BY <2>2, <1>1 DEF FeedsInv, Typed, Newer, Active
  <2> QED
    BY <2>1, <2>2
<1> QED
  BY <1>1, <1>2, <1>3, <1>4 DEF FeedsInv

LEMMA EndKeeps ==
    ASSUME FeedsInv, NEW l \in Loop, End(l)
    PROVE  FeedsInv'
<1>1. /\ loop' = [loop EXCEPT ![l] = NoLoop] /\ Active(l) /\ NoLoop.pc = "none"
      /\ UNCHANGED <<published, filter, restarts>>
  BY DEF End, Active, NoLoop, Fetching
<1>2. Typed'
  BY <1>1, FetchingTyped DEF FeedsInv, Typed
<1>3. OneLoop'
  BY <1>1 DEF FeedsInv, Typed, OneLoop, Active
<1>4. ASSUME NEW k \in Loop PROVE Newer(k)'
  <2>1. CASE k = l
    BY <2>1, <1>1, FreshNewer DEF FeedsInv, Typed
  <2>2. CASE k # l
    BY <2>2, <1>1 DEF FeedsInv, Typed, Newer, Active
  <2> QED
    BY <2>1, <2>2
<1> QED
  BY <1>1, <1>2, <1>3, <1>4 DEF FeedsInv

LEMMA RestartKeeps ==
    ASSUME FeedsInv, Restart
    PROVE  FeedsInv'
<1>1. /\ \A l \in Loop : loop'[l] = NoLoop
      /\ loop' = [l \in Loop |-> NoLoop] /\ NoLoop.pc = "none"
      /\ filter' = [f \in Filter |-> 0]
      /\ restarts' = restarts + 1 /\ published' = published
  BY DEF Restart, NoLoop, Fetching, Unfilled
<1>2. Typed'
  BY <1>1, FetchingTyped DEF FeedsInv, Typed, Filter
<1>3. OneLoop'
  BY <1>1 DEF OneLoop, Active
<1>4. ASSUME NEW f \in Filter PROVE filter'[f] <= published'
  BY <1>1 DEF FeedsInv, Typed
<1>5. ASSUME NEW k \in Loop PROVE Newer(k)'
  BY <1>1, FreshNewer
<1> QED
  BY <1>2, <1>3, <1>4, <1>5 DEF FeedsInv, Filter

LEMMA PublishKeeps ==
    ASSUME FeedsInv, Publish
    PROVE  FeedsInv'
<1>1. /\ published' = published + 1
      /\ UNCHANGED <<syncing, loop, filter, restarts>>
  BY DEF Publish
<1>2. Typed'
  BY <1>1 DEF FeedsInv, Typed
<1>3. OneLoop'
  BY <1>1 DEF FeedsInv, OneLoop, Active
<1>4. ASSUME NEW f \in Filter PROVE filter'[f] <= published'
  BY <1>1 DEF FeedsInv, Typed
<1>5. ASSUME NEW k \in Loop PROVE Newer(k)'
  BY <1>1 DEF FeedsInv, Typed, Newer, Active, Fetch1
<1> QED
  BY <1>2, <1>3, <1>4, <1>5 DEF FeedsInv, Filter

LEMMA FetchKeeps ==
    ASSUME FeedsInv, NEW l \in Loop, NEW list \in List, Fetch(l, list)
    PROVE  FeedsInv'
<1>1. PICK version \in {0, published} :
           loop' = [loop EXCEPT ![l] = [loop[l] EXCEPT ![list] = [done |-> TRUE, version |-> version]]]
  BY DEF Fetch
<1>2. UNCHANGED <<published, syncing, filter, restarts>> /\ loop[l].pc = "fetch"
  BY DEF Fetch
<1>3. version \in Nat /\ version <= published /\ \A f \in Filter : version > 0 => filter[f] <= version
  BY <1>1 DEF FeedsInv, Typed
<1>4. loop[l] \in [pc : Stage, block : Fetch1, white : Fetch1, next : 1..3]
  BY DEF FeedsInv, Typed
<1>5. /\ loop'[l] \in [pc : Stage, block : Fetch1, white : Fetch1, next : 1..3]
      /\ loop'[l].pc = "fetch"
      /\ \/ loop'[l].block.version = version /\ loop'[l].white = loop[l].white
         \/ loop'[l].white.version = version /\ loop'[l].block = loop[l].block
      /\ \A k \in Loop : k # l => loop'[k] = loop[k]
  <2>0. [done |-> TRUE, version |-> version] \in Fetch1
    BY <1>3 DEF Fetch1
  <2>1. CASE list = "block"
    <3>1. /\ loop'[l] = [loop[l] EXCEPT !.block = [done |-> TRUE, version |-> version]]
          /\ \A k \in Loop : k # l => loop'[k] = loop[k]
      BY <2>1, <1>1 DEF FeedsInv, Typed
    <3>2. loop'[l].block.version = version /\ loop'[l].white = loop[l].white
      BY <3>1, <1>4
    <3>3. loop'[l].pc = "fetch"
      BY <3>1, <1>2, <1>4
    <3>4. loop'[l] \in [pc : Stage, block : Fetch1, white : Fetch1, next : 1..3]
      BY <3>1, <2>0, <1>4
    <3> QED
      BY <3>1, <3>2, <3>3, <3>4
  <2>2. CASE list = "white"
    <3>1. /\ loop'[l] = [loop[l] EXCEPT !.white = [done |-> TRUE, version |-> version]]
          /\ \A k \in Loop : k # l => loop'[k] = loop[k]
      BY <2>2, <1>1 DEF FeedsInv, Typed
    <3>2. loop'[l].white.version = version /\ loop'[l].block = loop[l].block
      BY <3>1, <1>4
    <3>3. loop'[l].pc = "fetch"
      BY <3>1, <1>2, <1>4
    <3>4. loop'[l] \in [pc : Stage, block : Fetch1, white : Fetch1, next : 1..3]
      BY <3>1, <2>0, <1>4
    <3> QED
      BY <3>1, <3>2, <3>3, <3>4
  <2> QED
    BY <2>1, <2>2 DEF List
<1>6. Typed'
  <2>1. loop' \in [Loop -> [pc : Stage, block : Fetch1, white : Fetch1, next : 1..3]]
    BY <1>1, <1>5 DEF FeedsInv, Typed
  <2> QED
    BY <2>1, <1>2 DEF FeedsInv, Typed
<1>7. OneLoop'
  BY <1>2, <1>5 DEF FeedsInv, OneLoop, Active
<1>8. ASSUME NEW k \in Loop PROVE Newer(k)'
  <2>1. CASE k = l
    BY <2>1, <1>2, <1>3, <1>4, <1>5, Filters DEF FeedsInv, Typed, Newer, Active, Fetch1
  <2>2. CASE k # l
    BY <2>2, <1>2, <1>5 DEF FeedsInv, Newer, Active
  <2> QED
    BY <2>1, <2>2
<1> QED
  BY <1>2, <1>6, <1>7, <1>8 DEF FeedsInv

---------------------------------------------------------------------------
(* The swaps, where filters change.                                        *)

\* While a loop is active the others are not, so what it swaps in concerns nobody else.
LEMMA OthersIdle ==
    ASSUME FeedsInv, NEW l \in Loop, Active(l), NEW k \in Loop, k # l
    PROVE  ~Active(k)
  BY DEF FeedsInv, OneLoop

LEMMA SwapBlockKeeps ==
    ASSUME FeedsInv, NEW l \in Loop, SwapBlock(l)
    PROVE  FeedsInv' /\ \A f \in Filter : filter[f] <= filter'[f]
<1>1. /\ loop[l].pc = "fetch" /\ Active(l)
      /\ filter' = IF loop[l].block.version > 0
                     THEN [filter EXCEPT !["block"] = loop[l].block.version] ELSE filter
      /\ UNCHANGED <<published, syncing, restarts>>
  BY DEF SwapBlock, Fetched, Wanted, Active
<1>2. PICK place \in {"white", "end"} :
           /\ loop' = [loop EXCEPT ![l] = [loop[l] EXCEPT !.pc = place]]
           /\ place = "white" => loop[l].white.version > 0
  BY DEF SwapBlock, Wanted
<1>3. loop[l] \in [pc : Stage, block : Fetch1, white : Fetch1, next : 1..3]
  BY DEF FeedsInv, Typed
<1>4. /\ loop'[l] \in [pc : Stage, block : Fetch1, white : Fetch1, next : 1..3]
      /\ loop'[l].pc = place /\ loop'[l].block = loop[l].block /\ loop'[l].white = loop[l].white
      /\ \A k \in Loop : k # l => loop'[k] = loop[k]
  <2>1. loop'[l] = [loop[l] EXCEPT !.pc = place] /\ \A k \in Loop : k # l => loop'[k] = loop[k]
    BY <1>2 DEF FeedsInv, Typed
  <2>2. place \in Stage
    BY DEF Stage
  <2> QED
    BY <2>1, <2>2, <1>3
<1>5. /\ loop[l].block.version \in Nat /\ loop[l].block.version <= published
      /\ loop[l].block.version > 0 => filter["block"] <= loop[l].block.version
      /\ filter \in [Filter -> Nat] /\ published \in Nat
  BY <1>1, <1>3 DEF FeedsInv, Newer, Typed, Fetch1
<1>6. /\ filter' \in [Filter -> Nat]
      /\ \A f \in Filter : filter[f] <= filter'[f] /\ filter'[f] <= published
      /\ \A i \in 1..3 : filter'[White[i]] = filter[White[i]]
      /\ loop[l].block.version > 0 => filter'["block"] = loop[l].block.version
  <2>1. CASE loop[l].block.version > 0
    <3>1. filter' = [filter EXCEPT !["block"] = loop[l].block.version]
      BY <2>1, <1>1
    <3> QED
      BY <3>1, <2>1, <1>5, Filters DEF FeedsInv
  <2>2. CASE ~(loop[l].block.version > 0)
    BY <2>2, <1>1, <1>5, Filters DEF FeedsInv
  <2> QED
    BY <2>1, <2>2
<1>7. Typed'
  <2>1. loop' \in [Loop -> [pc : Stage, block : Fetch1, white : Fetch1, next : 1..3]]
    BY <1>2, <1>4 DEF FeedsInv, Typed
  <2> QED
    BY <2>1, <1>1, <1>6 DEF FeedsInv, Typed, Filter, Stage, Fetch1
<1>8. OneLoop'
  BY <1>1, <1>4 DEF FeedsInv, OneLoop, Active
<1>9. ASSUME NEW k \in Loop PROVE Newer(k)'
  <2>1. CASE k = l
    BY <2>1, <1>1, <1>2, <1>4, <1>5, <1>6, Filters DEF FeedsInv, Newer
  <2>2. CASE k # l
    BY <2>2, <1>1, <1>4, OthersIdle DEF Newer, Active
  <2> QED
    BY <2>1, <2>2
<1> QED
  BY <1>1, <1>6, <1>7, <1>8, <1>9 DEF FeedsInv, Filter

LEMMA SwapWhiteKeeps ==
    ASSUME FeedsInv, NEW l \in Loop, SwapWhite(l)
    PROVE  FeedsInv' /\ \A f \in Filter : filter[f] <= filter'[f]
<1>1. /\ loop[l].pc = "white" /\ Active(l)
      /\ filter' = [filter EXCEPT ![White[loop[l].next]] = loop[l].white.version]
      /\ UNCHANGED <<published, syncing, restarts>>
  BY DEF SwapWhite, Active
<1>2. PICK place \in {"white", "end"}, n \in 1..3 :
           loop' = [loop EXCEPT ![l] = [loop[l] EXCEPT !.next = n, !.pc = place]]
  <2>1. loop[l].next \in 1..3
    BY DEF FeedsInv, Typed
  <2> DEFINE n == IF loop[l].next = 3 THEN 1 ELSE loop[l].next + 1
             place == IF loop[l].next = 3 THEN "end" ELSE "white"
  <2>2. n \in 1..3 /\ place \in {"white", "end"}
    BY <2>1
  <2>3. loop' = [loop EXCEPT ![l] = [loop[l] EXCEPT !.next = n, !.pc = place]]
    BY <1>1 DEF SwapWhite, FeedsInv, Typed
  <2> QED
    BY <2>2, <2>3
<1>3. loop[l] \in [pc : Stage, block : Fetch1, white : Fetch1, next : 1..3]
  BY DEF FeedsInv, Typed
<1>4. /\ loop'[l] \in [pc : Stage, block : Fetch1, white : Fetch1, next : 1..3]
      /\ loop'[l].pc = place /\ loop'[l].block = loop[l].block /\ loop'[l].white = loop[l].white
      /\ \A k \in Loop : k # l => loop'[k] = loop[k]
  <2>1. /\ loop'[l] = [loop[l] EXCEPT !.next = n, !.pc = place]
        /\ \A k \in Loop : k # l => loop'[k] = loop[k]
    BY <1>2 DEF FeedsInv, Typed
  <2>2. place \in Stage
    BY DEF Stage
  <2> QED
    BY <2>1, <2>2, <1>3
<1>5. /\ loop[l].white.version \in Nat /\ loop[l].white.version <= published
      /\ loop[l].white.version > 0
      /\ \A i \in 1..3 : filter[White[i]] <= loop[l].white.version
      /\ filter \in [Filter -> Nat] /\ published \in Nat /\ loop[l].next \in 1..3
  BY <1>1, <1>3 DEF FeedsInv, Newer, Typed, Fetch1
<1>6. /\ filter' \in [Filter -> Nat]
      /\ \A f \in Filter : filter[f] <= filter'[f] /\ filter'[f] <= published
      /\ \A i \in 1..3 : filter'[White[i]] <= loop[l].white.version
      /\ filter'["block"] = filter["block"]
  <2>1. White[loop[l].next] \in Filter /\ White[loop[l].next] # "block" /\ "block" \in Filter
    BY <1>5, Filters
  <2>2. \A f \in Filter : filter[f] <= published
    BY DEF FeedsInv
  <2> QED
    BY <2>1, <2>2, <1>1, <1>5, Filters
<1>7. Typed'
  <2>1. loop' \in [Loop -> [pc : Stage, block : Fetch1, white : Fetch1, next : 1..3]]
    BY <1>2, <1>4 DEF FeedsInv, Typed
  <2> QED
    BY <2>1, <1>1, <1>6 DEF FeedsInv, Typed, Filter, Stage, Fetch1
<1>8. OneLoop'
  BY <1>1, <1>4 DEF FeedsInv, OneLoop, Active
<1>9. ASSUME NEW k \in Loop PROVE Newer(k)'
  <2>1. CASE k = l
    BY <2>1, <1>1, <1>4, <1>5, <1>6 DEF FeedsInv, Newer
  <2>2. CASE k # l
    BY <2>2, <1>1, <1>4, OthersIdle DEF Newer, Active
  <2> QED
    BY <2>1, <2>2
<1> QED
  BY <1>1, <1>6, <1>7, <1>8, <1>9 DEF FeedsInv, Filter

---------------------------------------------------------------------------
LEMMA FeedsStep ==
    FeedsInv /\ [FeedsNext]_feedsVars
      => FeedsInv' /\ (restarts' # restarts \/ \A f \in Filter : filter'[f] >= filter[f])
<1> SUFFICES ASSUME FeedsInv, [FeedsNext]_feedsVars
             PROVE  FeedsInv' /\ (restarts' # restarts \/ \A f \in Filter : filter'[f] >= filter[f])
  OBVIOUS
<1> DEFINE Keeps == filter' = filter \/ restarts' # restarts
                      \/ \A f \in Filter : filter[f] <= filter'[f]
<1>1. ASSUME Publish PROVE FeedsInv' /\ Keeps
  BY <1>1, PublishKeeps DEF Publish
<1>2. ASSUME Restart PROVE FeedsInv' /\ Keeps
  <2>1. restarts' = restarts + 1 /\ restarts \in Nat
    BY <1>2 DEF Restart, FeedsInv, Typed
  <2> QED
    BY <2>1, <1>2, RestartKeeps
<1>3. ASSUME NEW l \in Loop, Trigger(l) PROVE FeedsInv' /\ Keeps
  BY <1>3, TriggerKeeps DEF Trigger
<1>4. ASSUME NEW l \in Loop, Works(l) PROVE FeedsInv' /\ Keeps
  <2>1. CASE SwapBlock(l) \/ SwapWhite(l)
    BY <2>1, SwapBlockKeeps, SwapWhiteKeeps
  <2>2. CASE Retry(l)
    BY <2>2, RetryKeeps DEF Retry
  <2>3. CASE End(l)
    BY <2>3, EndKeeps DEF End
  <2>4. ASSUME NEW list \in List, Fetch(l, list) PROVE FeedsInv' /\ Keeps
    BY <2>4, FetchKeeps DEF Fetch
  <2> QED
    BY <1>4, <2>1, <2>2, <2>3, <2>4 DEF Works
<1>5. ASSUME UNCHANGED feedsVars PROVE FeedsInv' /\ Keeps
  <2>1. UNCHANGED <<published, syncing, loop, filter, restarts>>
    BY <1>5 DEF feedsVars
  <2>2. Typed' /\ OneLoop'
    BY <2>1 DEF FeedsInv, Typed, OneLoop, Active, Filter, Stage, Fetch1
  <2>3. ASSUME NEW l \in Loop PROVE Newer(l)'
    BY <2>1 DEF FeedsInv, Newer, Active
  <2> QED
    BY <2>1, <2>2, <2>3 DEF FeedsInv, Filter
<1> HIDE DEF Keeps
<1>6. FeedsInv' /\ Keeps
  BY <1>1, <1>2, <1>3, <1>4, <1>5 DEF FeedsNext
<1>7. \A f \in Filter : filter[f] \in Nat /\ filter'[f] \in Nat
  BY <1>6 DEF FeedsInv, Typed, Filter
<1> QED
  BY <1>6, <1>7 DEF Keeps

\* The flag is up only for a loop, and failures and restarts are counted.
FlagHasLoop == syncing => \E l \in Loop : Active(l)
FeedsCounted == restarts <= MaxRestart /\ failed \in [List -> 0..MaxFail]
PublishedTyped == published \in Version

LEMMA FlagStep == FeedsInv /\ FlagHasLoop /\ [FeedsNext]_feedsVars => FlagHasLoop'
<1> SUFFICES ASSUME FeedsInv, FlagHasLoop, [FeedsNext]_feedsVars PROVE FlagHasLoop'
  OBVIOUS
<1>t. loop \in [Loop -> [pc : Stage, block : Fetch1, white : Fetch1, next : 1..3]]
  BY DEF FeedsInv, Typed
<1>1. ASSUME NEW l \in Loop, Trigger(l) PROVE FlagHasLoop'
  <2>1. loop'[l].pc = "fetch"
    BY <1>t, <1>1 DEF Trigger, Fetching
  <2> QED
    BY <2>1 DEF FlagHasLoop, Active
<1>2. ASSUME NEW l \in Loop, End(l) PROVE FlagHasLoop'
  BY <1>2 DEF End, Released, FlagHasLoop
<1>3. ASSUME NEW l \in Loop, SwapBlock(l) \/ SwapWhite(l) \/ Retry(l) \/ \E list \in List : Fetch(l, list)
      PROVE  FlagHasLoop'
  <2>1. loop'[l].pc # "none"
    <3>1. CASE SwapBlock(l)
      BY <1>t, <3>1 DEF SwapBlock
    <3>2. CASE SwapWhite(l)
      <4>1. loop'[l].pc = IF loop[l].next = 3 THEN "end" ELSE loop[l].pc
        BY <1>t, <3>2 DEF SwapWhite
      <4> QED
        BY <4>1, <3>2 DEF SwapWhite
    <3>3. CASE Retry(l)
      BY <1>t, <3>3 DEF Retry, Fetching
    <3>4. ASSUME NEW list \in List, Fetch(l, list) PROVE loop'[l].pc # "none"
      <4>1. loop'[l].pc = loop[l].pc
        BY <1>t, <3>4 DEF Fetch, List
      <4> QED
        BY <4>1, <3>4 DEF Fetch
    <3> QED
      BY <1>3, <3>1, <3>2, <3>3, <3>4
  <2> QED
    BY <2>1 DEF FlagHasLoop, Active
<1>4. ASSUME UNCHANGED <<syncing, loop>> PROVE FlagHasLoop'
  BY <1>4 DEF FlagHasLoop, Active
<1>5. ASSUME Restart PROVE FlagHasLoop'
  BY <1>5 DEF Restart, FlagHasLoop
<1>6. ASSUME Publish PROVE FlagHasLoop'
  BY <1>6, <1>4 DEF Publish
<1>7. ASSUME UNCHANGED feedsVars PROVE FlagHasLoop'
  BY <1>7, <1>4 DEF feedsVars
<1> QED
  BY <1>1, <1>2, <1>3, <1>5, <1>6, <1>7 DEF FeedsNext, Works

LEMMA CountStep == FeedsInv /\ FeedsCounted /\ [FeedsNext]_feedsVars => FeedsCounted'
<1> SUFFICES ASSUME FeedsInv, FeedsCounted, [FeedsNext]_feedsVars PROVE FeedsCounted'
  OBVIOUS
<1>1. ASSUME NEW l \in Loop, NEW list \in List, Fetch(l, list) PROVE FeedsCounted'
  <2>1. PICK version \in {0, published} :
           /\ version = 0 => failed[list] < MaxFail
           /\ failed' = [failed EXCEPT ![list] = IF version = 0 THEN @ + 1 ELSE 0]
    BY <1>1 DEF Fetch
  <2>2. (IF version = 0 THEN failed[list] + 1 ELSE 0) \in 0..MaxFail
    BY <2>1, FeedsAssumption DEF FeedsCounted
  <2> QED
    BY <2>1, <2>2, <1>1 DEF Fetch, FeedsCounted
<1>2. ASSUME Restart PROVE FeedsCounted'
  <2>1. restarts' <= MaxRestart
    BY <1>2, FeedsAssumption DEF Restart, FeedsInv, Typed
  <2> QED
    BY <1>2, <2>1, FeedsAssumption DEF Restart, FeedsCounted
<1>3. ASSUME UNCHANGED <<failed, restarts>> PROVE FeedsCounted'
  BY <1>3 DEF FeedsCounted
<1>4. ASSUME NEW l \in Loop, Trigger(l) \/ SwapBlock(l) \/ SwapWhite(l) \/ Retry(l) \/ End(l)
      PROVE  FeedsCounted'
  BY <1>3, <1>4 DEF Trigger, SwapBlock, SwapWhite, Retry, End
<1>5. ASSUME Publish \/ UNCHANGED feedsVars PROVE FeedsCounted'
  BY <1>3, <1>5 DEF Publish, feedsVars
<1> QED
  BY <1>1, <1>2, <1>4, <1>5 DEF FeedsNext, Works

LEMMA VersionStep == PublishedTyped /\ [FeedsNext]_feedsVars => PublishedTyped'
<1> SUFFICES ASSUME PublishedTyped, [FeedsNext]_feedsVars PROVE PublishedTyped'
  OBVIOUS
<1>1. published' = published \/ (published < MaxVersion /\ published' = published + 1)
  BY DEF FeedsNext, Publish, Restart, Trigger, Works, SwapBlock, SwapWhite, Retry, End, Fetch, feedsVars
<1> QED
  BY <1>1, FeedsAssumption DEF Version, PublishedTyped

LEMMA FeedsTyped == FeedsInv /\ FeedsCounted /\ PublishedTyped => FeedsTypeOK
<1> SUFFICES ASSUME FeedsInv, FeedsCounted, PublishedTyped PROVE FeedsTypeOK
  OBVIOUS
<1>1. ASSUME NEW l \in Loop
      PROVE  loop[l].pc \in {"none", "fetch", "white", "end"} /\ loop[l].next \in 1..3
  BY DEF FeedsInv, Typed, Stage
<1> QED
  BY <1>1 DEF FeedsInv, FeedsCounted, PublishedTyped, FeedsTypeOK

\* The counters, the filters and the loops of sync_threat_feeds keep their ranges.
THEOREM FeedsTypeCorrect == FeedsSpec => []FeedsTypeOK
<1>1. FeedsInit => FeedsCounted /\ PublishedTyped
  BY FeedsAssumption DEF FeedsInit, FeedsCounted, PublishedTyped, Version, List
<1> QED
  BY <1>1, FeedsStart, FeedsStep, CountStep, VersionStep, FeedsTyped, PTL DEF FeedsSpec

(***************************************************************************)
(* is_feed_syncing is up only while a loop is at work: a trigger that      *)
(* finds it up and is dropped (state.rs:1643) has not been dropped for     *)
(* nothing, through failures, retries and restarts.                        *)
(***************************************************************************)
THEOREM TriggersServed == FeedsSpec => [](syncing => \E l \in Loop : loop[l].pc # "none")
<1>1. FeedsInit => FlagHasLoop
  BY DEF FeedsInit, FlagHasLoop
<1>2. FlagHasLoop => (syncing => \E l \in Loop : loop[l].pc # "none")
  BY DEF FlagHasLoop, Active
<1> QED
  BY <1>1, <1>2, FeedsStart, FeedsStep, FlagStep, PTL DEF FeedsSpec

(***************************************************************************)
(* Triggers by the boot, the cron and the administrators never have two    *)
(* retry loops run at a time: is_feed_syncing (state.rs).                  *)
(***************************************************************************)
THEOREM OneLoopAtATime ==
    FeedsSpec => [](\A k, l \in Loop : loop[k].pc # "none" /\ loop[l].pc # "none" => k = l)
<1>1. FeedsInv => \A k, l \in Loop : loop[k].pc # "none" /\ loop[l].pc # "none" => k = l
  BY DEF FeedsInv, OneLoop, Active
<1> QED
  BY <1>1, FeedsStart, FeedsStep, PTL DEF FeedsSpec

(***************************************************************************)
(* While the process runs no filter is emptied or set back to an older     *)
(* feed: sync_threat_feeds swaps in what is newer than what it replaces.   *)
(***************************************************************************)
THEOREM FiltersAreKept == FeedsSpec => FiltersKept
<1> QED
  BY FeedsStart, FeedsStep, PTL DEF FeedsSpec, FiltersKept

---------------------------------------------------------------------------
(* The listeners.  AsksKept is about a step; the invariant says which      *)
(* steps there can be: a writer has only stopped where nothing is left to  *)
(* write, or nobody reads, and a connection that is not open has no        *)
(* queries that its end could drop.                                        *)

AskState == {"none", "running", "ready", "queued", "writing", "answered", "lost"}
ClientState == {"active", "silent", "deaf", "stuck", "gone"}

ListenersTyped ==
    /\ kind \in Kind /\ free \in Nat
    /\ conn \in [Conn -> {"none", "hello", "open"}]
    /\ client \in [Conn -> ClientState]
    /\ reader \in [Conn -> {"read", "refuse", "done"}]
    /\ writer \in [Conn -> {"run", "gone"}]
    /\ ask \in [Conn -> [Query -> AskState]]

Taken == {c \in Conn : conn[c] # "none"}
PermitsAdd == free = Room - Cardinality(Taken)
ChannelFits == \A c \in Conn : Cardinality(Holding(c, "queued")) <= Depth
QuietBefore == \A c \in Conn : conn[c] # "open" => ask[c] = Unasked

\* A writer stops when all is answered and nothing can be asked any more, or when nobody reads.
WriterStops == \A c \in Conn : kind \in Framed /\ conn[c] # "none" /\ writer[c] = "gone" =>
    client[c] \notin Reads \/ (reader[c] = "done" /\ InFlight(c) = {})

ListenersInv ==
    ListenersTyped /\ PermitsAdd /\ ChannelFits /\ QuietBefore /\ WriterStops

Kept == \A c \in Conn : kind # "udp" /\ client[c] \in Reads =>
            \A i \in InFlight(c) : i \in InFlight(c)' \/ ask'[c][i] = "answered"

---------------------------------------------------------------------------
LEMMA SomeQueued ==
    ASSUME ListenersTyped, NEW c \in Conn
    PROVE  IsFiniteSet(Holding(c, "queued")) /\ Cardinality(Holding(c, "queued")) \in Nat
<1>1. IsFiniteSet(Query)
  BY ListenersAssumption, FS_Interval DEF Query
<1>2. Holding(c, "queued") \in SUBSET Query
  BY DEF Holding
<1>3. IsFiniteSet(Holding(c, "queued"))
  BY <1>1, <1>2, FS_Subset
<1> QED
  BY <1>3, FS_CardinalityType

\* Where no answer more is queued, the channel still fits.
LEMMA FitsStill ==
    ASSUME ListenersTyped, ChannelFits,
           \A c \in Conn : Holding(c, "queued")' \subseteq Holding(c, "queued")
    PROVE  ChannelFits'
<1> SUFFICES ASSUME NEW c \in Conn PROVE Cardinality(Holding(c, "queued")') <= Depth
  BY DEF ChannelFits
<1> DEFINE old == Holding(c, "queued")
           new == Holding(c, "queued")'
<1>1. IsFiniteSet(old) /\ Cardinality(old) \in Nat /\ Cardinality(old) <= Depth
  BY SomeQueued DEF ChannelFits
<1>2. new \in SUBSET old
  OBVIOUS
<1> HIDE DEF old, new
<1>3. IsFiniteSet(new) /\ Cardinality(new) <= Cardinality(old)
  BY <1>1, <1>2, FS_Subset
<1>4. Cardinality(new) \in Nat
  BY <1>3, FS_CardinalityType
<1> QED
  BY <1>1, <1>3, <1>4, ListenersAssumption DEF new

LEMMA QueuedIs ==
    ASSUME NEW c \in Conn, ListenersTyped, ListenersTyped',
           \A i \in Query : ask'[c][i] = "queued" => ask[c][i] = "queued"
    PROVE  Holding(c, "queued")' \subseteq Holding(c, "queued")
BY DEF Holding

LEMMA UnaskedIs ==
    /\ Unasked \in [Query -> AskState] /\ \A i \in Query : Unasked[i] = "none"
    /\ 1 \in Query /\ [Unasked EXCEPT ![1] = "running"] \in [Query -> AskState]
    /\ \A i \in Query : [Unasked EXCEPT ![1] = "running"][i] \in {"none", "running"}
<1>1. 1 \in Query
  BY ListenersAssumption DEF Query
<1>2. Unasked \in [Query -> AskState] /\ \A i \in Query : Unasked[i] = "none"
  BY DEF Unasked, AskState
<1>3. [Unasked EXCEPT ![1] = "running"] \in [Query -> AskState]
  BY <1>1, <1>2 DEF AskState
<1>4. \A i \in Query : [Unasked EXCEPT ![1] = "running"][i] \in {"none", "running"}
  BY <1>1, <1>2
<1> QED
  BY <1>1, <1>2, <1>3, <1>4

LEMMA ListenersStart == ListenersInit => ListenersInv
<1> SUFFICES ASSUME ListenersInit PROVE ListenersInv
  OBVIOUS
<1>1. ListenersTyped
  BY UnaskedIs, ListenersAssumption DEF ListenersInit, ListenersTyped, ClientState
<1>2. Taken = {}
  BY DEF ListenersInit, Taken
<1>3. PermitsAdd
  BY <1>2, FS_EmptySet, ListenersAssumption DEF ListenersInit, PermitsAdd
<1>4. ASSUME NEW c \in Conn PROVE Holding(c, "queued") = {}
  BY UnaskedIs DEF ListenersInit, Holding
<1>5. ChannelFits
  BY <1>4, FS_EmptySet, ListenersAssumption DEF ChannelFits
<1>6. QuietBefore
  BY DEF ListenersInit, QuietBefore
<1>7. WriterStops
  BY DEF ListenersInit, WriterStops
<1> QED
  BY <1>1, <1>3, <1>5, <1>6, <1>7 DEF ListenersInv

---------------------------------------------------------------------------
(* Connections come and go.                                                *)

LEMMA TakenFinite == IsFiniteSet(Taken) /\ Cardinality(Taken) \in Nat
<1>1. Taken \in SUBSET Conn
  BY DEF Taken
<1>2. IsFiniteSet(Taken)
  BY <1>1, ListenersAssumption, FS_Subset
<1> QED
  BY <1>2, FS_CardinalityType

LEMMA AcceptKeeps ==
    ASSUME ListenersInv, NEW c \in Conn, Accept(c)
    PROVE  ListenersInv' /\ Kept
<1> DEFINE first == IF kind = "udp" THEN [Unasked EXCEPT ![1] = "running"] ELSE Unasked
           state == IF kind \in {"udp", "tcp"} THEN "open" ELSE "hello"
<1>t. ListenersTyped
  BY DEF ListenersInv
<1>1. /\ conn[c] = "none" /\ free > 0 /\ free' = free - 1 /\ kind' = kind
      /\ conn' = [conn EXCEPT ![c] = state] /\ client' = [client EXCEPT ![c] = "active"]
      /\ reader' = [reader EXCEPT ![c] = "read"] /\ writer' = [writer EXCEPT ![c] = "run"]
      /\ ask' = [ask EXCEPT ![c] = first]
  BY DEF Accept
<1>2. first \in [Query -> AskState] /\ \A i \in Query : first[i] # "queued"
  BY UnaskedIs
<1>3. state \in {"open", "hello"} /\ (state = "hello" => first = Unasked)
  OBVIOUS
<1> HIDE DEF first, state
<1>4. ListenersTyped'
  <2>1. free' \in Nat
    BY <1>t, <1>1 DEF ListenersTyped
  <2> QED
    BY <1>t, <1>1, <1>2, <1>3, <2>1 DEF ListenersTyped, ClientState
<1>5. PermitsAdd'
  <2>1. Taken' = Taken \cup {c} /\ c \notin Taken
    BY <1>t, <1>1, <1>3 DEF Taken, ListenersTyped
  <2>2. Cardinality(Taken') = Cardinality(Taken) + 1
    BY <2>1, TakenFinite, FS_AddElement
  <2>3. free = Room - Cardinality(Taken) /\ free \in Nat
    BY <1>t DEF ListenersInv, PermitsAdd, ListenersTyped
  <2> QED
    BY <1>1, <2>2, <2>3, TakenFinite, ListenersAssumption DEF PermitsAdd
<1>6. ChannelFits'
  <2>1. ASSUME NEW d \in Conn PROVE \A i \in Query : ask'[d][i] = "queued" => ask[d][i] = "queued"
    BY <1>t, <1>1, <1>2 DEF ListenersTyped
  <2> QED
    BY <1>t, <1>4, <2>1, QueuedIs, FitsStill DEF ListenersInv
<1>7. QuietBefore'
  BY <1>t, <1>1, <1>3 DEF ListenersInv, QuietBefore, ListenersTyped
<1>8. WriterStops'
  <2> SUFFICES ASSUME NEW d \in Conn, kind \in Framed, conn'[d] # "none", writer'[d] = "gone"
               PROVE  client'[d] \notin Reads \/ (reader'[d] = "done" /\ InFlight(d)' = {})
    BY <1>1 DEF WriterStops
  <2>1. d # c
    BY <1>t, <1>1 DEF ListenersTyped
  <2>2. /\ conn'[d] = conn[d] /\ writer'[d] = writer[d] /\ client'[d] = client[d]
        /\ reader'[d] = reader[d] /\ ask'[d] = ask[d]
    BY <1>t, <1>1, <2>1 DEF ListenersTyped
  <2> QED
    BY <2>2 DEF ListenersInv, WriterStops, InFlight
<1>9. Kept
  <2>1. InFlight(c) = {}
    BY <1>1, UnaskedIs DEF ListenersInv, QuietBefore, InFlight
  <2>2. \A d \in Conn : d # c => InFlight(d)' = InFlight(d)
    BY <1>t, <1>1 DEF ListenersTyped, InFlight
  <2> QED
    BY <2>1, <2>2 DEF Kept
<1> QED
  BY <1>4, <1>5, <1>6, <1>7, <1>8, <1>9 DEF ListenersInv

\* A connection that ends drops nothing that somebody waits for.
LEMMA CloseKeeps ==
    ASSUME ListenersInv, NEW c \in Conn, Close(c), conn[c] # "none",
           kind = "udp" \/ client[c] \notin Reads \/ InFlight(c) = {}
    PROVE  ListenersInv' /\ Kept
<1>t. ListenersTyped
  BY DEF ListenersInv
<1>1. /\ free' = free + 1 /\ kind' = kind /\ client' = client /\ reader' = reader /\ writer' = writer
      /\ conn' = [conn EXCEPT ![c] = "none"] /\ ask' = [ask EXCEPT ![c] = Unasked]
  BY DEF Close
<1>4. ListenersTyped'
  <2>1. free' \in Nat
    BY <1>t, <1>1 DEF ListenersTyped
  <2> QED
    BY <1>t, <1>1, <2>1, UnaskedIs DEF ListenersTyped
<1>5. PermitsAdd'
  <2>1. Taken' = Taken \ {c} /\ c \in Taken
    BY <1>t, <1>1 DEF Taken, ListenersTyped
  <2>2. Cardinality(Taken') = Cardinality(Taken) - 1
    BY <2>1, TakenFinite, FS_RemoveElement
  <2>3. free = Room - Cardinality(Taken) /\ free \in Nat
    BY <1>t DEF ListenersInv, PermitsAdd, ListenersTyped
  <2> QED
    BY <1>1, <2>2, <2>3, TakenFinite, ListenersAssumption DEF PermitsAdd
<1>6. ChannelFits'
  <2>1. ASSUME NEW d \in Conn PROVE \A i \in Query : ask'[d][i] = "queued" => ask[d][i] = "queued"
    BY <1>t, <1>1, UnaskedIs DEF ListenersTyped
  <2> QED
    BY <1>t, <1>4, <2>1, QueuedIs, FitsStill DEF ListenersInv
<1>7. QuietBefore'
  BY <1>t, <1>1 DEF ListenersInv, QuietBefore, ListenersTyped
<1>8. WriterStops'
  <2> SUFFICES ASSUME NEW d \in Conn, kind \in Framed, conn'[d] # "none", writer'[d] = "gone"
               PROVE  client'[d] \notin Reads \/ (reader'[d] = "done" /\ InFlight(d)' = {})
    BY <1>1 DEF WriterStops
  <2>1. d # c
    BY <1>t, <1>1 DEF ListenersTyped
  <2>2. /\ conn'[d] = conn[d] /\ writer'[d] = writer[d] /\ client'[d] = client[d]
        /\ reader'[d] = reader[d] /\ ask'[d] = ask[d]
    BY <1>t, <1>1, <2>1 DEF ListenersTyped
  <2> QED
    BY <2>2 DEF ListenersInv, WriterStops, InFlight
<1>9. Kept
  <2>1. \A d \in Conn : d # c => InFlight(d)' = InFlight(d)
    BY <1>t, <1>1 DEF ListenersTyped, InFlight
  <2> QED
    BY <2>1 DEF Kept
<1> QED
  BY <1>4, <1>5, <1>6, <1>7, <1>8, <1>9 DEF ListenersInv

\* What ends a connection.
LEMMA EndKeepsAsks ==
    ASSUME ListenersInv, NEW c \in Conn,
           Reject(c) \/ AwaitWriter(c) \/ Hangup(c) \/ AnswerDatagram(c)
    PROVE  ListenersInv' /\ Kept
<1>1. CASE Reject(c)
  <2>1. ask[c] = Unasked /\ conn[c] # "none" /\ Close(c)
    BY <1>1 DEF Reject, ListenersInv, QuietBefore
  <2>2. InFlight(c) = {}
    BY <2>1, UnaskedIs DEF InFlight
  <2> QED
    BY <2>1, <2>2, CloseKeeps
<1>2. CASE AwaitWriter(c)
  <2>1. kind \in Framed /\ conn[c] # "none" /\ writer[c] = "gone" /\ Close(c)
    BY <1>2 DEF AwaitWriter
  <2>2. client[c] \notin Reads \/ InFlight(c) = {}
    BY <2>1 DEF ListenersInv, WriterStops
  <2> QED
    BY <2>1, <2>2, CloseKeeps
<1>3. CASE Hangup(c)
  BY <1>3, CloseKeeps DEF Hangup, Reads
<1>4. CASE AnswerDatagram(c)
  BY <1>4, CloseKeeps DEF AnswerDatagram
<1> QED
  BY <1>1, <1>2, <1>3, <1>4

---------------------------------------------------------------------------
(* Steps on an open connection.                                            *)

\* Of one connection, some of client, reader, writer and queries change.
OpenStep(c, x, r, w, asks, k) ==
    /\ x \in ClientState /\ r \in {"read", "refuse", "done"} /\ w \in {"run", "gone"}
    /\ asks \in [Query -> AskState] /\ k \in {"hello", "open"}
    /\ conn[c] # "none" /\ free' = free /\ kind' = kind
    /\ conn' = [conn EXCEPT ![c] = k]
    /\ client' = [client EXCEPT ![c] = x] /\ reader' = [reader EXCEPT ![c] = r]
    /\ writer' = [writer EXCEPT ![c] = w] /\ ask' = [ask EXCEPT ![c] = asks]
    /\ Cardinality({i \in Query : asks[i] = "queued"}) <= Depth
    /\ k # "open" => asks = Unasked
    /\ kind \in Framed /\ w = "gone" =>
          x \notin Reads
          \/ (r = "done" /\ \A i \in Query : asks[i] \notin {"running", "ready", "queued", "writing"})
    /\ kind # "udp" /\ client[c] \in Reads =>
          \A i \in InFlight(c) : asks[i] \in {"running", "ready", "queued", "writing", "answered"}

LEMMA OpenKeeps ==
    ASSUME ListenersInv, NEW c \in Conn, NEW x, NEW r, NEW w, NEW asks, NEW k,
           OpenStep(c, x, r, w, asks, k)
    PROVE  ListenersInv' /\ Kept
<1> USE DEF OpenStep
<1>t. ListenersTyped
  BY DEF ListenersInv
<1>0. /\ conn'[c] = k /\ client'[c] = x /\ reader'[c] = r /\ writer'[c] = w /\ ask'[c] = asks
      /\ \A d \in Conn : d # c =>
            /\ conn'[d] = conn[d] /\ client'[d] = client[d] /\ reader'[d] = reader[d]
            /\ writer'[d] = writer[d] /\ ask'[d] = ask[d]
  BY <1>t DEF ListenersTyped
<1>1. ListenersTyped'
  BY <1>t DEF ListenersTyped
<1>2. PermitsAdd'
  <2>1. Taken' = Taken
    BY <1>0 DEF Taken
  <2> QED
    BY <2>1 DEF ListenersInv, PermitsAdd
<1>3. ChannelFits'
  <2> SUFFICES ASSUME NEW d \in Conn PROVE Cardinality(Holding(d, "queued")') <= Depth
    BY DEF ChannelFits
  <2>1. CASE d = c
    <3>1. Holding(c, "queued")' = {i \in Query : asks[i] = "queued"}
      BY <1>0 DEF Holding
    <3> QED
      BY <2>1, <3>1
  <2>2. CASE d # c
    <3>1. Holding(d, "queued")' = Holding(d, "queued")
      BY <1>0, <2>2 DEF Holding
    <3> QED
      BY <3>1 DEF ListenersInv, ChannelFits
  <2> QED
    BY <2>1, <2>2
<1>4. QuietBefore'
  BY <1>0 DEF ListenersInv, QuietBefore
<1>5. WriterStops'
  <2> SUFFICES ASSUME NEW d \in Conn, kind \in Framed, conn'[d] # "none", writer'[d] = "gone"
               PROVE  client'[d] \notin Reads \/ (reader'[d] = "done" /\ InFlight(d)' = {})
    BY DEF WriterStops
  <2>1. CASE d = c
    BY <1>0, <2>1 DEF InFlight
  <2>2. CASE d # c
    BY <1>0, <2>2 DEF ListenersInv, WriterStops, InFlight
  <2> QED
    BY <2>1, <2>2
<1>6. Kept
  <2> SUFFICES ASSUME NEW d \in Conn, kind # "udp", client[d] \in Reads, NEW i \in InFlight(d)
               PROVE  i \in InFlight(d)' \/ ask'[d][i] = "answered"
    BY DEF Kept
  <2>0. i \in Query
    BY DEF InFlight
  <2>1. CASE d = c
    <3>1. asks[i] \in {"running", "ready", "queued", "writing", "answered"}
      BY <2>1
    <3> QED
      BY <1>0, <2>0, <2>1, <3>1 DEF InFlight
  <2>2. CASE d # c
    BY <1>0, <2>2 DEF InFlight
  <2> QED
    BY <2>1, <2>2
<1> QED
  BY <1>1, <1>2, <1>3, <1>4, <1>5, <1>6 DEF ListenersInv

Moving == {"running", "ready", "queued", "writing"}

LEMMA FewQueued ==
    ASSUME ListenersInv, NEW c \in Conn, NEW asks,
           \A i \in Query : asks[i] = "queued" => ask[c][i] = "queued"
    PROVE  Cardinality({i \in Query : asks[i] = "queued"}) <= Depth
<1> DEFINE old == Holding(c, "queued")
           new == {i \in Query : asks[i] = "queued"}
<1>1. IsFiniteSet(old) /\ Cardinality(old) \in Nat /\ Cardinality(old) <= Depth
  BY SomeQueued DEF ListenersInv, ChannelFits
<1>2. new \in SUBSET old
  BY DEF Holding
<1> HIDE DEF old, new
<1>3. IsFiniteSet(new) /\ Cardinality(new) <= Cardinality(old)
  BY <1>1, <1>2, FS_Subset
<1>4. Cardinality(new) \in Nat
  BY <1>3, FS_CardinalityType
<1>5. Cardinality(new) <= Depth
  BY <1>1, <1>3, <1>4, ListenersAssumption
<1> QED
  BY <1>5 DEF new

\* One query of an open connection goes on.
LEMMA AskMoves ==
    ASSUME ListenersInv, NEW c \in Conn, NEW i \in Query, NEW s \in AskState,
           NEW r \in {"read", "refuse", "done"},
           conn[c] = "open", UNCHANGED <<kind, free, conn, client, writer>>,
           reader' = [reader EXCEPT ![c] = r], ask' = [ask EXCEPT ![c][i] = s],
           s = "queued" => Cardinality(Holding(c, "queued")) < Depth,
           s \in Moving \cup {"answered"} \/ ask[c][i] \notin Moving \/ client[c] \notin Reads,
           kind \in Framed /\ writer[c] = "gone" => client[c] \notin Reads
    PROVE  ListenersInv' /\ Kept
<1> DEFINE asks == [ask[c] EXCEPT ![i] = s]
<1>t. ListenersTyped
  BY DEF ListenersInv
<1>a. ask[c] \in [Query -> AskState]
  BY <1>t DEF ListenersTyped
<1>1. asks \in [Query -> AskState] /\ asks[i] = s /\ \A j \in Query : j # i => asks[j] = ask[c][j]
  BY <1>a
<1>2. ask' = [ask EXCEPT ![c] = asks]
  BY <1>t DEF ListenersTyped
<1> HIDE DEF asks
<1>3. Cardinality({j \in Query : asks[j] = "queued"}) <= Depth
  <2>1. CASE s # "queued"
    <3>1. \A j \in Query : asks[j] = "queued" => ask[c][j] = "queued"
      BY <1>1, <2>1
    <3> QED
      BY <3>1, FewQueued
  <2>2. CASE s = "queued"
    <3> DEFINE old == Holding(c, "queued")
    <3>1. {j \in Query : asks[j] = "queued"} = old \cup {i}
      BY <1>1, <2>2 DEF Holding
    <3>2. IsFiniteSet(old) /\ Cardinality(old) \in Nat /\ Cardinality(old) < Depth
      BY <1>t, <2>2, SomeQueued
    <3> HIDE DEF old
    <3>a. Cardinality(old \cup {i}) = IF i \in old THEN Cardinality(old) ELSE Cardinality(old) + 1
      BY <3>2, FS_AddElement
    <3>3. Cardinality(old \cup {i}) <= Cardinality(old) + 1
      BY <3>2, <3>a
    <3>4. Cardinality(old \cup {i}) \in Nat
      BY <3>2, FS_AddElement, FS_CardinalityType
    <3>5. Cardinality(old \cup {i}) <= Depth
      BY <3>2, <3>3, <3>4, ListenersAssumption
    <3> QED
      BY <3>1, <3>5
  <2> QED
    BY <2>1, <2>2
<1> DEFINE x == client[c]  w == writer[c]
<1>4. /\ x \in ClientState /\ w \in {"run", "gone"}
      /\ client' = [client EXCEPT ![c] = x] /\ writer' = [writer EXCEPT ![c] = w]
      /\ conn' = [conn EXCEPT ![c] = "open"] /\ free' = free /\ kind' = kind
  BY <1>t DEF ListenersTyped
<1>5. kind \in Framed /\ w = "gone" =>
        x \notin Reads
        \/ (r = "done" /\ \A j \in Query : asks[j] \notin {"running", "ready", "queued", "writing"})
  OBVIOUS
<1>6. x \in Reads => \A j \in InFlight(c) : asks[j] \in Moving \cup {"answered"}
  BY <1>1 DEF InFlight, Moving
<1>7. "open" \in {"hello", "open"} /\ conn[c] # "none" /\ ("open" # "open" => asks = Unasked)
  OBVIOUS
<1> HIDE DEF x, w
<1>8. kind # "udp" /\ client[c] \in Reads =>
        \A j \in InFlight(c) : asks[j] \in {"running", "ready", "queued", "writing", "answered"}
  BY <1>6 DEF Moving, x
<1> QED
  <2>1. OpenStep(c, x, r, w, asks, "open")
    BY <1>1, <1>2, <1>3, <1>4, <1>5, <1>7, <1>8 DEF OpenStep
  <2> QED
    BY <2>1, OpenKeeps

\* A query in hand: its connection is open, and its writer has not ended by itself.
LEMMA InHand ==
    ASSUME ListenersInv, NEW c \in Conn, NEW i \in Query, ask[c][i] \in Moving
    PROVE  /\ conn[c] = "open"
           /\ kind \in Framed /\ writer[c] = "gone" => client[c] \notin Reads
           /\ reader = [reader EXCEPT ![c] = reader[c]] /\ reader[c] \in {"read", "refuse", "done"}
<1>1. i \in InFlight(c)
  BY DEF InFlight, Moving
<1>2. conn[c] = "open"
  <2>1. ask[c] # Unasked
    BY UnaskedIs DEF Moving
  <2> QED
    BY <2>1 DEF ListenersInv, QuietBefore
<1>3. kind \in Framed /\ writer[c] = "gone" => client[c] \notin Reads
  BY <1>1, <1>2 DEF ListenersInv, WriterStops
<1>4. reader = [reader EXCEPT ![c] = reader[c]] /\ reader[c] \in {"read", "refuse", "done"}
  BY DEF ListenersInv, ListenersTyped
<1> QED
  BY <1>2, <1>3, <1>4

LEMMA AskStepKeeps ==
    ASSUME ListenersInv, NEW c \in Conn, NEW i \in Query,
           Resolve(c, i) \/ HandOver(c, i) \/ Take(c, i) \/ Write(c, i)
           \/ AnswerStream(c, i) \/ AnswerHttp(c, i)
    PROVE  ListenersInv' /\ Kept
<1>m. {"running", "ready", "queued", "writing"} = Moving /\ Moving \subseteq AskState
      /\ "answered" \in AskState /\ "lost" \in AskState
  BY DEF Moving, AskState
<1>1. CASE Resolve(c, i)
  <2>1. /\ ask[c][i] \in Moving /\ ask' = [ask EXCEPT ![c][i] = "ready"] /\ "ready" \in Moving
        /\ UNCHANGED <<kind, free, conn, client, reader, writer>>
    BY <1>1 DEF Resolve, Moving
  <2> QED
    BY <1>m, <2>1, InHand, AskMoves
<1>2. CASE HandOver(c, i)
  <2> DEFINE r == IF reader[c] = "refuse" /\ (\A j \in Query : j > i => ask[c][j] = "none")
                  THEN "done" ELSE reader[c]
  <2>1. /\ ask[c][i] \in Moving /\ kind \in Framed /\ "queued" \in Moving
        /\ UNCHANGED <<kind, free, conn, client, writer>> /\ reader' = [reader EXCEPT ![c] = r]
    BY <1>2 DEF HandOver, Moving
  <2>2. r \in {"read", "refuse", "done"}
    BY <2>1, InHand
  <2> HIDE DEF r
  <2>3. CASE /\ writer[c] = "run" /\ Cardinality(Holding(c, "queued")) < Depth
             /\ ask' = [ask EXCEPT ![c][i] = "queued"]
    BY <1>m, <2>1, <2>2, <2>3, InHand, AskMoves
  <2>4. CASE writer[c] = "gone" /\ ask' = [ask EXCEPT ![c][i] = "lost"]
    BY <1>m, <2>1, <2>2, <2>4, InHand, AskMoves
  <2> QED
    BY <1>2, <2>3, <2>4 DEF HandOver
<1>3. CASE Take(c, i)
  <2>1. /\ ask[c][i] \in Moving /\ ask' = [ask EXCEPT ![c][i] = "writing"] /\ "writing" \in Moving
        /\ UNCHANGED <<kind, free, conn, client, reader, writer>>
    BY <1>3 DEF Take, Moving
  <2> QED
    BY <1>m, <2>1, InHand, AskMoves
<1>4. CASE Write(c, i)
  <2>1. /\ ask[c][i] \in Moving /\ ask' = [ask EXCEPT ![c][i] = "answered"]
        /\ UNCHANGED <<kind, free, conn, client, reader, writer>>
    BY <1>4 DEF Write, Moving
  <2> QED
    BY <1>m, <2>1, InHand, AskMoves
<1>5. CASE AnswerStream(c, i) \/ AnswerHttp(c, i)
  <2>1. /\ ask[c][i] \in Moving /\ UNCHANGED <<kind, free, conn, client, reader, writer>>
        /\ \/ ask' = [ask EXCEPT ![c][i] = "answered"]
           \/ ask' = [ask EXCEPT ![c][i] = "lost"] /\ client[c] \notin Reads
    BY <1>5 DEF AnswerStream, AnswerHttp, MayGiveUp, Reads, Moving
  <2>2. CASE ask' = [ask EXCEPT ![c][i] = "answered"]
    BY <1>m, <2>1, <2>2, InHand, AskMoves
  <2>3. CASE ask' = [ask EXCEPT ![c][i] = "lost"] /\ client[c] \notin Reads
    BY <1>m, <2>1, <2>3, InHand, AskMoves
  <2> QED
    BY <2>1, <2>2, <2>3
<1> QED
  BY <1>1, <1>2, <1>3, <1>4, <1>5

\* A query arrives: on a framed connection its reader still reads, so no writer has ended there.
LEMMA ArrivalKeeps ==
    ASSUME ListenersInv, NEW c \in Conn, Read(c) \/ OpenStream(c)
    PROVE  ListenersInv' /\ Kept
<1>r. reader = [reader EXCEPT ![c] = reader[c]] /\ reader[c] \in {"read", "refuse", "done"}
  BY DEF ListenersInv, ListenersTyped
<1>s. {"running", "ready", "lost"} \subseteq AskState /\ "none" \notin Moving
  BY DEF AskState, Moving
<1>1. CASE Read(c)
  <2>1. PICK i \in Holding(c, "none") :
           \/ ask' = [ask EXCEPT ![c][i] = "running"] /\ UNCHANGED reader
           \/ ask' = [ask EXCEPT ![c][i] = "ready"] /\ reader' = [reader EXCEPT ![c] = "refuse"]
    BY <1>1 DEF Read
  <2>2. /\ conn[c] = "open" /\ reader[c] = "read" /\ kind \in Framed
        /\ UNCHANGED <<kind, free, conn, client, writer>>
    BY <1>1 DEF Read
  <2>3. i \in Query /\ ask[c][i] \notin Moving
    BY <1>s DEF Holding
  <2>4. writer[c] = "gone" => client[c] \notin Reads
    BY <2>2 DEF ListenersInv, WriterStops
  <2>5. CASE ask' = [ask EXCEPT ![c][i] = "running"] /\ UNCHANGED reader
    BY <1>r, <1>s, <2>2, <2>3, <2>4, <2>5, AskMoves
  <2>6. CASE ask' = [ask EXCEPT ![c][i] = "ready"] /\ reader' = [reader EXCEPT ![c] = "refuse"]
    BY <1>s, <2>2, <2>3, <2>4, <2>6, AskMoves
  <2> QED
    BY <2>1, <2>5, <2>6
<1>2. CASE OpenStream(c)
  <2>1. PICK i \in Holding(c, "none"), s \in {"running", "ready", "lost"} :
           ask' = [ask EXCEPT ![c][i] = s]
    BY <1>2 DEF OpenStream
  <2>2. /\ conn[c] = "open" /\ kind \notin Framed
        /\ UNCHANGED <<kind, free, conn, client, reader, writer>>
    BY <1>2 DEF OpenStream, Streamed, Framed
  <2>3. i \in Query /\ ask[c][i] \notin Moving /\ s # "queued" /\ s \in AskState
    BY <1>s DEF Holding
  <2> QED
    BY <1>r, <2>1, <2>2, <2>3, AskMoves
<1> QED
  BY <1>1, <1>2

\* What happens to the connection itself.
LEMMA AsideKeeps ==
    ASSUME ListenersInv, NEW c \in Conn,
           \/ Greet(c) \/ StopReading(c) \/ WriterEnds(c)
           \/ \E to \in {"silent", "deaf", "stuck", "gone"} : ClientTurns(c, to)
    PROVE  ListenersInv' /\ Kept
<1> DEFINE asks == ask[c]  x == client[c]  r == reader[c]  w == writer[c]  k == conn[c]
<1>t. ListenersTyped
  BY DEF ListenersInv
<1>1. /\ asks \in [Query -> AskState] /\ x \in ClientState /\ r \in {"read", "refuse", "done"}
      /\ w \in {"run", "gone"} /\ ask = [ask EXCEPT ![c] = asks]
      /\ client = [client EXCEPT ![c] = x] /\ reader = [reader EXCEPT ![c] = r]
      /\ writer = [writer EXCEPT ![c] = w] /\ conn = [conn EXCEPT ![c] = k]
      /\ k \in {"none", "hello", "open"}
  BY <1>t DEF ListenersTyped
<1>2. Cardinality({i \in Query : asks[i] = "queued"}) <= Depth
  BY FewQueued
<1>3. k # "open" => asks = Unasked
  BY DEF ListenersInv, QuietBefore
<1>4. \A i \in InFlight(c) : asks[i] \in {"running", "ready", "queued", "writing", "answered"}
  BY DEF InFlight
<1>5. kind \in Framed /\ w = "gone" /\ k # "none" =>
        x \notin Reads
        \/ (r = "done" /\ \A i \in Query : asks[i] \notin {"running", "ready", "queued", "writing"})
  BY DEF ListenersInv, WriterStops, InFlight
<1>6. CASE Greet(c)
  <2>1. /\ k = "hello" /\ conn' = [conn EXCEPT ![c] = "open"]
        /\ UNCHANGED <<kind, free, client, reader, writer, ask>>
    BY <1>6 DEF Greet
  <2> HIDE DEF asks, x, r, w
  <2>2. /\ conn[c] # "none" /\ "open" \in {"hello", "open"} /\ ("open" # "open" => asks = Unasked)
        /\ k # "none"
    BY <2>1
  <2>3. kind \in Framed /\ w = "gone" =>
        x \notin Reads
        \/ (r = "done" /\ \A i \in Query : asks[i] \notin {"running", "ready", "queued", "writing"})
    BY <1>5, <2>2
  <2>4. /\ ask' = [ask EXCEPT ![c] = asks] /\ client' = [client EXCEPT ![c] = x]
        /\ reader' = [reader EXCEPT ![c] = r] /\ writer' = [writer EXCEPT ![c] = w]
        /\ kind' = kind /\ free' = free
    BY <1>1, <2>1
  <2> HIDE DEF k
  <2> QED
    <3>1. OpenStep(c, x, r, w, asks, "open")
      BY <1>1, <1>2, <1>4, <2>1, <2>2, <2>3, <2>4 DEF OpenStep
    <3> QED
      BY <3>1, OpenKeeps
<1>7. CASE StopReading(c)
  <2>1. /\ k = "open" /\ conn[c] # "none" /\ reader' = [reader EXCEPT ![c] = "done"] /\ r = "read"
        /\ UNCHANGED <<kind, free, conn, client, writer, ask>>
    BY <1>7 DEF StopReading
  <2> HIDE DEF asks, x, r, w, k
  <2>2. "done" \in {"read", "refuse", "done"} /\ k \in {"hello", "open"}
    BY <2>1
  <2>3. kind \in Framed /\ w = "gone" =>
        x \notin Reads
        \/ ("done" = "done" /\ \A i \in Query : asks[i] \notin {"running", "ready", "queued", "writing"})
    BY <1>5, <2>1
  <2>4. /\ ask' = [ask EXCEPT ![c] = asks] /\ client' = [client EXCEPT ![c] = x]
        /\ conn' = [conn EXCEPT ![c] = k] /\ writer' = [writer EXCEPT ![c] = w]
        /\ kind' = kind /\ free' = free
    BY <1>1, <2>1
  <2> QED
    <3>1. OpenStep(c, x, "done", w, asks, k)
      BY <1>1, <1>2, <1>3, <1>4, <2>1, <2>2, <2>3, <2>4 DEF OpenStep
    <3> QED
      BY <3>1, OpenKeeps
<1>8. CASE WriterEnds(c)
  <2>1. /\ k = "open" /\ conn[c] # "none" /\ writer' = [writer EXCEPT ![c] = "gone"] /\ Drained(c)
        /\ UNCHANGED <<kind, free, conn, client, reader, ask>>
    BY <1>8 DEF WriterEnds
  <2>2. r = "done" /\ \A i \in Query : asks[i] \notin {"running", "ready", "queued", "writing"}
    BY <2>1 DEF Drained, InFlight
  <2> HIDE DEF asks, x, r, w, k
  <2>3. "gone" \in {"run", "gone"} /\ k \in {"hello", "open"}
    BY <2>1
  <2> QED
    <3>1. OpenStep(c, x, r, "gone", asks, k)
      BY <1>1, <1>2, <1>3, <1>4, <2>1, <2>2, <2>3 DEF OpenStep
    <3> QED
      BY <3>1, OpenKeeps
<1>9. ASSUME NEW to \in {"silent", "deaf", "stuck", "gone"}, ClientTurns(c, to)
      PROVE  ListenersInv' /\ Kept
  <2>1. /\ conn[c] # "none" /\ k \in {"hello", "open"} /\ client' = [client EXCEPT ![c] = to]
        /\ UNCHANGED <<kind, free, conn, reader, writer, ask>>
    BY <1>1, <1>9 DEF ClientTurns
  <2>2. to \in ClientState /\ (x \notin Reads => to \notin Reads)
    BY <1>1, <1>9 DEF ClientTurns, ClientState, Reads
  <2>3. k # "none"
    BY <2>1
  <2> HIDE DEF asks, x, r, w, k
  <2>4. kind \in Framed /\ w = "gone" =>
          to \notin Reads
          \/ (r = "done" /\ \A i \in Query : asks[i] \notin {"running", "ready", "queued", "writing"})
    BY <1>5, <2>2, <2>3
  <2>5. /\ ask' = [ask EXCEPT ![c] = asks] /\ reader' = [reader EXCEPT ![c] = r]
        /\ conn' = [conn EXCEPT ![c] = k] /\ writer' = [writer EXCEPT ![c] = w]
        /\ kind' = kind /\ free' = free
    BY <1>1, <2>1
  <2> QED
    <3>1. OpenStep(c, to, r, w, asks, k)
      BY <1>1, <1>2, <1>3, <1>4, <2>1, <2>2, <2>4, <2>5 DEF OpenStep
    <3> QED
      BY <3>1, OpenKeeps
<1> QED
  BY <1>6, <1>7, <1>8, <1>9

\* The writer breaks off, because nobody reads.
LEMMA WriteFailsKeeps ==
    ASSUME ListenersInv, NEW c \in Conn, NEW i \in Query, WriteFails(c, i)
    PROVE  ListenersInv' /\ Kept
<1> DEFINE asks == [j \in Query |-> IF ask[c][j] \in {"queued", "writing"} THEN "lost" ELSE ask[c][j]]
           x == client[c]  r == reader[c]
<1>t. ListenersTyped
  BY DEF ListenersInv
<1>1. /\ kind \in Framed /\ ask[c][i] \in Moving /\ x \notin Reads
      /\ writer' = [writer EXCEPT ![c] = "gone"] /\ ask' = [ask EXCEPT ![c] = asks]
      /\ UNCHANGED <<kind, free, conn, client, reader>>
  BY DEF WriteFails, MayGiveUp, Reads, Moving
<1>2. conn[c] = "open"
  BY <1>1, InHand
<1>3. asks \in [Query -> AskState] /\ \A j \in Query : asks[j] # "queued"
  BY <1>t DEF ListenersTyped, AskState
<1>4. /\ x \in ClientState /\ r \in {"read", "refuse", "done"} /\ "gone" \in {"run", "gone"}
      /\ client = [client EXCEPT ![c] = x] /\ reader = [reader EXCEPT ![c] = r]
      /\ conn = [conn EXCEPT ![c] = "open"] /\ conn[c] # "none" /\ "open" \in {"hello", "open"}
  BY <1>t, <1>2 DEF ListenersTyped
<1> HIDE DEF asks
<1>5. Cardinality({j \in Query : asks[j] = "queued"}) <= Depth
  BY <1>3, FewQueued
<1>6. /\ kind # "udp" /\ client[c] \in Reads =>
            \A j \in InFlight(c) : asks[j] \in {"running", "ready", "queued", "writing", "answered"}
      /\ "open" # "open" => asks = Unasked
      /\ kind \in Framed /\ "gone" = "gone" =>
            x \notin Reads
            \/ (r = "done" /\ \A j \in Query : asks[j] \notin {"running", "ready", "queued", "writing"})
  BY <1>1
<1>7. /\ conn' = [conn EXCEPT ![c] = "open"] /\ client' = [client EXCEPT ![c] = x]
      /\ reader' = [reader EXCEPT ![c] = r] /\ kind' = kind /\ free' = free
  BY <1>1, <1>4
<1> HIDE DEF x, r
<1> QED
  <2>1. OpenStep(c, x, r, "gone", asks, "open")
    BY <1>1, <1>3, <1>4, <1>5, <1>6, <1>7 DEF OpenStep
  <2> QED
    BY <2>1, OpenKeeps

LEMMA ListenersStep ==
    ASSUME ListenersInv, [ListenersNext]_listenersVars
    PROVE  ListenersInv' /\ [Kept]_listenersVars
<1>1. CASE ListenersNext
  <2>1. PICK c \in Conn :
          \/ Accept(c) \/ Greet(c) \/ Reject(c)
          \/ \E to \in {"silent", "deaf", "stuck", "gone"} : ClientTurns(c, to)
          \/ Read(c) \/ StopReading(c) \/ WriterEnds(c) \/ AwaitWriter(c)
          \/ OpenStream(c) \/ Hangup(c) \/ AnswerDatagram(c)
          \/ \E i \in Query : Resolve(c, i) \/ HandOver(c, i) \/ Take(c, i) \/ Write(c, i)
                              \/ WriteFails(c, i) \/ AnswerStream(c, i) \/ AnswerHttp(c, i)
    BY <1>1 DEF ListenersNext
  <2> QED
    BY <2>1, AcceptKeeps, EndKeepsAsks, AskStepKeeps, ArrivalKeeps, AsideKeeps, WriteFailsKeeps
<1>2. CASE UNCHANGED listenersVars
  <2>1. UNCHANGED <<kind, free, conn, client, reader, writer, ask>>
    BY <1>2 DEF listenersVars
  <2>2. ListenersTyped' /\ PermitsAdd' /\ QuietBefore'
    BY <2>1 DEF ListenersInv, ListenersTyped, PermitsAdd, Taken, QuietBefore
  <2>3. ChannelFits' /\ WriterStops'
    BY <2>1 DEF ListenersInv, ChannelFits, Holding, WriterStops, InFlight
  <2> QED
    BY <1>2, <2>2, <2>3 DEF ListenersInv
<1> QED
  BY <1>1, <1>2

LEMMA ListenersTyping == ListenersInv => ListenersTypeOK
<1> SUFFICES ASSUME ListenersInv PROVE ListenersTypeOK
  OBVIOUS
<1>1. kind \in Kind /\ free = Room - Cardinality({c \in Conn : conn[c] # "none"})
  BY DEF ListenersInv, ListenersTyped, PermitsAdd, Taken
<1>2. ASSUME NEW c \in Conn
      PROVE  /\ conn[c] \in {"none", "hello", "open"}
             /\ client[c] \in Sends \cup Reads \cup {"stuck", "gone"}
             /\ reader[c] \in {"read", "refuse", "done"} /\ writer[c] \in {"run", "gone"}
             /\ \A i \in Query : ask[c][i] \in
                   {"none", "running", "ready", "queued", "writing", "answered", "lost"}
  BY DEF ListenersInv, ListenersTyped, ClientState, Sends, Reads, AskState
<1>3. \A c \in Conn : Cardinality(Holding(c, "queued")) <= Depth
  BY DEF ListenersInv, ChannelFits
<1> QED
  BY <1>1, <1>2, <1>3 DEF ListenersTypeOK

(***************************************************************************)
(* Permits are given back as often as they are taken, for any number of    *)
(* connections, permits and queries: what a listener has left and what its *)
(* connections hold add up, and no channel holds more than it may.         *)
(***************************************************************************)
THEOREM ListenersTypeCorrect == ListenersSpec => []ListenersTypeOK
<1>1. ListenersInv => ListenersTypeOK
  BY ListenersTyping
<1>2. ListenersInv /\ [ListenersNext]_listenersVars => ListenersInv'
  BY ListenersStep
<1> QED
  BY <1>1, <1>2, ListenersStart, PTL DEF ListenersSpec

(***************************************************************************)
(* The safety half of AskAnswered: on every listener with connections, a   *)
(* query that was read stays in hand until its answer is written, unless   *)
(* its client stops reading (plain.rs, dot.rs, doq.rs, doh3.rs, tls.rs).   *)
(***************************************************************************)
THEOREM AsksAreKept == ListenersSpec => AsksKept
<1>1. ListenersInv /\ [ListenersNext]_listenersVars => ListenersInv' /\ [Kept]_listenersVars
  BY ListenersStep
<1> QED
  BY <1>1, ListenersStart, PTL DEF ListenersSpec, AsksKept, Kept

-----------------------------------------------------------------------------
(* The hedged lookup.                                                      *)

(***************************************************************************)
(* What the select! blocks know.  The timer says which attempts have been  *)
(* started; an attempt that was started is polled until its failure is     *)
(* taken; and only a failure that came while a timer ran can be taken and  *)
(* still be polled.                                                        *)
(***************************************************************************)
Stages ==
    /\ timer = "hedge_sleep_1" => Fired = {1}
    /\ timer = "hedge_sleep_2" => Fired = {1, 2}
    /\ timer = "none" => Available \subseteq Fired
TakenHaveFailed == Fired \ polled \subseteq consumed /\ \A i \in consumed : attempt[i] = "failed"
EarlyIsKnown ==
    /\ timer # "none" /\ (\E i \in Attempt : attempt[i] = "failed") => early
    /\ polled \cap consumed # {} => early

HedgeInv ==
    /\ HedgeTypeOK
    /\ outcome = "pending" => Stages
    /\ TakenHaveFailed /\ EarlyIsKnown
    /\ GivesUpLast /\ PanicNeedsEarlyFailure

\* A call that begins: over at once, or with one attempt and the first timer.
Begun(n, a, p, t, o) ==
    \/ n = 0 /\ a = [i \in Attempt |-> "unstarted"] /\ p = {} /\ t = "none" /\ o = "nothing"
    \/ /\ n \in 1..3 /\ a = [i \in Attempt |-> IF i = 1 THEN "post" ELSE "unstarted"]
       /\ p = {1} /\ t = "hedge_sleep_1" /\ o = "pending"

LEMMA FreshBegins ==
    ASSUME NEW n \in 0..3
    PROVE  Begun(n, Fresh(n).attempt, Fresh(n).polled, Fresh(n).timer, Fresh(n).outcome)
<1>1. CASE n = 0
  BY <1>1 DEF Begun, Fresh
<1>2. CASE n \in 1..3
  BY <1>2 DEF Begun, Fresh
<1> QED
  BY <1>1, <1>2

HedgeBegun ==
    /\ nodes \in 0..3 /\ Begun(nodes, attempt, polled, timer, outcome)
    /\ consumed = {} /\ hedged_wins = 0 /\ recorded = {} /\ early = FALSE

LEMMA BegunInv == HedgeBegun => HedgeInv
<1> SUFFICES ASSUME HedgeBegun PROVE HedgeInv
  OBVIOUS
<1>b. consumed = {} /\ hedged_wins \in 0..1 /\ recorded = {} /\ early = FALSE /\ nodes \in 0..3
  BY DEF HedgeBegun
\* What is left to show of the type once the attempts are known.
<1>t. ASSUME attempt \in [Attempt -> {"unstarted", "post", "get", "answered", "failed"}],
             Fired \subseteq Available, polled \subseteq Fired,
             timer \in {"hedge_sleep_1", "none"}, outcome \in {"pending", "nothing"}
      PROVE  HedgeTypeOK
  <2>1. consumed \subseteq Fired /\ recorded \subseteq Fired /\ early \in BOOLEAN
    BY <1>b
  <2> QED
    BY <1>b, <1>t, <2>1 DEF HedgeTypeOK
<1>1. CASE nodes = 0
  <2>1. /\ attempt = [i \in Attempt |-> "unstarted"] /\ polled = {} /\ timer = "none"
        /\ outcome = "nothing"
    BY <1>1 DEF HedgeBegun, Begun
  <2>2. Fired = {} /\ Available = {}
    BY <1>1, <2>1 DEF Fired, Available
  <2>3. HedgeTypeOK
    <3>1. attempt \in [Attempt -> {"unstarted", "post", "get", "answered", "failed"}]
      BY <2>1
    <3> QED
      BY <1>t, <2>1, <2>2, <3>1
  <2>4. TakenHaveFailed /\ EarlyIsKnown /\ GivesUpLast /\ PanicNeedsEarlyFailure
    BY <1>b, <2>1, <2>2 DEF TakenHaveFailed, EarlyIsKnown, GivesUpLast, PanicNeedsEarlyFailure
  <2> QED
    BY <2>1, <2>3, <2>4 DEF HedgeInv
<1>2. CASE nodes \in 1..3
  <2>1. /\ attempt = [i \in Attempt |-> IF i = 1 THEN "post" ELSE "unstarted"]
        /\ polled = {1} /\ timer = "hedge_sleep_1" /\ outcome = "pending"
    BY <1>2 DEF HedgeBegun, Begun
  <2>2. Fired = {1} /\ polled = {1}
    BY <2>1 DEF Fired, Attempt
  <2>3. 1 \in Available
    BY <1>2 DEF Available
  <2>4. HedgeTypeOK
    <3>1. attempt \in [Attempt -> {"unstarted", "post", "get", "answered", "failed"}]
      BY <2>1
    <3>2. Fired \subseteq Available /\ polled \subseteq Fired
      BY <2>2, <2>3
    <3> QED
      BY <1>t, <2>1, <3>1, <3>2
  <2>5. \A i \in Attempt : attempt[i] # "failed"
    BY <2>1
  <2>6. TakenHaveFailed /\ EarlyIsKnown /\ GivesUpLast /\ PanicNeedsEarlyFailure /\ Stages
    BY <1>b, <2>1, <2>2, <2>5
    DEF TakenHaveFailed, EarlyIsKnown, GivesUpLast, PanicNeedsEarlyFailure, Stages
  <2> QED
    BY <2>4, <2>6 DEF HedgeInv
<1> QED
  BY <1>b, <1>1, <1>2

LEMMA AgainInv == Again => HedgeInv'
<1>1. Again => HedgeBegun'
  BY FreshBegins DEF Again, HedgeBegun
<1>2. HedgeBegun' => HedgeInv'
  BY BegunInv, PTL
<1> QED
  BY <1>1, <1>2

LEMMA HedgeStart == HedgeInit => HedgeInv
<1>1. HedgeInit => HedgeBegun
  BY FreshBegins DEF HedgeInit, HedgeBegun
<1> QED
  BY <1>1, BegunInv

LEMMA RunsInv ==
    ASSUME HedgeInv, NEW i \in Attempt, Runs(i)
    PROVE  HedgeInv'
<1>t. /\ HedgeTypeOK /\ Stages /\ TakenHaveFailed /\ EarlyIsKnown
      /\ outcome = "pending" /\ attempt[i] \in {"post", "get"}
      /\ UNCHANGED <<nodes, polled, consumed, timer, outcome, hedged_wins>>
  BY DEF Runs, PostFails, GetFails, Succeeds, Running, HedgeInv
<1>1. PICK to \in {"get", "failed", "answered"} :
         /\ attempt' = [attempt EXCEPT ![i] = to]
         /\ recorded' \in {recorded, recorded \cup {i}}
         /\ early' = (early \/ (to = "failed" /\ timer # "none"))
  <2>1. CASE PostFails(i)
    BY <2>1, Zenon DEF PostFails, HedgeInv, HedgeTypeOK
  <2>2. CASE GetFails(i)
    BY <2>2 DEF GetFails
  <2>3. CASE Succeeds(i)
    <3>1. /\ attempt' = [attempt EXCEPT ![i] = "answered"]
          /\ recorded' = recorded \cup {i} /\ early' = early /\ early \in BOOLEAN
      BY <1>t, <2>3 DEF Succeeds, HedgeTypeOK
    <3>2. early' = (early \/ ("answered" = "failed" /\ timer # "none"))
      BY <3>1
    <3> QED
      BY <3>1, <3>2, Zenon
  <2> QED
    BY <2>1, <2>2, <2>3 DEF Runs
<1>2. /\ attempt \in [Attempt -> {"unstarted", "post", "get", "answered", "failed"}]
      /\ attempt' \in [Attempt -> {"unstarted", "post", "get", "answered", "failed"}]
      /\ attempt'[i] = to /\ \A j \in Attempt : j # i => attempt'[j] = attempt[j]
  BY <1>t, <1>1 DEF HedgeTypeOK
<1>3. Fired' = Fired /\ i \in Fired
  BY <1>t, <1>1, <1>2 DEF Fired
<1>4. Available' = Available
  BY <1>t DEF Available
<1>5. HedgeTypeOK'
  BY <1>t, <1>1, <1>2, <1>3, <1>4 DEF HedgeTypeOK
<1>6. Stages'
  BY <1>t, <1>3, <1>4 DEF Stages
<1>7. TakenHaveFailed'
  <2>1. i \notin consumed /\ consumed \subseteq Attempt
    BY <1>t DEF TakenHaveFailed, HedgeTypeOK, Fired
  <2> QED
    BY <1>t, <1>2, <1>3, <2>1 DEF TakenHaveFailed
<1>8. EarlyIsKnown'
  BY <1>t, <1>1, <1>2 DEF EarlyIsKnown
<1> QED
  BY <1>t, <1>5, <1>6, <1>7, <1>8 DEF HedgeInv, GivesUpLast, PanicNeedsEarlyFailure

\* The next block, begun by the timer or by a failure.
LEMMA HedgeFacts ==
    ASSUME HedgeTypeOK, Stages, timer # "none", Hedge, UNCHANGED nodes
    PROVE  /\ attempt' \in [Attempt -> {"unstarted", "post", "get", "answered", "failed"}]
           /\ \A j \in Fired : attempt'[j] = attempt[j]
           /\ \A j \in Attempt : attempt'[j] = "failed" => attempt[j] = "failed"
           /\ timer' \in {"hedge_sleep_1", "hedge_sleep_2", "none"}
           /\ Fired \subseteq Fired' /\ Fired' \subseteq Available' /\ Available' = Available
           /\ polled \subseteq polled' /\ polled' \subseteq Fired'
           /\ Fired' \ polled' \subseteq Fired \ polled
           /\ Fired' \cap consumed = Fired \cap consumed
           /\ polled' \cap consumed = polled \cap consumed
           /\ Stages'
<1> DEFINE i == IF timer = "hedge_sleep_1" THEN 2 ELSE 3
<1>1. i \in Attempt /\ attempt \in [Attempt -> {"unstarted", "post", "get", "answered", "failed"}]
  BY DEF Attempt, HedgeTypeOK
<1>2. /\ \/ timer = "hedge_sleep_1" /\ i = 2 /\ Fired = {1}
         \/ timer = "hedge_sleep_2" /\ i = 3 /\ Fired = {1, 2}
      /\ i \notin Fired
  BY DEF Stages, HedgeTypeOK
<1>3. attempt[i] = "unstarted"
  BY <1>1, <1>2 DEF Fired
<1>4. Available' = Available /\ consumed \subseteq Fired /\ polled \subseteq Fired
      /\ Fired \subseteq Available /\ nodes \in 0..3
  BY DEF Available, HedgeTypeOK
<1>5. timer' = IF i = 2 /\ i \in Available THEN "hedge_sleep_2" ELSE "none"
  BY DEF Hedge
<1>6. CASE i \in Available
  <2>1. attempt' = [attempt EXCEPT ![i] = "post"] /\ polled' = polled \cup {i}
    BY <1>6 DEF Hedge
  <2> HIDE DEF i
  <2>2. /\ attempt' \in [Attempt -> {"unstarted", "post", "get", "answered", "failed"}]
        /\ attempt'[i] = "post" /\ \A j \in Attempt : j # i => attempt'[j] = attempt[j]
    BY <1>1, <2>1
  <2>3. Fired' = Fired \cup {i}
    BY <1>1, <2>2 DEF Fired
  <2>4. Fired \subseteq Attempt
    BY DEF Fired
  <2>5. /\ \A j \in Fired : attempt'[j] = attempt[j]
        /\ \A j \in Attempt : attempt'[j] = "failed" => attempt[j] = "failed"
    BY <1>2, <2>2, <2>4
  <2>6. /\ Fired \subseteq Fired' /\ Fired' \subseteq Available'
        /\ polled \subseteq polled' /\ polled' \subseteq Fired'
        /\ Fired' \ polled' \subseteq Fired \ polled
        /\ Fired' \cap consumed = Fired \cap consumed
        /\ polled' \cap consumed = polled \cap consumed
    BY <1>2, <1>4, <1>6, <2>1, <2>3
  <2>7. Stages'
    <3>1. CASE i = 2
      <4>1. timer' = "hedge_sleep_2" /\ Fired' = {1, 2}
        BY <1>2, <1>5, <1>6, <2>3, <3>1
      <4> QED
        BY <4>1 DEF Stages
    <3>2. CASE i = 3
      <4>1. timer' = "none" /\ Fired' = {1, 2, 3}
        BY <1>2, <1>5, <1>6, <2>3, <3>2
      <4>2. Available' \subseteq {1, 2, 3}
        BY <1>4 DEF Available
      <4> QED
        BY <4>1, <4>2 DEF Stages
    <3> QED
      BY <1>2, <3>1, <3>2
  <2>8. timer' \in {"hedge_sleep_1", "hedge_sleep_2", "none"}
    BY <1>5
  <2> QED
    BY <1>4, <2>2, <2>5, <2>6, <2>7, <2>8
<1>7. CASE i \notin Available
  <2>1. UNCHANGED <<attempt, polled>> /\ timer' = "none"
    BY <1>5, <1>7 DEF Hedge
  <2>2. Fired' = Fired
    BY <2>1 DEF Fired
  <2>3. Available \subseteq Fired
    <3>1. nodes \in 0..3 /\ i \in 1..3 /\ ~(i <= nodes)
      BY <1>1, <1>4, <1>7 DEF Available, Attempt
    <3>2. CASE i = 2
      BY <1>2, <3>1, <3>2 DEF Available
    <3>3. CASE i = 3
      BY <1>2, <3>1, <3>3 DEF Available
    <3> QED
      BY <1>2, <3>2, <3>3
  <2>4. Stages'
    BY <1>4, <2>1, <2>2, <2>3 DEF Stages
  <2> QED
    BY <1>1, <1>4, <2>1, <2>2, <2>4
<1> QED
  BY <1>6, <1>7

LEMMA SelectsInv ==
    ASSUME HedgeInv, Selects
    PROVE  HedgeInv'
<1>t. /\ HedgeTypeOK /\ Stages /\ TakenHaveFailed /\ EarlyIsKnown /\ outcome = "pending"
      /\ UNCHANGED <<nodes, recorded, early>>
  BY DEF Selects, SleepEnds, PollConsumed, TakeAnswer, TakeFailure, HedgeInv
\* The next block begins: with the failure that was taken, or because the timer fired.
<1>1. ASSUME timer # "none", Hedge, UNCHANGED <<outcome, hedged_wins>>,
             \/ UNCHANGED consumed
             \/ \E i \in polled : attempt[i] = "failed" /\ consumed' = consumed \cup {i}
      PROVE  HedgeInv'
  <2>1. /\ attempt' \in [Attempt -> {"unstarted", "post", "get", "answered", "failed"}]
        /\ \A j \in Fired : attempt'[j] = attempt[j]
        /\ \A j \in Attempt : attempt'[j] = "failed" => attempt[j] = "failed"
        /\ timer' \in {"hedge_sleep_1", "hedge_sleep_2", "none"}
        /\ Fired \subseteq Fired' /\ Fired' \subseteq Available' /\ Available' = Available
        /\ polled \subseteq polled' /\ polled' \subseteq Fired'
        /\ Fired' \ polled' \subseteq Fired \ polled
        /\ polled' \cap consumed = polled \cap consumed
        /\ Stages'
    BY <1>t, <1>1, HedgeFacts
  <2>2. /\ polled \subseteq Fired /\ consumed \subseteq Fired /\ recorded \subseteq Fired
        /\ early \in BOOLEAN
    BY <1>t DEF HedgeTypeOK
  <2>3. /\ consumed \subseteq consumed' /\ consumed' \subseteq Fired
        /\ \A i \in consumed' : attempt[i] = "failed"
        /\ consumed' # consumed => early = TRUE
    <3>1. Fired \subseteq Attempt
      BY DEF Fired
    <3> QED
      BY <1>t, <1>1, <2>2, <3>1 DEF TakenHaveFailed, EarlyIsKnown
  <2>4. HedgeTypeOK'
    BY <1>t, <1>1, <2>1, <2>2, <2>3 DEF HedgeTypeOK
  <2>5. TakenHaveFailed'
    BY <1>t, <2>1, <2>3 DEF TakenHaveFailed
  <2>6. EarlyIsKnown'
    <3>1. timer' # "none" /\ (\E i \in Attempt : attempt'[i] = "failed") => early
      BY <1>t, <1>1, <2>1 DEF EarlyIsKnown
    <3>2. polled' \cap consumed' # {} => early
      BY <1>t, <2>1, <2>3 DEF EarlyIsKnown
    <3> QED
      BY <1>t, <3>1, <3>2 DEF EarlyIsKnown
  <2> QED
    BY <1>t, <1>1, <2>1, <2>4, <2>5, <2>6 DEF HedgeInv, GivesUpLast, PanicNeedsEarlyFailure
<1>2. CASE SleepEnds
  BY <1>1, <1>2 DEF SleepEnds
<1>3. CASE PollConsumed
  <2>1. /\ UNCHANGED <<attempt, polled, consumed, timer, hedged_wins>> /\ outcome' = "panic"
        /\ early /\ Fired' = Fired /\ Available' = Available
    BY <1>t, <1>3 DEF PollConsumed, EarlyIsKnown, Fired, Available
  <2>2. HedgeTypeOK'
    BY <1>t, <2>1 DEF HedgeTypeOK
  <2> QED
    BY <1>t, <2>1, <2>2 DEF HedgeInv, TakenHaveFailed, EarlyIsKnown, GivesUpLast,
                            PanicNeedsEarlyFailure
<1>4. ASSUME NEW i \in Attempt, TakeAnswer(i) PROVE HedgeInv'
  <2>1. /\ UNCHANGED <<attempt, polled, consumed, timer>> /\ outcome' = "answered"
        /\ hedged_wins' \in 0..1 /\ Fired' = Fired /\ Available' = Available
    BY <1>t, <1>4 DEF TakeAnswer, Fired, Available
  <2>2. HedgeTypeOK'
    BY <1>t, <2>1 DEF HedgeTypeOK
  <2> QED
    BY <1>t, <2>1, <2>2 DEF HedgeInv, TakenHaveFailed, EarlyIsKnown, GivesUpLast,
                            PanicNeedsEarlyFailure
<1>5. ASSUME NEW i \in Attempt, TakeFailure(i) PROVE HedgeInv'
  <2>1. /\ i \in polled /\ attempt[i] = "failed" /\ consumed' = consumed \cup {i}
        /\ UNCHANGED hedged_wins
    BY <1>5 DEF TakeFailure
  <2>2. CASE timer # "none"
    BY <1>1, <1>5, <2>1, <2>2 DEF TakeFailure
  <2>3. CASE timer = "none"
    <3>1. /\ polled' = polled \ {i} /\ UNCHANGED <<attempt, timer>>
          /\ outcome' = IF polled = {i} THEN "nothing" ELSE outcome
      BY <1>5, <2>3 DEF TakeFailure
    <3>2. Fired' = Fired /\ Available' = Available
      BY <1>t, <3>1 DEF Fired, Available
    <3>3. /\ polled \subseteq Fired /\ consumed \subseteq Fired /\ Available \subseteq Fired
          /\ Fired \subseteq Attempt
      BY <1>t, <2>3 DEF HedgeTypeOK, Stages, Fired
    <3>4. HedgeTypeOK'
      BY <1>t, <2>1, <3>1, <3>2, <3>3 DEF HedgeTypeOK
    <3>5. TakenHaveFailed'
      BY <1>t, <2>1, <3>1, <3>2 DEF TakenHaveFailed
    <3>6. EarlyIsKnown'
      BY <1>t, <2>1, <2>3, <3>1 DEF EarlyIsKnown
    <3>7. GivesUpLast'
      BY <1>t, <2>1, <3>1, <3>2, <3>3 DEF GivesUpLast, TakenHaveFailed
    <3>8. Stages'
      BY <1>t, <3>1, <3>2 DEF Stages
    <3> QED
      BY <1>t, <3>1, <3>4, <3>5, <3>6, <3>7, <3>8 DEF HedgeInv, PanicNeedsEarlyFailure
  <2> QED
    BY <2>2, <2>3
<1> QED
  BY <1>2, <1>3, <1>4, <1>5 DEF Selects

LEMMA HedgeStep == HedgeInv /\ [HedgeNext]_hedgeVars => HedgeInv'
<1> SUFFICES ASSUME HedgeInv, [HedgeNext]_hedgeVars PROVE HedgeInv'
  OBVIOUS
<1>1. CASE UNCHANGED hedgeVars
  BY <1>1 DEF hedgeVars, HedgeInv, HedgeTypeOK, Stages, TakenHaveFailed, EarlyIsKnown,
              GivesUpLast, PanicNeedsEarlyFailure, Fired, Available
<1> QED
  BY <1>1, SelectsInv, AgainInv, RunsInv DEF HedgeNext

(***************************************************************************)
(* In any order of timers, failures and answers: resolve gives up only     *)
(* when every node it may ask has failed both ways, and a select! polls an *)
(* attempt whose result was taken, which panics, only in a call one of     *)
(* whose attempts failed while a timer ran (upstream.rs).                  *)
(***************************************************************************)
THEOREM HedgeIsSound == HedgeSpec => []HedgeSound
<1>1. HedgeInv => HedgeSound
  BY DEF HedgeInv, HedgeSound
<1> QED
  BY <1>1, HedgeStart, HedgeStep, PTL DEF HedgeSpec

-----------------------------------------------------------------------------
(* The five parts together.                                                *)

LiveInv ==
    IInv /\ HedgeInv /\ FeedsInv /\ FeedsCounted /\ PublishedTyped /\ ListenersInv /\ Inv

LEMMA LiveStart == LiveInit => LiveInv
<1> SUFFICES ASSUME LiveInit PROVE LiveInv
  OBVIOUS
<1>1. Init /\ HedgeInit /\ FeedsInit /\ ListenersInit /\ AnswersInit
  BY DEF LiveInit
<1>2. FeedsCounted /\ PublishedTyped
  BY <1>1, FeedsAssumption DEF FeedsInit, FeedsCounted, PublishedTyped, Version, List
<1> QED
  BY <1>1, <1>2, InitInv, HedgeStart, FeedsStart, ListenersStart, InitSound DEF LiveInv

\* A step of the composition is a step or a stutter of every part.
LEMMA LiveMoves ==
    ASSUME LiveNext \/ UNCHANGED liveVars
    PROVE  /\ [Next]_vars /\ [HedgeNext]_hedgeVars /\ [FeedsNext]_feedsVars
           /\ [ListenersNext]_listenersVars /\ [AnswersNext]_answersVars
<1>1. CASE UNCHANGED liveVars
  BY <1>1 DEF liveVars, flightVars
<1>2. CASE LiveNext
  <2>1. ASSUME NEW p, Turn(p)
        PROVE  /\ p # "flight" => UNCHANGED vars
               /\ p # "hedge" => UNCHANGED hedgeVars
               /\ p # "feeds" => UNCHANGED feedsVars
               /\ p # "listeners" => UNCHANGED listenersVars
               /\ p # "answers" => UNCHANGED answersVars
    BY <2>1, Zenon DEF Turn, flightVars
  <2> QED
    BY <1>2, <2>1 DEF LiveNext
<1> QED
  BY <1>1, <1>2

LEMMA LiveStep == LiveInv /\ [LiveNext]_liveVars => LiveInv'
<1> SUFFICES ASSUME LiveInv, [LiveNext]_liveVars PROVE LiveInv'
  OBVIOUS
<1>1. /\ [Next]_vars /\ [HedgeNext]_hedgeVars /\ [FeedsNext]_feedsVars
      /\ [ListenersNext]_listenersVars /\ [AnswersNext]_answersVars
  BY LiveMoves
<1> QED
  BY <1>1, StepInv, HedgeStep, FeedsStep, CountStep, VersionStep, ListenersStep, InvStep
     DEF LiveInv

LEMMA LiveTyped == LiveInv => LiveTypeOK
<1> SUFFICES ASSUME LiveInv PROVE LiveTypeOK
  OBVIOUS
<1>1. TypeOK /\ HedgeTypeOK /\ FeedsTypeOK /\ AnswersTypeOK
  BY FeedsTyped DEF LiveInv, IInv, HedgeInv, Inv
<1> QED
  BY <1>1, ListenersTyping DEF LiveInv, LiveTypeOK

(***************************************************************************)
(* In the composition that MCLive runs, every variable of every part stays *)
(* of its type: coalescing, the hedged lookup, the feed loops, the         *)
(* listeners and the query pipeline, whichever of them moves.              *)
(***************************************************************************)
THEOREM LiveTypeCorrect == LiveSpec => []LiveTypeOK
<1> QED
  BY LiveStart, LiveStep, LiveTyped, PTL DEF LiveSpec
=============================================================================
