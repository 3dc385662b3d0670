-------------------------------- MODULE Hedge -------------------------------
(***************************************************************************)
(* The hedged lookup: the closure Upstreams::resolve hands to do_call, in  *)
(* src/dns/upstream.rs.                                                    *)
(*                                                                         *)
(* Three nested select! blocks start up to three attempts, the second      *)
(* after 8 ms and the third 12 ms later, or as soon as an earlier attempt  *)
(* fails, and return the first answer.  What the blocks differ in is the   *)
(* set of attempts they poll and the timer they race, so the model keeps   *)
(* just these: "polled" and "timer".  An attempt posts to its node and, if *)
(* that fails, tries again with GET; it counts its own success or error.   *)
(***************************************************************************)
EXTENDS Naturals, FiniteSets

Attempt == 1..3

VARIABLES
    nodes,       \* how many nodes the ranking offers: 0 to 3 matter
    attempt,     \* what has become of each attempt
    polled,      \* the attempts the present select! or await polls
    consumed,    \* the attempts whose failure a select! has taken
    timer,       \* "hedge_sleep_1", "hedge_sleep_2" or "none"
    outcome,     \* how resolve ends: "answered", "nothing" or "panic"; or "pending"
    hedged_wins, \* by how much this call raises the counter
    recorded,    \* the attempts that reached record_success or record_error
    early        \* history: an attempt of this call failed while a timer ran

hedgeVars == <<nodes, attempt, polled, consumed, timer, outcome, hedged_wins, recorded, early>>

Fired == {i \in Attempt : attempt[i] # "unstarted"}
Available == 1..nodes

\* A call over n nodes: the first attempt starts at once; without nodes it is over.
Fresh(n) ==
    IF n = 0
    THEN [attempt |-> [i \in Attempt |-> "unstarted"], polled |-> {},
          timer |-> "none", outcome |-> "nothing"]
    ELSE [attempt |-> [i \in Attempt |-> IF i = 1 THEN "post" ELSE "unstarted"],
          polled |-> {1}, timer |-> "hedge_sleep_1", outcome |-> "pending"]

HedgeInit ==
    /\ nodes \in 0..3
    /\ attempt = Fresh(nodes).attempt
    /\ polled = Fresh(nodes).polled
    /\ timer = Fresh(nodes).timer
    /\ outcome = Fresh(nodes).outcome
    /\ consumed = {} /\ hedged_wins = 0 /\ recorded = {} /\ early = FALSE

-----------------------------------------------------------------------------
(***************************************************************************)
(* The attempts: execute_query.                                            *)
(***************************************************************************)
Running(i) == outcome = "pending" /\ attempt[i] \in {"post", "get"}

PostFails(i) ==
    /\ Running(i) /\ attempt[i] = "post"
    /\ attempt' = [attempt EXCEPT ![i] = "get"]
    /\ UNCHANGED <<nodes, polled, consumed, timer, outcome, hedged_wins, recorded, early>>

GetFails(i) ==
    /\ Running(i) /\ attempt[i] = "get"
    /\ attempt' = [attempt EXCEPT ![i] = "failed"]
    /\ recorded' = recorded \cup {i}
    /\ early' = (early \/ timer # "none")
    /\ UNCHANGED <<nodes, polled, consumed, timer, outcome, hedged_wins>>

Succeeds(i) ==
    /\ Running(i)
    /\ attempt' = [attempt EXCEPT ![i] = "answered"]
    /\ recorded' = recorded \cup {i}
    /\ UNCHANGED <<nodes, polled, consumed, timer, outcome, hedged_wins, early>>

-----------------------------------------------------------------------------
(***************************************************************************)
(* The select! blocks.  A block polls its branches in a random order and   *)
(* takes the first that is ready, so any ready one may be taken.  Polling  *)
(* an attempt whose result has been taken panics, and the release profile  *)
(* aborts the process on a panic.                                          *)
(***************************************************************************)
\* Mutant: the ranking is indexed without looking at its length.
Hedge_Unchecked ==
    LET i == IF timer = "hedge_sleep_1" THEN 2 ELSE 3
    IN  /\ attempt' = [attempt EXCEPT ![i] = "post"]
        /\ polled' = polled \cup {i}
        /\ timer' = IF i = 2 THEN "hedge_sleep_2" ELSE "none"

\* The next block: one attempt more if there is a node for it.
Hedge ==
    LET i == IF timer = "hedge_sleep_1" THEN 2 ELSE 3
    IN  /\ IF i \in Available
           THEN /\ attempt' = [attempt EXCEPT ![i] = "post"]
                /\ polled' = polled \cup {i}
           ELSE UNCHANGED <<attempt, polled>>
        /\ timer' = IF i = 2 /\ i \in Available THEN "hedge_sleep_2" ELSE "none"

SleepEnds ==
    /\ outcome = "pending" /\ timer # "none"
    /\ Hedge
    /\ UNCHANGED <<nodes, consumed, outcome, hedged_wins, recorded, early>>

TakeAnswer(i) ==
    /\ outcome = "pending" /\ i \in polled /\ attempt[i] = "answered"
    /\ outcome' = "answered"
    /\ hedged_wins' = IF i = 1 THEN 0 ELSE 1
    /\ UNCHANGED <<nodes, attempt, polled, consumed, timer, recorded, early>>

\* Mutant: the last stage goes on polling the attempt that failed.
TakeFailure_StillPolled(i) ==
    /\ outcome = "pending" /\ i \in polled \ consumed /\ attempt[i] = "failed"
    /\ consumed' = consumed \cup {i}
    /\ IF timer # "none"
       THEN Hedge /\ UNCHANGED outcome
       ELSE UNCHANGED <<attempt, timer, polled, outcome>>
    /\ UNCHANGED <<nodes, hedged_wins, recorded, early>>

\* Mutant: the last stage returns whatever comes first.
TakeFailure_Returned(i) ==
    /\ outcome = "pending" /\ i \in polled \ consumed /\ attempt[i] = "failed"
    /\ consumed' = consumed \cup {i}
    /\ IF timer # "none"
       THEN Hedge /\ UNCHANGED outcome
       ELSE /\ polled' = polled \ {i}
            /\ outcome' = "nothing"
            /\ UNCHANGED <<attempt, timer>>
    /\ UNCHANGED <<nodes, hedged_wins, recorded, early>>

\* Mutant: nothing is returned when the last attempt fails.
TakeFailure_Swallowed(i) ==
    /\ outcome = "pending" /\ i \in polled \ consumed /\ attempt[i] = "failed"
    /\ consumed' = consumed \cup {i}
    /\ IF timer # "none"
       THEN Hedge
       ELSE polled' = polled \ {i} /\ UNCHANGED <<attempt, timer>>
    /\ UNCHANGED <<nodes, outcome, hedged_wins, recorded, early>>

\* While a timer runs, a failure starts the next block early; the blocks of
\* the last stage go on with the attempts that are left.
TakeFailure(i) ==
    /\ outcome = "pending" /\ i \in polled \ consumed /\ attempt[i] = "failed"
    /\ consumed' = consumed \cup {i}
    /\ IF timer # "none"
       THEN Hedge /\ UNCHANGED outcome
       ELSE /\ polled' = polled \ {i}
            /\ outcome' = IF polled = {i} THEN "nothing" ELSE outcome
            /\ UNCHANGED <<attempt, timer>>
    /\ UNCHANGED <<nodes, hedged_wins, recorded, early>>

PollConsumed ==
    /\ outcome = "pending" /\ polled \cap consumed # {}
    /\ outcome' = "panic"
    /\ UNCHANGED <<nodes, attempt, polled, consumed, timer, hedged_wins, recorded, early>>

\* The call returns, the attempts still running are dropped, and another begins.
Again ==
    /\ outcome \notin {"pending", "panic"}
    /\ nodes' \in 0..3
    /\ attempt' = Fresh(nodes').attempt
    /\ polled' = Fresh(nodes').polled
    /\ timer' = Fresh(nodes').timer
    /\ outcome' = Fresh(nodes').outcome
    /\ consumed' = {} /\ hedged_wins' = 0 /\ recorded' = {} /\ early' = FALSE

Runs(i) == PostFails(i) \/ GetFails(i) \/ Succeeds(i)
Selects == SleepEnds \/ PollConsumed \/ \E i \in Attempt : TakeAnswer(i) \/ TakeFailure(i)

HedgeNext == Selects \/ Again \/ \E i \in Attempt : Runs(i)

HedgeSpec == HedgeInit /\ [][HedgeNext]_hedgeVars

\* Each request carries a timeout, the timers fire, and a ready task is polled.
HedgeFairSpec == HedgeSpec /\ WF_hedgeVars(Selects) /\ \A i \in Attempt : WF_hedgeVars(Runs(i))

-----------------------------------------------------------------------------
\* Every variable stays in its range, only nodes of the ranking are asked, and
\* only attempts that were started are polled.
HedgeTypeOK ==
    /\ nodes \in 0..3
    /\ attempt \in [Attempt -> {"unstarted", "post", "get", "answered", "failed"}]
    /\ Fired \subseteq Available
    /\ polled \subseteq Fired /\ consumed \subseteq Fired /\ recorded \subseteq Fired
    /\ timer \in {"hedge_sleep_1", "hedge_sleep_2", "none"}
    /\ outcome \in {"pending", "answered", "nothing", "panic"}
    /\ hedged_wins \in 0..1 /\ early \in BOOLEAN

\* resolve gives up only when every node it may ask, up to three, has failed
\* both ways, whatever order the timers, failures and answers come in.
GivesUpLast == outcome = "nothing" => \A i \in Available : attempt[i] = "failed"

\* A call whose attempts fail only after both hedge timers have fired is safe:
\* no select! polls an attempt after its result was taken.
PanicNeedsEarlyFailure == outcome = "panic" => early

\* Both: a call ends without an answer only when there is none, or after an early failure.
HedgeSound == GivesUpLast /\ PanicNeedsEarlyFailure

\* "Self-healed" upstreams (README) presuppose a process that survives an
\* attempt that fails, whenever it fails.
NeverPanics == outcome # "panic"

\* "Nodes exhibiting consecutive errors or timeouts are isolated" (README): a
\* call that returns has counted a success or an error for every node it asked.
EveryAttemptCounted == outcome = "answered" => recorded = Fired

\* Every call returns.
CallEnds == (outcome = "pending") ~> (outcome # "pending")
=============================================================================
