------------------------------- MODULE MCLive ------------------------------
(***************************************************************************)
(* The parts of the server that promise something will happen, checked     *)
(* under their fairness in one run of TLC.  Which part runs is chosen in   *)
(* the initial state and never changes; the others rest in an initial      *)
(* state of theirs.  They share no state, so the behaviours are those of   *)
(* the five modules.                                                       *)
(***************************************************************************)
EXTENDS Singleflight, Hedge, Feeds, Listeners, Answers

CONSTANT Part      \* the parts that are run

VARIABLE part

flightVars == vars

liveVars == <<part, flightVars, hedgeVars, feedsVars, listenersVars, answersVars>>

---------------------------------------------------------------------------
LiveInit ==
    /\ part \in Part
    /\ Init /\ FeedsInit
    /\ HedgeInit /\ (part # "hedge" => nodes = 0)
    /\ ListenersInit /\ (part # "listeners" => kind = "udp")
    /\ AnswersInit /\ (part # "answers" => rule = "none")

\* It is part p's step: the others' variables stay as they are.
Turn(p) ==
    /\ part = p /\ UNCHANGED part
    /\ IF p = "flight" THEN TRUE ELSE UNCHANGED flightVars
    /\ IF p = "hedge" THEN TRUE ELSE UNCHANGED hedgeVars
    /\ IF p = "feeds" THEN TRUE ELSE UNCHANGED feedsVars
    /\ IF p = "listeners" THEN TRUE ELSE UNCHANGED listenersVars
    /\ IF p = "answers" THEN TRUE ELSE UNCHANGED answersVars

LiveNext ==
    \/ Turn("flight") /\ Next
    \/ Turn("hedge") /\ HedgeNext
    \/ Turn("feeds") /\ FeedsNext
    \/ Turn("listeners") /\ ListenersNext
    \/ Turn("answers") /\ AnswersNext

\* The fairness each module states, of the part that runs.
LiveFairness ==
    /\ \A c \in Caller : WF_liveVars(Turn("flight") /\ Progress(c))
    /\ WF_liveVars(Turn("hedge") /\ Selects)
    /\ \A i \in Attempt : WF_liveVars(Turn("hedge") /\ Runs(i))
    /\ WF_liveVars(Turn("feeds") /\ Daily)
    /\ \A l \in Loop : WF_liveVars(Turn("feeds") /\ Works(l))
    /\ \A c \in Conn : WF_liveVars(Turn("listeners") /\ Serves(c))
    /\ \A c \in Conn, i \in Query : WF_liveVars(Turn("listeners") /\ Answering(c, i))
    /\ WF_liveVars(Turn("answers") /\ AgePositive)
    /\ WF_liveVars(Turn("answers") /\ AgeNegative)

LiveSpec == LiveInit /\ [][LiveNext]_liveVars /\ LiveFairness

---------------------------------------------------------------------------
\* Type invariant: the variables of every part are what its module says.
LiveTypeOK ==
    /\ TypeOK /\ HedgeTypeOK /\ FeedsTypeOK /\ ListenersTypeOK
    /\ AnswersTypeOK

\* Whoever asks the upstreams hears from them: no follower of a lookup waits for ever,
\* cancelled leaders included, and every hedged call returns (upstream.rs).
LookupsEnd == WaitEnds /\ CallEnds

\* What was published last gets into every filter and stays there (state.rs).
FeedsArrive == part = "feeds" => FeedsCatchUp

\* A query that was read is answered while its client reads, and a client that has said
\* its last word gives its permit back (plain.rs, dot.rs, doq.rs, doh3.rs).
AsksEnd == AskAnswered /\ PermitReturns
=============================================================================
