---------------------------- MODULE Singleflight ----------------------------
(***************************************************************************)
(* Singleflight::do_call of src/dns/upstream.rs.                           *)
(*                                                                         *)
(* The first caller for a key puts a broadcast sender into a map and does  *)
(* the lookup; later callers subscribe to the sender and wait.  The        *)
(* leader's guard takes the sender out of the map when it is dropped: at   *)
(* the end of the lookup, when the answer has first been sent, or when the *)
(* leader's future is cancelled (its client hung up), in which case the    *)
(* subscribers see the channel close.  A lookup that brings nothing closes *)
(* the channel too.                                                        *)
(***************************************************************************)
EXTENDS Naturals, FiniteSets

CONSTANTS
    Caller,      \* the futures that call do_call
    Key,         \* "<qname>:<qtype>"
    Answer,      \* what a lookup may bring, other than nothing
    Nobody,      \* no sender is in the map
    NoKey,       \* not in a call
    Empty,       \* nothing in a receiver yet; no result yet
    Closed       \* the channel closed without a message; the lookup failed

ASSUME ConstantsAssumption ==
    /\ Nobody \notin Caller /\ NoKey \notin Key
    /\ Empty \notin Answer /\ Closed \notin Answer /\ Empty # Closed

VARIABLES
    in_flight,   \* the map: key -> the leader whose sender it holds, or Nobody
    pc,          \* "idle", "leading", "finishing", "waiting" or "done"
    key,         \* the key of a caller's call
    leader,      \* the caller whose sender a follower subscribed to
    result       \* the leader's result; the follower's receiver; the return value

vars == <<in_flight, pc, key, leader, result>>

Live(c) == pc[c] \in {"leading", "finishing"}
Waiting(c) == pc[c] = "waiting" /\ result[c] = Empty
Followers(c) == {d \in Caller : Waiting(d) /\ leader[d] = c}

Init ==
    /\ in_flight = [k \in Key |-> Nobody]
    /\ pc = [c \in Caller |-> "idle"]
    /\ key = [c \in Caller |-> NoKey]
    /\ leader = [c \in Caller |-> Nobody]
    /\ result = [c \in Caller |-> Empty]

-----------------------------------------------------------------------------
\* Mutant: the map is looked at under one lock and written under another.
Lead_Unlocked(c, k) ==
    /\ pc[c] = "idle"
    /\ in_flight' = [in_flight EXCEPT ![k] = c]
    /\ pc' = [pc EXCEPT ![c] = "leading"]
    /\ key' = [key EXCEPT ![c] = k]
    /\ UNCHANGED <<leader, result>>

\* Under the map's lock: insert a sender, or subscribe to the one there is.
Lead(c, k) ==
    /\ pc[c] = "idle" /\ in_flight[k] = Nobody
    /\ in_flight' = [in_flight EXCEPT ![k] = c]
    /\ pc' = [pc EXCEPT ![c] = "leading"]
    /\ key' = [key EXCEPT ![c] = k]
    /\ UNCHANGED <<leader, result>>

Join(c, k) ==
    /\ pc[c] = "idle" /\ in_flight[k] # Nobody
    /\ leader' = [leader EXCEPT ![c] = in_flight[k]]
    /\ pc' = [pc EXCEPT ![c] = "waiting"]
    /\ key' = [key EXCEPT ![c] = k]
    /\ UNCHANGED <<in_flight, result>>

\* upstream_fn().await returns; the guard holds its result and is not yet dropped.
LookupEnds(c) ==
    /\ pc[c] = "leading"
    /\ \E r \in Answer \cup {Closed} : result' = [result EXCEPT ![c] = r]
    /\ pc' = [pc EXCEPT ![c] = "finishing"]
    /\ UNCHANGED <<in_flight, key, leader>>

\* Mutant: the message reaches one receiver, as on an mpsc channel.
DropGuard_OneReceiver(c, message) ==
    /\ in_flight' = [in_flight EXCEPT ![key[c]] = Nobody]
    /\ \/ Followers(c) = {} /\ UNCHANGED result
       \/ \E d \in Followers(c) : result' = [result EXCEPT ![d] = message]

\* SingleflightGuard::drop: remove the sender, and send only a completed answer.
DropGuard(c, message) ==
    /\ in_flight' = [in_flight EXCEPT ![key[c]] = Nobody]
    /\ result' = [d \in Caller |-> IF d \in Followers(c) THEN message ELSE result[d]]

Finish(c) ==
    /\ pc[c] = "finishing"
    /\ DropGuard(c, result[c])
    /\ pc' = [pc EXCEPT ![c] = "done"]
    /\ UNCHANGED <<key, leader>>

Receive(c) ==
    /\ pc[c] = "waiting" /\ result[c] # Empty
    /\ pc' = [pc EXCEPT ![c] = "done"]
    /\ UNCHANGED <<in_flight, key, leader, result>>

\* Mutant: a cancelled leader has no guard and drops nothing.
CancelLeader_NoGuard(c) ==
    /\ pc[c] = "leading"
    /\ pc' = [pc EXCEPT ![c] = "idle"]
    /\ key' = [key EXCEPT ![c] = NoKey]
    /\ UNCHANGED <<in_flight, leader, result>>

\* The future is dropped at its await: the leader's guard goes with it.
CancelLeader(c) ==
    /\ pc[c] = "leading"
    /\ DropGuard(c, Closed)
    /\ pc' = [pc EXCEPT ![c] = "idle"]
    /\ key' = [key EXCEPT ![c] = NoKey]
    /\ UNCHANGED leader

\* Mutant: the receiver is not closed with the call.
Reset_ReceiverKept(c) ==
    /\ pc' = [pc EXCEPT ![c] = "idle"]
    /\ key' = [key EXCEPT ![c] = NoKey]
    /\ leader' = [leader EXCEPT ![c] = Nobody]
    /\ UNCHANGED <<in_flight, result>>

\* A waiting follower is dropped, or a call returns.
Reset(c) ==
    /\ pc' = [pc EXCEPT ![c] = "idle"]
    /\ key' = [key EXCEPT ![c] = NoKey]
    /\ leader' = [leader EXCEPT ![c] = Nobody]
    /\ result' = [result EXCEPT ![c] = Empty]
    /\ UNCHANGED in_flight

CancelFollower(c) == pc[c] = "waiting" /\ Reset(c)
Return(c) == pc[c] = "done" /\ Reset(c)

Cancel(c) == CancelLeader(c) \/ CancelFollower(c)
Progress(c) == LookupEnds(c) \/ Finish(c) \/ Receive(c) \/ Return(c)

Next ==
    \E c \in Caller :
        \/ \E k \in Key : Lead(c, k) \/ Join(c, k)
        \/ Progress(c)
        \/ Cancel(c)

Spec == Init /\ [][Next]_vars

\* Every attempt of a lookup has a 1500 ms timeout, and a ready future is polled.
FairSpec == Spec /\ \A c \in Caller : WF_vars(Progress(c))

-----------------------------------------------------------------------------
\* Every variable stays in its range, and a caller has a key, a leader and a
\* result just when its place in do_call says so.
TypeOK ==
    /\ in_flight \in [Key -> Caller \cup {Nobody}]
    /\ pc \in [Caller -> {"idle", "leading", "finishing", "waiting", "done"}]
    /\ key \in [Caller -> Key \cup {NoKey}]
    /\ leader \in [Caller -> Caller \cup {Nobody}]
    /\ result \in [Caller -> Answer \cup {Empty, Closed}]
    /\ \A c \in Caller :
          /\ key[c] = NoKey <=> pc[c] = "idle"
          /\ pc[c] \in {"idle", "leading"} => result[c] = Empty
          /\ pc[c] \in {"finishing", "done"} => result[c] # Empty
          /\ pc[c] = "waiting" => leader[c] \in Caller

\* "A single in-flight upstream lookup" (README): two callers never look the
\* same key up at the same time.
OneFlight ==
    \A c, d \in Caller : Live(c) /\ Live(d) /\ key[c] = key[d] => c = d

\* Nobody waits for a lookup that is over, or for one of another key: the
\* leader of a waiting follower is at work on the follower's key.
WaitersHaveLeader ==
    \A c \in Caller : Waiting(c) => Live(leader[c]) /\ key[leader[c]] = key[c]

\* What the two rest on: the map holds exactly the senders of the leaders.
MapInv ==
    /\ \A k \in Key : in_flight[k] # Nobody =>
          Live(in_flight[k]) /\ key[in_flight[k]] = k
    /\ \A c \in Caller : Live(c) => key[c] \in Key /\ in_flight[key[c]] = c

\* Once the calls of the group are over, every caller gets its answer in the
\* step that ends the lookup: this is the abstract specification.
Abstract == INSTANCE Coalesce WITH
    Outcome <- Answer, Pending <- Empty, Failed <- Closed,
    group   <- [c \in Caller |-> IF Live(c) \/ Waiting(c) THEN key[c] ELSE NoKey],
    outcome <- [c \in Caller |-> IF Live(c) THEN Empty ELSE result[c]]

Implements == Abstract!Spec

\* No caller waits for ever, whoever is cancelled.
WaitEnds == \A c \in Caller : (pc[c] = "waiting") ~> (pc[c] # "waiting")

\* "All waiting clients share the single response" (README): a follower is
\* told of a failure only when the lookup brought nothing.  Violated: a leader
\* whose client hangs up takes its followers' answer with it.
FailureIsReal ==
    [][\A c \in Caller :
          Waiting(c) /\ result'[c] = Closed => pc[leader[c]] = "finishing"]_vars
=============================================================================
