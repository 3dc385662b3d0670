------------------------------ MODULE Coalesce ------------------------------
(***************************************************************************)
(* What request coalescing promises its callers: those who ask for the     *)
(* same key while a lookup for it is open form one group, every member     *)
(* gets the same outcome in one step, and nobody is left behind.           *)
(* Singleflight implements it.                                             *)
(***************************************************************************)
CONSTANTS Caller, Key, Outcome,
          NoKey,       \* not waiting in any group
          Pending,     \* no outcome yet
          Failed       \* the outcome of a lookup that brought no answer

VARIABLES group,       \* the key whose group a caller waits in, or NoKey
          outcome      \* what a caller was given, or Pending

Members(k) == {c \in Caller : group[c] = k}

Init ==
    /\ group = [c \in Caller |-> NoKey]
    /\ outcome = [c \in Caller |-> Pending]

Join(c, k) ==
    /\ group[c] = NoKey /\ outcome[c] = Pending
    /\ group' = [group EXCEPT ![c] = k]
    /\ UNCHANGED outcome

\* A caller goes away before or after it has its outcome.
Leave(c) ==
    /\ group' = [group EXCEPT ![c] = NoKey]
    /\ outcome' = [outcome EXCEPT ![c] = Pending]

\* The whole group of a key gets one outcome.
Settle(k, o) ==
    /\ Members(k) # {}
    /\ group' = [c \in Caller |-> IF c \in Members(k) THEN NoKey ELSE group[c]]
    /\ outcome' = [c \in Caller |-> IF c \in Members(k) THEN o ELSE outcome[c]]

\* The member that did the work goes away and the others fail.
Abandon(k, c) ==
    /\ group[c] = k
    /\ group' = [d \in Caller |-> IF d \in Members(k) THEN NoKey ELSE group[d]]
    /\ outcome' = [d \in Caller |->
                     IF d = c THEN Pending ELSE IF d \in Members(k) THEN Failed ELSE outcome[d]]

Next ==
    \/ \E c \in Caller : Leave(c)
    \/ \E c \in Caller, k \in Key : Join(c, k) \/ Abandon(k, c)
    \/ \E k \in Key, o \in Outcome \cup {Failed} : Settle(k, o)

Spec == Init /\ [][Next]_<<group, outcome>>
=============================================================================
