--------------------------- MODULE AnswersProofs ---------------------------
(***************************************************************************)
(* Theorems about the query pipeline around the answer caches: what a      *)
(* client is told, for any number of queries in flight and any sequence of *)
(* what an administrator does.                                             *)
(***************************************************************************)
EXTENDS Answers, TLAPS

\* What a query may be.
QueryState ==
    [kind : {"idle", "wire", "json", "swr", "prefetch"},
     pc : {"idle", "condemn", "screen", "lookup", "resolve", "store"},
     bypassed : BOOLEAN, reply : Reply \cup {None}, cause : Causes,
     late : BOOLEAN, seen : SUBSET Climates]

\* Something is still there, or still to be flushed, that a denial may be for.  It does
\* not depend on the blocking switch, as switching flushes nothing.
Stands == owed \/ shield \/ rule = "bypass" \/ rule = "block"

(***************************************************************************)
(* What a query knows of the settings, where now is the present Climate:   *)
(* what it has passed so far it has seen; and a denial it is about to      *)
(* store stands, or was overtaken by a flush.                              *)
(***************************************************************************)
Sound(q, now, stands) ==
    /\ q.kind = "idle" <=> q.pc = "idle"
    /\ q.pc \in {"screen", "lookup"} => q.kind \in {"wire", "json"}
    /\ q.pc = "condemn" => q.cause \in {"rule", "shield", "threat"}
    /\ q.pc = "store" => q.reply \in Reply
    /\ q.pc = "condemn" /\ q.cause \in {"rule", "shield"} =>
          q.kind = "wire" /\ "denies" \in q.seen /\ (q.late \/ stands)
    /\ q.kind \in {"wire", "json"} =>
          /\ now \subseteq q.seen
          /\ q.pc = "screen" => "passes" \in q.seen
          /\ q.pc \in {"lookup", "resolve", "store"} => {"passes", "unshielded"} \subseteq q.seen
          /\ q.bypassed => "lenient" \in q.seen
          /\ q.pc = "store" /\ q.reply = "private" => RebindOk \/ "lenient" \in q.seen

\* A denial that is stored stands, or is known to have come late.
NegativeStands == neg # NoEntry /\ neg.cause \in {"rule", "shield"} => neg.late \/ Stands

Inv ==
    /\ AnswersTypeOK
    /\ \A t \in Task : Sound(task[t], Climate, Stands)
    /\ NegativeStands
    /\ AnswersMatchPolicy

-----------------------------------------------------------------------------
(* The settings.                                                           *)

LEMMA ClimateTyped == Climate \in SUBSET Climates
BY DEF Climate, Climates

LEMMA ClimateSays ==
    /\ PolicyDenies => "denies" \in Climate
    /\ ShieldDenies => "denies" \in Climate
    /\ ~PolicyDenies => "passes" \in Climate
    /\ ~ShieldDenies => "unshielded" \in Climate
    /\ ~blocking \/ rule = "bypass" => "lenient" \in Climate
BY DEF Climate

\* What stands is seen: as a denial, or as a name or a server that denies nothing.
LEMMA StandsSeen == AnswersTypeOK /\ Stands => {"denies", "lenient"} \cap Climate # {}
<1> SUFFICES ASSUME AnswersTypeOK, Stands PROVE "denies" \in Climate \/ "lenient" \in Climate
  OBVIOUS
<1>1. CASE owed
  BY <1>1 DEF Climate
<1>2. CASE rule = "bypass" \/ ~blocking
  BY <1>2, ClimateSays
<1>3. CASE rule # "bypass" /\ blocking /\ (shield \/ rule = "block")
  BY <1>3, ClimateSays DEF PolicyDenies
<1> QED
  BY <1>1, <1>2, <1>3 DEF Stands

LEMMA DeniesStands == PolicyDenies => Stands
BY DEF PolicyDenies, Stands

LEMMA Same == UNCHANGED admin => Climate' = Climate /\ Stands' = Stands
BY DEF admin, Climate, Stands, PolicyDenies, ShieldDenies

-----------------------------------------------------------------------------
LEMMA InitSound == AnswersInit => Inv
<1> SUFFICES ASSUME AnswersInit PROVE Inv
  OBVIOUS
<1>1. Idle \in QueryState /\ Idle.kind = "idle" /\ Idle.pc = "idle"
  BY DEF Idle, QueryState, Causes, None
<1>2. task \in [Task -> QueryState]
  BY <1>1 DEF AnswersInit
<1>3. told \in [out : Reply \cup {None, "denied", "fail"}, cause : Causes,
                late : BOOLEAN, seen : SUBSET Climates]
  BY DEF AnswersInit, Silence, Causes, None
<1>4. AnswersTypeOK
  <2>1. rule \in Rules /\ changes \in 0 .. MaxChanges
    BY AnswersAssumption DEF AnswersInit
  <2> QED
    BY <1>2, <1>3, <2>1 DEF AnswersTypeOK, AnswersInit, QueryState
<1>5. \A t \in Task : Sound(task[t], Climate, Stands)
  BY <1>1 DEF AnswersInit, Sound
<1>6. NegativeStands
  BY DEF AnswersInit, NegativeStands
<1>7. AnswersMatchPolicy
  BY DEF AnswersInit, AnswersMatchPolicy, Silence, None, Reply
<1> QED
  BY <1>4, <1>5, <1>6, <1>7 DEF Inv

\* One query moves, and the settings stay.
LEMMA OneQueryMoves ==
    ASSUME Inv, NEW t \in Task, NEW q \in QueryState,
           UNCHANGED admin,
           task' = [task EXCEPT ![t] = q], Sound(q, Climate, Stands),
           pos' = NoEntry \/ pos' \in [reply : Reply, age : {"fresh", "stale"}],
           neg' = NoEntry \/ neg' \in [cause : Causes \ {None}, age : {"young", "old"},
                                       late : BOOLEAN],
           NegativeStands',
           told' \in [out : Reply \cup {None, "denied", "fail"}, cause : Causes,
                      late : BOOLEAN, seen : SUBSET Climates],
           AnswersMatchPolicy'
    PROVE  Inv'
<1>1. task \in [Task -> QueryState] /\ task' \in [Task -> QueryState]
  BY DEF Inv, AnswersTypeOK, QueryState
<1>2. Climate' = Climate /\ Stands' = Stands
  BY Same
<1>3. AnswersTypeOK'
  BY <1>1 DEF Inv, AnswersTypeOK, QueryState, admin
<1>4. ASSUME NEW u \in Task PROVE Sound(task'[u], Climate', Stands')
  <2>1. task'[u] = IF u = t THEN q ELSE task[u]
    BY <1>1
  <2> QED
    BY <1>2, <2>1 DEF Inv
<1> QED
  BY <1>3, <1>4 DEF Inv

\* A query goes on, and tells nobody anything.
LEMMA MovesOn ==
    ASSUME Inv, NEW t \in Task, NEW q \in QueryState,
           UNCHANGED admin,
           Put(t, q), Sound(q, Climate, Stands),
           pos' = NoEntry \/ pos' \in [reply : Reply, age : {"fresh", "stale"}],
           \/ neg' \in {neg, NoEntry}
           \/ neg' \in [cause : {"nx", "threat"}, age : {"young", "old"}, late : BOOLEAN]
    PROVE  Inv'
<1>1. /\ told' \in [out : Reply \cup {None, "denied", "fail"}, cause : Causes,
                    late : BOOLEAN, seen : SUBSET Climates]
      /\ AnswersMatchPolicy'
  BY DEF Put, Silence, Causes, None, AnswersMatchPolicy, Reply
<1>2. neg' = NoEntry \/ neg' \in [cause : Causes \ {None}, age : {"young", "old"}, late : BOOLEAN]
  BY DEF Inv, AnswersTypeOK, Causes, None
<1>3. NegativeStands'
  <2>1. CASE neg' \in {neg, NoEntry}
    BY <2>1, Same DEF Inv, NegativeStands
  <2>2. CASE neg' \in [cause : {"nx", "threat"}, age : {"young", "old"}, late : BOOLEAN]
    BY <2>2 DEF NegativeStands
  <2> QED
    BY <2>1, <2>2
<1> QED
  BY <1>1, <1>2, <1>3, OneQueryMoves DEF Put

\* A query ends, with or without an answer.
LEMMA IdleSound == Idle \in QueryState /\ \A now, stands : Sound(Idle, now, stands)
BY DEF Idle, QueryState, Causes, None, Sound

LEMMA QueryEnds ==
    ASSUME Inv, NEW t \in Task,
           UNCHANGED admin, neg' \in {neg, NoEntry},
           task' = [task EXCEPT ![t] = Idle],
           pos' = NoEntry \/ pos' \in [reply : Reply, age : {"fresh", "stale"}],
           told' \in [out : Reply \cup {None, "denied", "fail"}, cause : Causes,
                      late : BOOLEAN, seen : SUBSET Climates],
           AnswersMatchPolicy'
    PROVE  Inv'
<1>1. NegativeStands'
  BY Same DEF Inv, NegativeStands
<1>2. neg' = NoEntry \/ neg' \in [cause : Causes \ {None}, age : {"young", "old"}, late : BOOLEAN]
  BY DEF Inv, AnswersTypeOK
<1> QED
  BY <1>1, <1>2, IdleSound, OneQueryMoves

LEMMA PosTyped ==
    ASSUME Inv, UNCHANGED pos \/ pos' = NoEntry
           \/ \E reply \in Reply, allowed \in BOOLEAN : InsertAllowed(reply, allowed)
    PROVE  pos' = NoEntry \/ pos' \in [reply : Reply, age : {"fresh", "stale"}]
BY DEF Inv, AnswersTypeOK, InsertAllowed

-----------------------------------------------------------------------------
(* The queries.                                                            *)

LEMMA Arrives ==
    ASSUME Inv, NEW t \in Task,
           ArriveDenied(t) \/ ArrivePassed(t) \/ ArriveJson(t) \/ Prefetch(t)
    PROVE  Inv'
<1>p. pos' = NoEntry \/ pos' \in [reply : Reply, age : {"fresh", "stale"}]
  BY PosTyped DEF ArriveDenied, ArrivePassed, ArriveJson, Prefetch
<1>u. UNCHANGED admin /\ UNCHANGED neg
  BY DEF ArriveDenied, ArrivePassed, ArriveJson, Prefetch
<1>1. ASSUME NEW kind \in {"wire", "json"}, NEW pc \in {"condemn", "screen"}, NEW cause \in Causes,
             Start(t, kind, pc, cause),
             pc = "condemn" => kind = "wire" /\ PolicyDenies /\ cause \in {"rule", "shield"},
             pc = "screen" => ~PolicyDenies
      PROVE  Inv'
  <2> DEFINE q == [Idle EXCEPT !.kind = kind, !.pc = pc, !.cause = cause, !.seen = Climate]
  <2>1. q \in QueryState
    BY ClimateTyped DEF Idle, QueryState, Causes, None
  <2>2. /\ q.kind = kind /\ q.pc = pc /\ q.cause = cause /\ q.seen = Climate
        /\ q.bypassed = FALSE
    BY DEF Idle
  <2>3. Put(t, q)
    BY <1>1 DEF Start, Put
  <2> HIDE DEF q
  <2>4. Sound(q, Climate, Stands)
    BY <1>1, <2>2, ClimateSays, DeniesStands DEF Sound
  <2> QED
    BY <1>p, <1>u, <2>1, <2>3, <2>4, MovesOn
<1>2. CASE ArriveDenied(t)
  <2>1. DenialCause \in Causes /\ DenialCause \in {"rule", "shield"}
    BY DEF DenialCause, Causes
  <2> QED
    BY <1>1, <1>2, <2>1 DEF ArriveDenied
<1>3. CASE ArrivePassed(t)
  BY <1>1, <1>3 DEF ArrivePassed, Causes
<1>4. CASE ArriveJson(t)
  <2>1. CASE PolicyDenies
    <3>1. /\ told' = [out |-> "denied", cause |-> DenialCause, late |-> FALSE, seen |-> Climate]
          /\ UNCHANGED task
      BY <1>4, <2>1 DEF ArriveJson
    <3>2. DenialCause \in Causes
      BY DEF DenialCause, Causes
    <3>3. told' \in [out : Reply \cup {None, "denied", "fail"}, cause : Causes,
                     late : BOOLEAN, seen : SUBSET Climates]
      BY <3>1, <3>2, ClimateTyped
    <3>4. "denies" \in Climate
      BY <2>1, ClimateSays
    <3>5. told'.out = "denied" /\ told'.seen = Climate
      BY <3>1
    <3>6. AnswersMatchPolicy'
      BY <3>4, <3>5 DEF AnswersMatchPolicy, Reply
    <3>7. task[t] \in QueryState /\ task' = [task EXCEPT ![t] = task[t]]
          /\ Sound(task[t], Climate, Stands)
      BY <3>1 DEF Inv, AnswersTypeOK, QueryState
    <3>8. NegativeStands'
      BY <1>u, Same DEF Inv, NegativeStands
    <3>9. neg' = NoEntry
          \/ neg' \in [cause : Causes \ {None}, age : {"young", "old"}, late : BOOLEAN]
      BY <1>u DEF Inv, AnswersTypeOK
    <3> QED
      BY <1>p, <1>u, <3>3, <3>6, <3>7, <3>8, <3>9, OneQueryMoves
  <2>2. CASE ~PolicyDenies
    BY <1>1, <1>4, <2>2 DEF ArriveJson, Causes
  <2> QED
    BY <2>1, <2>2
<1>5. CASE Prefetch(t)
  <2> DEFINE q == [Idle EXCEPT !.kind = "prefetch", !.pc = "resolve"]
  <2>1. q \in QueryState /\ q.kind = "prefetch" /\ q.pc = "resolve"
    BY DEF Idle, QueryState, Causes, None
  <2>2. Put(t, q)
    BY <1>5 DEF Prefetch, Put
  <2> HIDE DEF q
  <2>3. Sound(q, Climate, Stands)
    BY <2>1 DEF Sound
  <2> QED
    BY <1>p, <1>u, <2>1, <2>2, <2>3, MovesOn
<1> QED
  BY <1>2, <1>3, <1>4, <1>5

LEMMA QueryTyped ==
    ASSUME Inv, NEW t \in Task
    PROVE  /\ task[t] \in QueryState /\ Sound(task[t], Climate, Stands)
           /\ task[t].seen \in SUBSET Climates /\ task[t].cause \in Causes
           /\ task[t].late \in BOOLEAN /\ task[t].bypassed \in BOOLEAN
           /\ task[t].reply \in Reply \cup {None}
<1>1. task[t] \in QueryState
  BY DEF Inv, AnswersTypeOK, QueryState
<1> QED
  BY <1>1 DEF Inv, QueryState

\* A denial is given for what stands or for what came late.
LEMMA DenialTold ==
    ASSUME Inv, NEW t \in Task, NEW cause \in Causes, NEW late \in BOOLEAN,
           UNCHANGED admin, UNCHANGED pos, UNCHANGED neg,
           Denied(t, cause, late),
           cause \in {"rule", "shield"} => {"denies", "lenient"} \cap task[t].seen # {} \/ late
    PROVE  Inv'
<1>1. told' = [out |-> "denied", cause |-> cause, late |-> late, seen |-> task[t].seen]
      /\ task' = [task EXCEPT ![t] = Idle]
  BY DEF Denied, Tell
<1>2. told' \in [out : Reply \cup {None, "denied", "fail"}, cause : Causes,
                 late : BOOLEAN, seen : SUBSET Climates]
  BY <1>1, QueryTyped
<1>3. /\ told'.out = "denied" /\ told'.cause = cause /\ told'.late = late
      /\ told'.seen = task[t].seen
  BY <1>1
<1>4. AnswersMatchPolicy'
  BY <1>3 DEF AnswersMatchPolicy, Reply
<1>5. neg' \in {neg, NoEntry}
  OBVIOUS
<1> QED
  BY <1>1, <1>2, <1>4, <1>5, PosTyped, QueryEnds

\* An answer is given, and may be stored, by a query that has seen that it may.
LEMMA Gives ==
    ASSUME Inv, NEW t \in Task, NEW out \in Reply \cup {"fail"},
           UNCHANGED admin,
           pos' = NoEntry \/ pos' \in [reply : Reply, age : {"fresh", "stale"}],
           Answered(t, out), neg' \in {neg, NoEntry},
           out \in Reply => {"passes", "unshielded"} \subseteq task[t].seen,
           out = "private" => RebindOk \/ "lenient" \in task[t].seen
    PROVE  Inv'
<1>1. told' = [out |-> out, cause |-> None, late |-> FALSE, seen |-> task[t].seen]
      /\ task' = [task EXCEPT ![t] = Idle]
  BY DEF Answered, Tell
<1>2. told' \in [out : Reply \cup {None, "denied", "fail"}, cause : Causes,
                 late : BOOLEAN, seen : SUBSET Climates]
  BY <1>1, QueryTyped DEF Causes
<1>3. told'.out = out /\ told'.seen = task[t].seen
  BY <1>1
<1>4. AnswersMatchPolicy'
  BY <1>3 DEF AnswersMatchPolicy, Reply
<1> QED
  BY <1>1, <1>2, <1>4, QueryEnds

\* An answer that may hold a private address is given only to a query that may see it.
LEMMA NotIntercepted ==
    ASSUME Inv, NEW t \in Task, task[t].kind \in {"wire", "json"},
           NEW reply, ~Rebinds(t, reply), reply = "private"
    PROVE  RebindOk \/ "lenient" \in task[t].seen
BY QueryTyped, ClimateSays DEF Rebinds, Sound

LEMMA Screens ==
    ASSUME Inv, NEW t \in Task,
           \/ StoreDenial(t) \/ Shielded(t) \/ NegativeHit(t) \/ Screen(t) \/ SafeBrowsing(t)
    PROVE  Inv'
<1> DEFINE q0 == task[t]
<1>q. /\ q0 \in QueryState /\ Sound(q0, Climate, Stands)
      /\ q0.seen \in SUBSET Climates /\ q0.cause \in Causes /\ q0.late \in BOOLEAN
  BY QueryTyped
<1>u. UNCHANGED admin /\ UNCHANGED pos
  BY DEF StoreDenial, Shielded, NegativeHit, Screen, SafeBrowsing
<1>p. pos' = NoEntry \/ pos' \in [reply : Reply, age : {"fresh", "stale"}]
  BY <1>u, PosTyped
<1>1. CASE StoreDenial(t)
  <2>1. q0.pc = "condemn" /\ neg' = [cause |-> q0.cause, age |-> "young", late |-> q0.late]
    BY <1>1 DEF StoreDenial, InsertNegative
  <2>2. q0.cause \in {"rule", "shield", "threat"}
    BY <1>q, <2>1 DEF Sound
  <2>3. neg' \in [cause : Causes \ {None}, age : {"young", "old"}, late : BOOLEAN]
    BY <1>q, <2>1, <2>2 DEF Causes, None
  <2>4. NegativeStands'
    BY <1>q, <1>u, <2>1, Same DEF NegativeStands, Sound
  <2>5. /\ task' = [task EXCEPT ![t] = Idle]
        /\ \/ told' = Silence
           \/ told' = [out |-> "denied", cause |-> q0.cause, late |-> FALSE, seen |-> q0.seen]
    BY <1>1 DEF StoreDenial, Ended, Denied, Tell
  <2>6. /\ told' \in [out : Reply \cup {None, "denied", "fail"}, cause : Causes,
                      late : BOOLEAN, seen : SUBSET Climates]
        /\ AnswersMatchPolicy'
    <3>1. CASE told' = Silence
      BY <3>1 DEF Silence, Causes, None, AnswersMatchPolicy, Reply
    <3>2. CASE told' = [out |-> "denied", cause |-> q0.cause, late |-> FALSE, seen |-> q0.seen]
      <4>1. told' \in [out : Reply \cup {None, "denied", "fail"}, cause : Causes,
                       late : BOOLEAN, seen : SUBSET Climates]
        BY <1>q, <3>2
      <4>2. told'.out = "denied" /\ told'.cause = q0.cause /\ told'.seen = q0.seen
        BY <3>2
      <4>3. q0.cause \in {"rule", "shield"} => "denies" \in q0.seen
        BY <1>q, <2>1 DEF Sound
      <4> QED
        BY <4>1, <4>2, <4>3 DEF AnswersMatchPolicy, Reply
    <3> QED
      BY <2>5, <3>1, <3>2
  <2> QED
    BY <1>p, <1>u, <2>3, <2>4, <2>5, <2>6, IdleSound, OneQueryMoves
<1>2. CASE Shielded(t)
  BY <1>q, <1>u, <1>2, ClimateSays, DenialTold DEF Shielded, Sound, Causes
<1>3. CASE NegativeHit(t)
  <2>1. neg.cause \in Causes /\ neg.late \in BOOLEAN
    BY <1>3 DEF NegativeHit, Inv, AnswersTypeOK
  <2>2. neg.cause \in {"rule", "shield"} => {"denies", "lenient"} \cap Climate # {} \/ neg.late
    BY <1>3, StandsSeen DEF NegativeHit, Inv, NegativeStands
  <2>3. Climate \subseteq q0.seen
    BY <1>q, <1>3 DEF NegativeHit, Sound
  <2> QED
    BY <1>3, <1>u, <2>1, <2>2, <2>3, DenialTold DEF NegativeHit, Renewed
<1>4. CASE Screen(t)
  <2> DEFINE q == [q0 EXCEPT !.bypassed = (rule = "bypass"), !.pc = "lookup"]
  <2>1. q \in QueryState /\ q.bypassed = (rule = "bypass") /\ q.pc = "lookup" /\ q.kind = q0.kind
        /\ q.seen = q0.seen
    BY <1>q DEF QueryState
  <2>2. Put(t, q) /\ q0.pc = "screen" /\ ~ShieldDenies /\ UNCHANGED neg
    BY <1>4 DEF Screen
  <2> HIDE DEF q
  <2>3. Sound(q, Climate, Stands)
    BY <1>q, <2>1, <2>2, ClimateSays DEF Sound
  <2> QED
    BY <1>p, <1>u, <2>1, <2>2, <2>3, MovesOn
<1>5. CASE SafeBrowsing(t)
  <2> DEFINE q == [q0 EXCEPT !.pc = "condemn", !.cause = "threat"]
  <2>1. q \in QueryState /\ q.pc = "condemn" /\ q.cause = "threat" /\ q.kind = q0.kind
        /\ q.seen = q0.seen /\ q.bypassed = q0.bypassed
    BY <1>q DEF QueryState, Causes
  <2>2. Put(t, q) /\ q0.pc = "lookup" /\ UNCHANGED neg
    BY <1>5 DEF SafeBrowsing, Condemn
  <2> HIDE DEF q
  <2>3. Sound(q, Climate, Stands)
    BY <1>q, <2>1, <2>2 DEF Sound
  <2> QED
    BY <1>p, <1>u, <2>1, <2>2, <2>3, MovesOn
<1> QED
  BY <1>1, <1>2, <1>3, <1>4, <1>5

LEMMA LooksUp ==
    ASSUME Inv, NEW t \in Task,
           Intercept(t) \/ Hit(t) \/ JsonHit(t) \/ StaleHit(t) \/ Miss(t)
    PROVE  Inv'
<1> DEFINE q0 == task[t]
<1>q. /\ q0 \in QueryState /\ Sound(q0, Climate, Stands)
      /\ q0.seen \in SUBSET Climates /\ q0.late \in BOOLEAN
  BY QueryTyped
<1>u. /\ UNCHANGED admin /\ UNCHANGED neg /\ q0.pc = "lookup"
      /\ pos' = NoEntry \/ pos' \in [reply : Reply, age : {"fresh", "stale"}]
  BY PosTyped DEF Intercept, Hit, JsonHit, StaleHit, Miss
<1>c. q0.kind \in {"wire", "json"} /\ {"passes", "unshielded"} \subseteq q0.seen
  BY <1>q, <1>u DEF Sound
<1>1. CASE Intercept(t)
  <2> DEFINE q == [q0 EXCEPT !.pc = "condemn", !.cause = "threat"]
  <2>1. q \in QueryState /\ q.pc = "condemn" /\ q.cause = "threat" /\ q.kind = q0.kind
        /\ q.seen = q0.seen /\ q.bypassed = q0.bypassed
    BY <1>q DEF QueryState, Causes
  <2>2. Put(t, q)
    BY <1>1 DEF Intercept, Condemn
  <2> HIDE DEF q
  <2>3. Sound(q, Climate, Stands)
    BY <1>q, <1>u, <2>1 DEF Sound
  <2> QED
    BY <1>u, <2>1, <2>2, <2>3, MovesOn
<1>2. CASE Hit(t) \/ JsonHit(t)
  <2>1. pos.reply \in Reply /\ ~Rebinds(t, pos.reply) /\ Answered(t, pos.reply)
    BY <1>2 DEF Hit, JsonHit, Intercepted, Inv, AnswersTypeOK
  <2>2. pos.reply = "private" => RebindOk \/ "lenient" \in q0.seen
    BY <1>c, <2>1, NotIntercepted
  <2> QED
    BY <1>u, <1>c, <2>1, <2>2, Gives
<1>3. CASE StaleHit(t)
  <2>1. pos.reply \in Reply /\ ~Rebinds(t, pos.reply) /\ Tell(t, pos.reply, None, FALSE)
    BY <1>3 DEF StaleHit, Intercepted, Inv, AnswersTypeOK
  <2>2. pos.reply = "private" => RebindOk \/ "lenient" \in q0.seen
    BY <1>c, <2>1, NotIntercepted
  <2>3. told' = [out |-> pos.reply, cause |-> None, late |-> FALSE, seen |-> q0.seen]
    BY <2>1 DEF Tell
  <2>4. told' \in [out : Reply \cup {None, "denied", "fail"}, cause : Causes,
                   late : BOOLEAN, seen : SUBSET Climates]
    BY <1>q, <2>1, <2>3 DEF Causes
  <2>5. told'.out = pos.reply /\ told'.seen = q0.seen
    BY <2>3
  <2>6. AnswersMatchPolicy'
    BY <1>c, <2>1, <2>2, <2>5 DEF AnswersMatchPolicy, Reply
  <2> DEFINE q == [Idle EXCEPT !.kind = "swr", !.pc = "resolve", !.late = q0.late]
  <2>7. q \in QueryState /\ q.kind = "swr" /\ q.pc = "resolve" /\ task' = [task EXCEPT ![t] = q]
    BY <1>q, <1>3 DEF StaleHit, Idle, QueryState, Causes, None
  <2> HIDE DEF q
  <2>8. Sound(q, Climate, Stands)
    BY <2>7 DEF Sound
  <2>9. NegativeStands'
    BY <1>u, Same DEF Inv, NegativeStands
  <2>10. neg' = NoEntry
         \/ neg' \in [cause : Causes \ {None}, age : {"young", "old"}, late : BOOLEAN]
    BY <1>u DEF Inv, AnswersTypeOK
  <2> QED
    BY <1>u, <2>4, <2>6, <2>7, <2>8, <2>9, <2>10, OneQueryMoves
<1>4. CASE Miss(t)
  <2> DEFINE q == [q0 EXCEPT !.pc = "resolve"]
  <2>1. q \in QueryState /\ q.pc = "resolve" /\ q.kind = q0.kind
        /\ q.seen = q0.seen /\ q.bypassed = q0.bypassed
    BY <1>q DEF QueryState
  <2>2. Put(t, q)
    BY <1>4 DEF Miss
  <2> HIDE DEF q
  <2>3. Sound(q, Climate, Stands)
    BY <1>q, <1>c, <2>1 DEF Sound
  <2> QED
    BY <1>u, <2>1, <2>2, <2>3, MovesOn
<1> QED
  BY <1>1, <1>2, <1>3, <1>4

LEMMA Resolves ==
    ASSUME Inv, NEW t \in Task,
           \/ ResolveFails(t) \/ RefuseQuestion(t) \/ RefuseBogus(t)
           \/ RejectFlux(t) \/ RejectPrivate(t) \/ AcceptReply(t)
    PROVE  Inv'
<1> DEFINE q0 == task[t]
<1>q. /\ q0 \in QueryState /\ Sound(q0, Climate, Stands)
      /\ q0.seen \in SUBSET Climates /\ q0.late \in BOOLEAN /\ q0.bypassed \in BOOLEAN
  BY QueryTyped
<1>u. /\ UNCHANGED admin /\ UNCHANGED pos /\ q0.pc = "resolve"
      /\ pos' = NoEntry \/ pos' \in [reply : Reply, age : {"fresh", "stale"}]
  BY PosTyped DEF ResolveFails, RefuseQuestion, RefuseBogus, RejectFlux, RejectPrivate, AcceptReply
\* Only an NXDOMAIN is noted.
<1>n. \/ neg' = neg
      \/ neg' = [cause |-> "nx", age |-> "young", late |-> q0.late]
  BY DEF ResolveFails, RefuseQuestion, RefuseBogus, RejectFlux, RejectPrivate, AcceptReply,
         InsertNegative
<1>m. \/ neg' \in {neg, NoEntry}
      \/ neg' \in [cause : {"nx", "threat"}, age : {"young", "old"}, late : BOOLEAN]
  BY <1>q, <1>n
<1>1. CASE ResolveFails(t) \/ RefuseQuestion(t) \/ RefuseBogus(t)
  <2>1. /\ task' = [task EXCEPT ![t] = Idle]
        /\ \/ told' = Silence
           \/ told' = [out |-> "fail", cause |-> None, late |-> FALSE, seen |-> q0.seen]
    BY <1>1 DEF ResolveFails, RefuseQuestion, RefuseBogus, Answered, Tell, Ended
  <2>2. /\ told' \in [out : Reply \cup {None, "denied", "fail"}, cause : Causes,
                      late : BOOLEAN, seen : SUBSET Climates]
        /\ AnswersMatchPolicy'
    <3>1. CASE told' = Silence
      BY <3>1 DEF Silence, Causes, None, AnswersMatchPolicy, Reply
    <3>2. CASE told' = [out |-> "fail", cause |-> None, late |-> FALSE, seen |-> q0.seen]
      <4>1. told' \in [out : Reply \cup {None, "denied", "fail"}, cause : Causes,
                       late : BOOLEAN, seen : SUBSET Climates]
        BY <1>q, <3>2 DEF Causes
      <4>2. told'.out = "fail"
        BY <3>2
      <4> QED
        BY <4>1, <4>2 DEF AnswersMatchPolicy, Reply
    <3> QED
      BY <2>1, <3>1, <3>2
  <2>3. neg' = NoEntry
        \/ neg' \in [cause : Causes \ {None}, age : {"young", "old"}, late : BOOLEAN]
    BY <1>q, <1>n DEF Inv, AnswersTypeOK, Causes, None
  <2>4. NegativeStands'
    BY <1>n, <1>u, Same DEF Inv, NegativeStands
  <2> QED
    BY <1>u, <2>1, <2>2, <2>3, <2>4, IdleSound, OneQueryMoves
<1>2. CASE RejectFlux(t) \/ RejectPrivate(t)
  <2> DEFINE q == [q0 EXCEPT !.pc = "condemn", !.cause = "threat"]
  <2>1. q \in QueryState /\ q.pc = "condemn" /\ q.cause = "threat" /\ q.kind = q0.kind
        /\ q.seen = q0.seen /\ q.bypassed = q0.bypassed
    BY <1>q DEF QueryState, Causes
  <2>2. Put(t, q)
    BY <1>2 DEF RejectFlux, RejectPrivate, Condemn
  <2> HIDE DEF q
  <2>3. Sound(q, Climate, Stands)
    BY <1>q, <1>u, <2>1 DEF Sound
  <2> QED
    BY <1>u, <1>m, <2>1, <2>2, <2>3, MovesOn
<1>3. CASE AcceptReply(t)
  <2>1. PICK reply \in Reply :
           /\ q0.kind = "prefetch" \/ ~RebindsNow(t, reply)
           /\ Put(t, [q0 EXCEPT !.pc = "store", !.reply = reply, !.bypassed = Allowed(t)])
    BY <1>3 DEF AcceptReply
  <2> DEFINE q == [q0 EXCEPT !.pc = "store", !.reply = reply, !.bypassed = Allowed(t)]
  <2>2. Allowed(t) \in BOOLEAN /\ (q0.kind # "swr" => Allowed(t) = q0.bypassed)
    BY <1>q DEF Allowed
  <2>3. q \in QueryState /\ q.pc = "store" /\ q.reply = reply /\ q.kind = q0.kind
        /\ q.seen = q0.seen /\ q.bypassed = Allowed(t)
    BY <1>q, <2>2 DEF QueryState
  <2> HIDE DEF q
  <2>4. q0.kind \in {"wire", "json"} /\ reply = "private" => RebindOk \/ "lenient" \in q0.seen
    BY <1>q, <2>1, <2>2, ClimateSays DEF RebindsNow, Sound
  <2>5. Sound(q, Climate, Stands)
    BY <1>q, <1>u, <2>2, <2>3, <2>4 DEF Sound
  <2>6. Put(t, q)
    BY <2>1 DEF q
  <2> QED
    BY <1>u, <1>m, <2>3, <2>5, <2>6, MovesOn
<1> QED
  BY <1>1, <1>2, <1>3

LEMMA Stores ==
    ASSUME Inv, NEW t \in Task, Store(t) \/ StoreJson(t) \/ StoreBackground(t)
    PROVE  Inv'
<1> DEFINE q0 == task[t]
<1>q. /\ q0 \in QueryState /\ Sound(q0, Climate, Stands)
      /\ q0.seen \in SUBSET Climates /\ q0.late \in BOOLEAN /\ q0.bypassed \in BOOLEAN
  BY QueryTyped
<1>u. /\ UNCHANGED admin /\ neg' \in {neg, NoEntry} /\ q0.pc = "store" /\ q0.reply \in Reply
      /\ pos' = NoEntry \/ pos' \in [reply : Reply, age : {"fresh", "stale"}]
  <2>1. UNCHANGED admin /\ neg' \in {neg, NoEntry} /\ q0.pc = "store"
    BY DEF Store, StoreJson, StoreBackground
  <2>2. q0.reply \in Reply
    BY <1>q, <2>1 DEF Sound
  <2>3. UNCHANGED pos \/ \E allowed \in BOOLEAN : InsertAllowed(q0.reply, allowed)
    BY <1>q DEF Store, StoreJson, StoreBackground
  <2> QED
    BY <2>1, <2>2, <2>3, PosTyped
<1>1. CASE Store(t) \/ StoreJson(t)
  <2>1. q0.kind \in {"wire", "json"} /\ Answered(t, q0.reply)
    BY <1>1 DEF Store, StoreJson
  <2>2. /\ {"passes", "unshielded"} \subseteq q0.seen
        /\ q0.reply = "private" => RebindOk \/ "lenient" \in q0.seen
    BY <1>q, <1>u, <2>1 DEF Sound
  <2> QED
    BY <1>u, <2>1, <2>2, Gives
<1>2. CASE StoreBackground(t)
  <2>1. task' = [task EXCEPT ![t] = Idle] /\ told' = Silence
    BY <1>2 DEF StoreBackground, Ended
  <2>2. /\ told' \in [out : Reply \cup {None, "denied", "fail"}, cause : Causes,
                      late : BOOLEAN, seen : SUBSET Climates]
        /\ AnswersMatchPolicy'
    BY <2>1 DEF Silence, Causes, None, AnswersMatchPolicy, Reply
  <2> QED
    BY <1>u, <2>1, <2>2, QueryEnds
<1> QED
  BY <1>1, <1>2

-----------------------------------------------------------------------------
(* The administrator and time.                                             *)

\* Nobody is told anything.
LEMMA Silent ==
    told' = Silence => /\ told' \in [out : Reply \cup {None, "denied", "fail"}, cause : Causes,
                                     late : BOOLEAN, seen : SUBSET Climates]
                       /\ AnswersMatchPolicy'
BY DEF Silence, Causes, None, AnswersMatchPolicy, Reply

\* A setting changes, and what stood stands, or is to be flushed.
LEMMA SettingStep ==
    ASSUME Inv, SetBlocking \/ SetRule \/ SetShield
    PROVE  Inv'
<1>1. /\ blocking' \in BOOLEAN /\ rule' \in Rules /\ shield' \in BOOLEAN /\ owed' \in BOOLEAN
      /\ changes' \in 0 .. MaxChanges
      /\ UNCHANGED <<pos, neg>> /\ Watch
  <2>1. changes \in 0 .. MaxChanges /\ changes < MaxChanges /\ changes' = changes + 1
    BY DEF SetBlocking, SetRule, SetShield, MayChange, Inv, AnswersTypeOK
  <2>2. changes' \in 0 .. MaxChanges
    BY <2>1, AnswersAssumption
  <2>3. /\ blocking' \in BOOLEAN /\ rule' \in Rules /\ shield' \in BOOLEAN
        /\ owed' \in BOOLEAN
    BY DEF SetBlocking, SetRule, SetShield, MayChange, Inv, AnswersTypeOK
  <2> QED
    BY <2>2, <2>3 DEF SetBlocking, SetRule, SetShield
<1>2. Stands => Stands'
  BY DEF SetBlocking, SetRule, SetShield, MayChange, Stands, Inv, AnswersTypeOK
<1>3. Climate' \in SUBSET Climates
  BY DEF Climate, Climates
<1>4. task \in [Task -> QueryState]
  BY DEF Inv, AnswersTypeOK, QueryState
<1>5. ASSUME NEW t \in Task
      PROVE  task'[t] \in QueryState /\ Sound(task'[t], Climate', Stands')
  <2>q. task[t] \in QueryState /\ Sound(task[t], Climate, Stands)
    BY QueryTyped
  <2>1. CASE task[t].kind \in {"idle", "swr", "prefetch"}
    <3>1. task'[t] = task[t]
      BY <1>1, <2>1 DEF Watch, Free, Background
    <3> QED
      BY <1>2, <2>q, <2>1, <3>1 DEF Sound
  <2>2. CASE task[t].kind \in {"wire", "json"}
    <3> DEFINE q == [task[t] EXCEPT !.seen = @ \cup Climate']
    <3>1. task'[t] = q
      BY <1>1, <2>2 DEF Watch, Free, Background
    <3>2. /\ q \in QueryState /\ q.kind = task[t].kind /\ q.pc = task[t].pc
          /\ q.bypassed = task[t].bypassed /\ q.reply = task[t].reply
          /\ q.cause = task[t].cause /\ q.late = task[t].late
          /\ q.seen = task[t].seen \cup Climate'
      BY <1>3, <2>q DEF QueryState
    <3> HIDE DEF q
    <3>3. Sound(q, Climate', Stands')
      BY <1>2, <2>q, <3>2 DEF Sound
    <3> QED
      BY <3>1, <3>2, <3>3
  <2> QED
    BY <2>q, <2>1, <2>2 DEF QueryState
<1>6. task' \in [Task -> QueryState]
  BY <1>1, <1>5 DEF Watch
<1>7. AnswersTypeOK'
  BY <1>1, <1>6, Silent DEF Inv, AnswersTypeOK, QueryState, Watch
<1>8. NegativeStands'
  BY <1>1, <1>2 DEF Inv, NegativeStands
<1> QED
  BY <1>1, <1>5, <1>7, <1>8, Silent DEF Inv, Watch

LEMMA FlushStep ==
    ASSUME Inv, Flush
    PROVE  Inv'
<1>1. /\ owed = TRUE /\ owed' = FALSE /\ UNCHANGED <<blocking, rule, shield, changes>>
      /\ pos' = NoEntry /\ neg' = NoEntry /\ told' = Silence
  BY DEF Flush, Cleared, Inv, AnswersTypeOK
<1>2. Climate' \subseteq Climate
  BY <1>1 DEF Climate, PolicyDenies, ShieldDenies
<1>4. task \in [Task -> QueryState]
  BY DEF Inv, AnswersTypeOK, QueryState
<1>5. ASSUME NEW t \in Task
      PROVE  task'[t] \in QueryState /\ Sound(task'[t], Climate', Stands')
  <2>q. task[t] \in QueryState /\ Sound(task[t], Climate, Stands)
    BY QueryTyped
  <2>1. CASE task[t].kind = "idle"
    <3>1. task'[t] = task[t]
      BY <2>1 DEF Flush, Free
    <3> QED
      BY <2>q, <2>1, <3>1 DEF Sound
  <2>2. CASE task[t].kind # "idle"
    <3> DEFINE q == [task[t] EXCEPT !.late = TRUE]
    <3>1. task'[t] = q
      BY <2>2 DEF Flush, Free
    <3>2. /\ q \in QueryState /\ q.kind = task[t].kind /\ q.pc = task[t].pc
          /\ q.bypassed = task[t].bypassed /\ q.reply = task[t].reply
          /\ q.cause = task[t].cause /\ q.late = TRUE /\ q.seen = task[t].seen
      BY <2>q DEF QueryState
    <3> HIDE DEF q
    <3>3. Sound(q, Climate', Stands')
      BY <1>2, <2>q, <3>2 DEF Sound
    <3> QED
      BY <3>1, <3>2, <3>3
  <2> QED
    BY <2>1, <2>2
<1>6. task' \in [Task -> QueryState]
  BY <1>5 DEF Flush
<1>7. AnswersTypeOK'
  BY <1>1, <1>6, Silent DEF Inv, AnswersTypeOK, QueryState
<1>8. NegativeStands'
  BY <1>1 DEF NegativeStands
<1> QED
  BY <1>1, <1>5, <1>7, <1>8, Silent DEF Inv

LEMMA TimeStep ==
    ASSUME Inv, Shed \/ AgePositive \/ AgeNegative
    PROVE  Inv'
<1>1. /\ UNCHANGED admin /\ UNCHANGED task /\ told' = Silence
      /\ pos' = NoEntry \/ pos' \in [reply : Reply, age : {"fresh", "stale"}]
      /\ neg' = NoEntry
         \/ neg' \in [cause : Causes \ {None}, age : {"young", "old"}, late : BOOLEAN]
  BY DEF Shed, AgePositive, AgeNegative, Inv, AnswersTypeOK
<1>2. neg' # NoEntry => neg'.cause = neg.cause /\ neg'.late = neg.late /\ neg # NoEntry
  BY DEF Shed, AgePositive, AgeNegative, Inv, AnswersTypeOK
<1>3. NegativeStands'
  BY <1>1, <1>2, Same DEF Inv, NegativeStands
<1>4. AnswersTypeOK'
  BY <1>1, Silent DEF Inv, AnswersTypeOK, admin
<1> QED
  BY <1>1, <1>3, <1>4, Same, Silent DEF Inv

LEMMA InvStep == Inv /\ [AnswersNext]_answersVars => Inv'
<1> SUFFICES ASSUME Inv, [AnswersNext]_answersVars PROVE Inv'
  OBVIOUS
<1>1. CASE UNCHANGED answersVars
  <2>1. UNCHANGED admin /\ UNCHANGED <<pos, neg, task, told>>
    BY <1>1 DEF answersVars, admin
  <2>2. AnswersTypeOK'
    BY <2>1 DEF Inv, AnswersTypeOK, admin
  <2>3. NegativeStands' /\ AnswersMatchPolicy'
    BY <2>1, Same DEF Inv, NegativeStands, AnswersMatchPolicy
  <2> QED
    BY <2>1, <2>2, <2>3, Same DEF Inv
<1>2. CASE AnswersNext
  BY <1>2, Arrives, Screens, LooksUp, Resolves, Stores, SettingStep, FlushStep, TimeStep
     DEF AnswersNext, Step
<1> QED
  BY <1>1, <1>2

(***************************************************************************)
(* For any number of queries and background lookups in flight and any      *)
(* changes by an administrator: every variable stays of its type.          *)
(***************************************************************************)
THEOREM AnswersTyped == AnswersSpec => []AnswersTypeOK
<1>1. Inv => AnswersTypeOK
  BY DEF Inv
<1> QED
  BY <1>1, InitSound, InvStep, PTL DEF AnswersSpec

(***************************************************************************)
(* And what a client is told follows from settings that held at some       *)
(* moment of its query: an address only if the policy passed the name and  *)
(* the shield did not hold it, a private one only if the name or the       *)
(* switch allowed it, a denial by rule or shield only if they said so,     *)
(* unless it was stored by a query that a flush had overtaken              *)
(* (process_dns_wire_packet_full and doh_json_handler against              *)
(* flush_all_caches).                                                      *)
(***************************************************************************)
THEOREM AnswersFollowPolicy == AnswersSpec => []AnswersMatchPolicy
<1>1. Inv => AnswersMatchPolicy
  BY DEF Inv
<1> QED
  BY <1>1, InitSound, InvStep, PTL DEF AnswersSpec
=============================================================================
