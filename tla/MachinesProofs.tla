--------------------------- MODULE MachinesProofs ---------------------------
(***************************************************************************)
(* Proofs about the machines of a deployment: certificates and addresses.  *)
(***************************************************************************)
EXTENDS MCMachines, TLAPS

---------------------------------------------------------------------------
(* Certificates.                                                           *)

Place == {"rest", "check", "sync", "again", "wait", "lock", "ask", "account", "order", "prove",
          "final", "cert", "key", "load", "clear", "release", "unlock", "off"}

FilesTyped ==
    disk \in [Machine -> Pair] /\ mirror \in [Machine -> Pair] /\ live \in [Machine -> Pair]
HandsTyped == hand \in [Task -> Pair]
PlacesTyped == pc \in [Task -> Place]
OrderTyped ==
    /\ lock \in [Machine -> Machine \cup {0}] /\ txt \in Machine \cup {0}
    /\ asking \in [Machine -> SUBSET Machine] /\ ca \in [Machine -> 0..CAs]
WorldTyped ==
    /\ made \in [Certificate -> [names : 0..2, fresh : BOOLEAN]]
    /\ names \in [Machine -> 1..2] /\ replica \subseteq Remote
FaultsTyped == faults \in 0..MaxFaults

LEMMA TypeParts ==
    TypeOK <=> FilesTyped /\ HandsTyped /\ PlacesTyped /\ OrderTyped /\ WorldTyped /\ FaultsTyped
BY DEF TypeOK, FilesTyped, HandsTyped, PlacesTyped, OrderTyped, WorldTyped, FaultsTyped, Place

LEMMA AllTyped ==
    ASSUME FilesTyped', HandsTyped', PlacesTyped', OrderTyped', WorldTyped', FaultsTyped'
    PROVE  TypeOK'
BY DEF TypeOK, FilesTyped, HandsTyped, PlacesTyped, OrderTyped, WorldTyped, FaultsTyped, Place

LEMMA PairFacts ==
    /\ Nothing \in Pair
    /\ \A p \in Pair : p.cert \in Certificate \cup {0} /\ p.key \in Certificate \cup {0}
    /\ \A n \in Certificate : [cert |-> n, key |-> n] \in Pair
    /\ \A p, q \in Pair : /\ [p EXCEPT !["cert"] = q["cert"]] \in Pair
                          /\ [p EXCEPT !["key"] = q["key"]] \in Pair
BY DEF Nothing, Pair

LEMMA TaskFacts ==
    /\ \A m \in Machine : Sup(m) \in Task /\ Sup(m)[1] = m /\ Sup(m)[2] = "sup"
    /\ \A t \in Task : t[1] \in Machine
<1>1. \A m \in Machine : Sup(m) \in Task /\ Sup(m)[1] = m /\ Sup(m)[2] = "sup"
  BY DEF Task, Sup
<1>2. ASSUME NEW t \in Task PROVE t[1] \in Machine
  BY CertsAssumption DEF Task
<1> QED
  BY <1>1, <1>2

\* What a machine loads, or serves to others, is a pair.
LEMMA EffectiveTyped ==
    ASSUME FilesTyped, NEW m \in Machine
    PROVE  Effective(m) \in Pair /\ Loaded(m) \in Pair
BY PairFacts DEF FilesTyped, Effective, Loaded

LEMMA GotoTyped ==
    ASSUME PlacesTyped, NEW t, NEW at \in Place, Goto(t, at)
    PROVE  PlacesTyped'
BY DEF PlacesTyped, Goto

LEMMA FaultTyped == FaultsTyped /\ (Fault \/ UNCHANGED faults) => FaultsTyped'
BY CertsAssumption DEF FaultsTyped, Fault

LEMMA FailurePlaces == \A t \in Task : AfterFailure(t) \in Place
BY DEF AfterFailure, Place

LEMMA CertsStart == Init => TypeOK
<1> SUFFICES ASSUME Init PROVE TypeOK
  OBVIOUS
<1>1. FilesTyped
  <2>1. \A k \in Certificate : [cert |-> k, key |-> k] \in Pair
    BY PairFacts
  <2>2. {Nothing} \cup {[cert |-> n, key |-> n] : n \in {k \in Certificate : made[k] # Unmade}}
           \subseteq Pair
    BY <2>1, PairFacts
  <2>3. disk \in [Machine -> Pair]
    BY <2>2 DEF Init
  <2> QED
    BY <2>3, PairFacts DEF Init, FilesTyped
<1>2. HandsTyped
  BY PairFacts DEF Init, HandsTyped
<1>3. PlacesTyped
  BY DEF Init, PlacesTyped, Place
<1>4. OrderTyped
  BY CertsAssumption DEF Init, OrderTyped
<1>5. WorldTyped
  <2>1. {Unmade, [names |-> 1, fresh |-> TRUE], [names |-> 1, fresh |-> FALSE]}
           \subseteq [names : 0..2, fresh : BOOLEAN]
    BY DEF Unmade
  <2>2. made \in [Certificate -> [names : 0..2, fresh : BOOLEAN]]
    BY <2>1 DEF Init
  <2> QED
    BY <2>2 DEF Init, WorldTyped
<1>6. FaultsTyped
  BY CertsAssumption DEF Init, FaultsTyped
<1> QED
  BY <1>1, <1>2, <1>3, <1>4, <1>5, <1>6, TypeParts

LEMMA WriteTyped ==
    ASSUME FilesTyped, HandsTyped, PlacesTyped, NEW t \in Task, WriteCert(t) \/ WriteKey(t)
    PROVE  FilesTyped' /\ PlacesTyped'
<1>1. t[1] \in Machine /\ hand[t] \in Pair
  BY TaskFacts DEF HandsTyped
<1>2. disk[t[1]] \in Pair
  BY <1>1 DEF FilesTyped
<1> DEFINE certified == [disk[t[1]] EXCEPT !["cert"] = hand[t]["cert"]]
           keyed == [disk[t[1]] EXCEPT !["key"] = hand[t]["key"]]
<1>3. certified \in Pair /\ keyed \in Pair
  BY <1>1, <1>2, PairFacts
<1>4. CASE WriteCert(t)
  <2>1. disk' = [disk EXCEPT ![t[1]] = certified] /\ Goto(t, "key") /\ UNCHANGED <<mirror, live>>
    BY <1>4 DEF WriteCert, WriteFile
  <2> HIDE DEF certified
  <2> QED
    BY <2>1, <1>1, <1>3, GotoTyped DEF FilesTyped, Place
<1>5. CASE WriteKey(t)
  <2>1. disk' = [disk EXCEPT ![t[1]] = keyed] /\ Goto(t, "load") /\ UNCHANGED <<mirror, live>>
    BY <1>5 DEF WriteKey, WriteFile
  <2> HIDE DEF keyed
  <2> QED
    BY <2>1, <1>1, <1>3, GotoTyped DEF FilesTyped, Place
<1> QED
  BY <1>4, <1>5

LEMMA GiveUpTyped ==
    ASSUME PlacesTyped, OrderTyped, NEW m \in Machine, GiveUp(m)
    PROVE  PlacesTyped' /\ ca' \in [Machine -> 0..CAs]
<1>1. CASE ca[m] < 2 /\ CAs = 2
  <2>1. Goto(Sup(m), "account") /\ ca' = [ca EXCEPT ![m] = 2]
    BY <1>1 DEF GiveUp
  <2> QED
    BY <2>1, <1>1, GotoTyped DEF OrderTyped, Place
<1>2. CASE ~(ca[m] < 2 /\ CAs = 2)
  <2>1. Goto(Sup(m), "release") /\ ca' = ca
    BY <1>2 DEF GiveUp
  <2> QED
    BY <2>1, GotoTyped DEF OrderTyped, Place
<1> QED
  BY <1>1, <1>2

LEMMA TaskTyped ==
    ASSUME TypeOK, NEW t \in Task, TaskStep(t)
    PROVE  TypeOK'
<1>t. FilesTyped /\ HandsTyped /\ PlacesTyped /\ OrderTyped /\ WorldTyped /\ FaultsTyped
  BY TypeParts
<1>m. t[1] \in Machine
  BY TaskFacts
<1>w. ASSUME UNCHANGED world PROVE WorldTyped'
  BY <1>t, <1>w DEF world, WorldTyped
<1>1. CASE SyncFails(t)
  <2>1. UNCHANGED <<files, hand, order, world>> /\ Goto(t, AfterFailure(t))
        /\ (Fault \/ UNCHANGED faults)
    BY <1>1 DEF SyncFails
  <2>2. FilesTyped' /\ HandsTyped' /\ OrderTyped'
    BY <1>t, <2>1 DEF files, order, FilesTyped, HandsTyped, OrderTyped
  <2>3. PlacesTyped'
    BY <1>t, <2>1, FailurePlaces, GotoTyped
  <2> QED
    BY <1>t, <1>w, <2>1, <2>2, <2>3, FaultTyped, AllTyped
<1>2. CASE WriteCert(t) \/ WriteKey(t)
  <2>1. UNCHANGED <<hand, order, world, faults>>
    BY <1>2 DEF WriteCert, WriteKey, WriteFile
  <2>2. HandsTyped' /\ OrderTyped' /\ FaultsTyped'
    BY <1>t, <2>1 DEF order, HandsTyped, OrderTyped, FaultsTyped
  <2> QED
    BY <1>t, <1>w, <1>2, <2>1, <2>2, WriteTyped, AllTyped
<1>3. CASE WriteFails(t)
  <2>1. UNCHANGED <<files, lock, txt, asking, world>> /\ Fault
    BY <1>3 DEF WriteFails
  <2>2. FilesTyped'
    BY <1>t, <2>1 DEF files, FilesTyped
  <2>3. HandsTyped' /\ PlacesTyped' /\ ca' \in [Machine -> 0..CAs]
    <3>1. CASE GiveUp(t[1]) /\ hand' = [hand EXCEPT ![t] = Nothing]
      BY <1>t, <1>m, <3>1, GiveUpTyped, PairFacts DEF HandsTyped
    <3>2. CASE Goto(t, IF pc[t] = "cert" THEN "key" ELSE "load") /\ UNCHANGED <<ca, hand>>
      <4>1. (IF pc[t] = "cert" THEN "key" ELSE "load") \in Place
        BY DEF Place
      <4>2. PlacesTyped'
        BY <1>t, <3>2, <4>1, GotoTyped
      <4> QED
        BY <1>t, <3>2, <4>2 DEF HandsTyped, OrderTyped
    <3> QED
      BY <1>3, <3>1, <3>2 DEF WriteFails
  <2>4. OrderTyped'
    BY <1>t, <2>1, <2>3 DEF OrderTyped
  <2> QED
    BY <1>t, <1>w, <2>1, <2>2, <2>3, <2>4, FaultTyped, AllTyped
<1>4. CASE Load(t)
  <2>1. /\ mirror' = [mirror EXCEPT ![t[1]] = hand[t]]
        /\ live' = [live EXCEPT ![t[1]] = Loaded(t[1])]
        /\ hand' = [hand EXCEPT ![t] = Nothing]
        /\ UNCHANGED <<disk, order, world, faults>>
    BY <1>4 DEF Load
  <2>2. hand[t] \in Pair /\ Loaded(t[1]) \in Pair
    BY <1>t, <1>m, EffectiveTyped DEF HandsTyped
  <2>3. FilesTyped' /\ HandsTyped'
    BY <1>t, <2>1, <2>2, PairFacts DEF FilesTyped, HandsTyped
  <2>4. OrderTyped' /\ FaultsTyped'
    BY <1>t, <2>1 DEF order, OrderTyped, FaultsTyped
  <2>5. (IF t[2] = "poll" THEN "off" ELSE IF ca[t[1]] > 0 THEN "clear" ELSE "rest") \in Place
    BY DEF Place
  <2>6. PlacesTyped'
    BY <1>t, <1>4, <2>5, GotoTyped DEF Load
  <2> QED
    BY <1>w, <2>1, <2>3, <2>4, <2>6, AllTyped
<1>5. ASSUME NEW p \in Machine, SyncFrom(t, p) PROVE TypeOK'
  <2>1. /\ hand' = [hand EXCEPT ![t] = Effective(p)] /\ Goto(t, "cert")
        /\ UNCHANGED <<files, order, world, faults>>
    BY <1>5 DEF SyncFrom
  <2>2. HandsTyped'
    BY <1>t, <2>1, EffectiveTyped DEF HandsTyped
  <2>3. FilesTyped' /\ OrderTyped' /\ FaultsTyped'
    BY <1>t, <2>1 DEF files, order, FilesTyped, OrderTyped, FaultsTyped
  <2>4. PlacesTyped'
    BY <1>t, <2>1, GotoTyped DEF Place
  <2> QED
    BY <1>w, <2>1, <2>2, <2>3, <2>4, AllTyped
<1> QED
  BY <1>1, <1>2, <1>3, <1>4, <1>5 DEF TaskStep

\* A step of the supervisor that changes its place only, or a file and its place.
LEMMA SupTyped ==
    ASSUME TypeOK, NEW m \in Machine,
           \/ Wake(m) \/ CheckFinds(m) \/ CheckRestores(m) \/ CheckMisses(m)
           \/ Begin(m) \/ Unlocked(m) \/ Prove(m)
    PROVE  TypeOK'
<1>t. FilesTyped /\ HandsTyped /\ PlacesTyped /\ OrderTyped /\ WorldTyped /\ FaultsTyped
  BY TypeParts
<1>1. UNCHANGED <<disk, mirror, order, world, faults>>
  BY DEF Wake, CheckFinds, CheckRestores, CheckMisses, Begin, Unlocked, Prove, files
<1>2. OrderTyped' /\ WorldTyped' /\ FaultsTyped'
  BY <1>t, <1>1 DEF order, world, OrderTyped, WorldTyped, FaultsTyped
<1>3. \E at \in Place : Goto(Sup(m), at)
  BY DEF Wake, CheckFinds, CheckRestores, CheckMisses, Begin, Unlocked, Prove, Place
<1>4. PlacesTyped'
  BY <1>t, <1>3, GotoTyped
<1>5. live' = live \/ live' = [live EXCEPT ![m] = Loaded(m)]
  BY DEF Wake, CheckFinds, CheckRestores, CheckMisses, Begin, Unlocked, Prove, files
<1>6. FilesTyped'
  BY <1>t, <1>1, <1>5, EffectiveTyped DEF FilesTyped
<1>7. hand' = hand \/ hand' = [hand EXCEPT ![Sup(m)] = mirror[m]]
  BY DEF Wake, CheckFinds, CheckRestores, CheckMisses, Begin, Unlocked, Prove
<1>8. HandsTyped'
  BY <1>t, <1>7 DEF HandsTyped, FilesTyped
<1> QED
  BY <1>2, <1>4, <1>6, <1>8, AllTyped

\* The cluster lock and the order's own variables.
LEMMA OrderStepTyped ==
    ASSUME TypeOK, NEW m \in Machine,
           \/ TakeLocal(m) \/ Release(m) \/ Register(m) \/ Publish(m) \/ ClearTxt(m)
           \/ OrderFails(m)
           \/ \E p \in Machine : Ask(m, p) \/ CallLost(m, p) \/ Unlock(m, p)
    PROVE  TypeOK'
<1>t. FilesTyped /\ HandsTyped /\ PlacesTyped /\ OrderTyped /\ WorldTyped /\ FaultsTyped
  BY TypeParts
<1>1. UNCHANGED <<files, hand, world>>
  BY DEF TakeLocal, Release, Register, Publish, ClearTxt, OrderFails, Ask, CallLost, Unlock
<1>2. FilesTyped' /\ HandsTyped' /\ WorldTyped'
  BY <1>t, <1>1 DEF files, world, FilesTyped, HandsTyped, WorldTyped
<1>3. Fault \/ UNCHANGED faults
  BY DEF TakeLocal, Release, Register, Publish, ClearTxt, OrderFails, Ask, CallLost, Unlock
<1>4. FaultsTyped'
  BY <1>t, <1>3, FaultTyped
<1>g. ASSUME UNCHANGED pc \/ \E at \in Place : Goto(Sup(m), at) PROVE PlacesTyped'
  <2>1. UNCHANGED pc => PlacesTyped'
    BY <1>t DEF PlacesTyped
  <2> QED
    BY <1>t, <1>g, <2>1, GotoTyped
<1>o. /\ lock \in [Machine -> Machine \cup {0}] /\ txt \in Machine \cup {0}
      /\ asking \in [Machine -> SUBSET Machine] /\ ca \in [Machine -> 0..CAs]
  BY <1>t DEF OrderTyped
<1>5. CASE TakeLocal(m)
  <2>1. /\ lock' = lock \/ lock' = [lock EXCEPT ![m] = m]
        /\ asking' = asking \/ asking' = [asking EXCEPT ![m] = Machine \ {m}]
        /\ UNCHANGED <<txt, ca>>
        /\ Goto(Sup(m), "wait") \/ Goto(Sup(m), "ask")
    BY <1>5 DEF TakeLocal
  <2>2. OrderTyped'
    BY <1>o, <2>1 DEF OrderTyped
  <2>3. PlacesTyped'
    BY <1>g, <2>1 DEF Place
  <2> QED
    BY <1>2, <1>4, <2>2, <2>3, AllTyped
<1>6. CASE Release(m)
  <2>1. /\ lock' = lock \/ lock' = [lock EXCEPT ![m] = IF lock[m] = m THEN 0 ELSE lock[m]]
        /\ asking' = asking \/ asking' = [asking EXCEPT ![m] = Machine \ {m}]
        /\ ca' = [ca EXCEPT ![m] = 0] /\ UNCHANGED txt
        /\ Goto(Sup(m), "rest") \/ Goto(Sup(m), "unlock")
    BY <1>6 DEF Release
  <2>2. 0 \in 0..CAs
    BY CertsAssumption
  <2>3. OrderTyped'
    BY <1>o, <2>1, <2>2 DEF OrderTyped
  <2>4. PlacesTyped'
    BY <1>g, <2>1 DEF Place
  <2> QED
    BY <1>2, <1>4, <2>3, <2>4, AllTyped
<1>7. CASE Register(m)
  <2>1. /\ ca' = [ca EXCEPT ![m] = IF ca[m] = 0 THEN 1 ELSE ca[m]]
        /\ UNCHANGED <<lock, txt, asking>> /\ Goto(Sup(m), "order")
    BY <1>7 DEF Register
  <2>2. (IF ca[m] = 0 THEN 1 ELSE ca[m]) \in 0..CAs
    BY <1>o, CertsAssumption
  <2>3. OrderTyped'
    BY <1>o, <2>1, <2>2 DEF OrderTyped
  <2>4. PlacesTyped'
    BY <1>g, <2>1 DEF Place
  <2> QED
    BY <1>2, <1>4, <2>3, <2>4, AllTyped
<1>8. CASE Publish(m) \/ ClearTxt(m)
  <2>1. /\ txt' \in {0, m} /\ UNCHANGED <<lock, asking, ca>>
        /\ Goto(Sup(m), "prove") \/ Goto(Sup(m), "release")
    BY <1>8 DEF Publish, ClearTxt
  <2>2. OrderTyped'
    BY <1>o, <2>1 DEF OrderTyped
  <2>3. PlacesTyped'
    BY <1>g, <2>1 DEF Place
  <2> QED
    BY <1>2, <1>4, <2>2, <2>3, AllTyped
<1>9. CASE OrderFails(m)
  <2>1. PlacesTyped' /\ ca' \in [Machine -> 0..CAs]
    BY <1>t, <1>9, GiveUpTyped DEF OrderFails
  <2>2. OrderTyped'
    BY <1>o, <1>9, <2>1 DEF OrderFails, OrderTyped
  <2> QED
    BY <1>2, <1>4, <2>1, <2>2, AllTyped
<1>10. ASSUME NEW p \in Machine, Ask(m, p) PROVE TypeOK'
  <2>1. /\ \/ lock' = [lock EXCEPT ![p] = m]
           \/ lock' = [lock EXCEPT ![m] = IF lock[m] = m THEN 0 ELSE lock[m]]
        /\ \/ asking' = [asking EXCEPT ![m] = asking[m] \ {p}]
           \/ asking' = [asking EXCEPT ![m] = {}]
        /\ UNCHANGED <<txt, ca>>
        /\ UNCHANGED pc \/ Goto(Sup(m), "wait")
    BY <1>10 DEF Ask
  <2>2. OrderTyped'
    BY <1>o, <2>1 DEF OrderTyped
  <2>3. PlacesTyped'
    BY <1>g, <2>1 DEF Place
  <2> QED
    BY <1>2, <1>4, <2>2, <2>3, AllTyped
<1>11. ASSUME NEW p \in Machine, CallLost(m, p) \/ Unlock(m, p) PROVE TypeOK'
  <2>1. /\ lock' = lock \/ lock' = [lock EXCEPT ![p] = IF lock[p] = m THEN 0 ELSE lock[p]]
        /\ asking' = [asking EXCEPT ![m] = asking[m] \ {p}]
        /\ UNCHANGED <<txt, ca, pc>>
    BY <1>11 DEF CallLost, Unlock
  <2>2. OrderTyped'
    BY <1>o, <2>1 DEF OrderTyped
  <2>3. PlacesTyped'
    BY <1>g, <2>1
  <2> QED
    BY <1>2, <1>4, <2>2, <2>3, AllTyped
<1> QED
  BY <1>5, <1>6, <1>7, <1>8, <1>9, <1>10, <1>11

LEMMA IssueTyped ==
    ASSUME TypeOK, NEW m \in Machine, NEW n \in Certificate, Issue(m, n)
    PROVE  TypeOK'
<1>t. FilesTyped /\ HandsTyped /\ PlacesTyped /\ OrderTyped /\ WorldTyped /\ FaultsTyped
  BY TypeParts
<1>1. /\ made' = [k \in Certificate |->
                   IF k = n THEN [names |-> names[m], fresh |-> TRUE]
                   ELSE IF Held(k, m) THEN made[k] ELSE Unmade]
      /\ hand' = [hand EXCEPT ![Sup(m)] = [cert |-> n, key |-> n]]
      /\ Goto(Sup(m), "cert")
      /\ UNCHANGED <<files, order, names, replica, faults>>
  BY DEF Issue
<1>2. /\ [names |-> names[m], fresh |-> TRUE] \in [names : 0..2, fresh : BOOLEAN]
      /\ Unmade \in [names : 0..2, fresh : BOOLEAN]
  BY <1>t DEF WorldTyped, Unmade
<1>3. made' \in [Certificate -> [names : 0..2, fresh : BOOLEAN]]
  BY <1>t, <1>1, <1>2 DEF WorldTyped
<1>4. WorldTyped'
  BY <1>t, <1>1, <1>3 DEF WorldTyped
<1>5. HandsTyped'
  BY <1>t, <1>1, PairFacts DEF HandsTyped
<1>6. FilesTyped' /\ OrderTyped' /\ FaultsTyped'
  BY <1>t, <1>1 DEF files, order, FilesTyped, OrderTyped, FaultsTyped
<1>7. PlacesTyped'
  BY <1>t, <1>1, GotoTyped DEF Place
<1> QED
  BY <1>4, <1>5, <1>6, <1>7, AllTyped

LEMMA BootTyped ==
    ASSUME TypeOK, NEW m \in Machine, NEW kept \in BOOLEAN, Boot(m, kept)
    PROVE  /\ FilesTyped' /\ HandsTyped' /\ PlacesTyped' /\ OrderTyped'
           /\ made' = made /\ replica' = replica
<1>t. FilesTyped /\ HandsTyped /\ PlacesTyped /\ OrderTyped
  BY TypeParts
<1>1. /\ mirror' = [mirror EXCEPT ![m] = IF kept THEN mirror[m] ELSE Nothing]
      /\ live' = [live EXCEPT ![m] = IF Full(disk[m]) THEN disk[m]
                                     ELSE IF kept /\ Full(mirror[m]) THEN mirror[m] ELSE Nothing]
      /\ UNCHANGED disk
  BY DEF Boot
<1>2. FilesTyped'
  BY <1>t, <1>1, PairFacts DEF FilesTyped
<1>3. HandsTyped'
  BY <1>t, PairFacts DEF Boot, HandsTyped
<1>4. PlacesTyped'
  BY <1>t DEF Boot, PlacesTyped, Place
<1>5. OrderTyped'
  <2>1. 0 \in 0..CAs
    BY CertsAssumption
  <2>2. /\ lock' = [lock EXCEPT ![m] = 0] /\ asking' = [asking EXCEPT ![m] = {}]
        /\ ca' = [ca EXCEPT ![m] = 0] /\ txt' = txt
    BY DEF Boot
  <2> QED
    BY <1>t, <2>1, <2>2 DEF OrderTyped
<1> QED
  BY <1>2, <1>3, <1>4, <1>5 DEF Boot

LEMMA WorldStepTyped == ASSUME TypeOK, World PROVE TypeOK'
<1>t. FilesTyped /\ HandsTyped /\ PlacesTyped /\ OrderTyped /\ WorldTyped /\ FaultsTyped
  BY TypeParts
<1>1. ASSUME NEW m \in Machine, Lapse(m) PROVE TypeOK'
  <2>1. /\ lock' = [lock EXCEPT ![m] = 0] /\ (Fault \/ UNCHANGED faults)
        /\ UNCHANGED <<files, pc, hand, txt, asking, ca, world>>
    BY <1>1 DEF Lapse
  <2>2. OrderTyped'
    BY <1>t, <2>1 DEF OrderTyped
  <2>3. FilesTyped' /\ HandsTyped' /\ PlacesTyped' /\ WorldTyped'
    BY <1>t, <2>1 DEF files, world, FilesTyped, HandsTyped, PlacesTyped, WorldTyped
  <2> QED
    BY <1>t, <2>1, <2>2, <2>3, FaultTyped, AllTyped
<1>2. ASSUME NEW m \in Machine, Restart(m) PROVE TypeOK'
  <2>1. /\ FilesTyped' /\ HandsTyped' /\ PlacesTyped' /\ OrderTyped'
        /\ made' = made /\ replica' = replica
    BY <1>2, BootTyped DEF Restart
  <2>2. names' = names /\ Fault
    BY <1>2 DEF Restart
  <2>3. WorldTyped'
    BY <1>t, <2>1, <2>2 DEF WorldTyped
  <2> QED
    BY <1>t, <2>1, <2>2, <2>3, FaultTyped, AllTyped
<1>3. ASSUME NEW m \in Machine, AddDomain(m) PROVE TypeOK'
  <2>1. /\ FilesTyped' /\ HandsTyped' /\ PlacesTyped' /\ OrderTyped'
        /\ made' = made /\ replica' = replica
    BY <1>3, BootTyped DEF AddDomain
  <2>2. names' = [names EXCEPT ![m] = 2] /\ Fault
    BY <1>3 DEF AddDomain
  <2>3. WorldTyped'
    BY <1>t, <2>1, <2>2 DEF WorldTyped
  <2> QED
    BY <1>t, <2>1, <2>2, <2>3, FaultTyped, AllTyped
<1>4. ASSUME NEW n \in Certificate, Expire(n) PROVE TypeOK'
  <2>1. /\ made' = [made EXCEPT ![n].fresh = FALSE] /\ Fault
        /\ UNCHANGED <<files, pc, hand, order, names, replica>>
    BY <1>4 DEF Expire
  <2>2. \A c \in [names : 0..2, fresh : BOOLEAN] :
           [c EXCEPT !.fresh = FALSE] \in [names : 0..2, fresh : BOOLEAN]
    OBVIOUS
  <2>3. made' = [made EXCEPT ![n] = [made[n] EXCEPT !.fresh = FALSE]]
    BY <2>1
  <2>4. WorldTyped'
    BY <1>t, <2>1, <2>2, <2>3 DEF WorldTyped
  <2>5. FilesTyped' /\ HandsTyped' /\ PlacesTyped' /\ OrderTyped'
    BY <1>t, <2>1 DEF files, order, FilesTyped, HandsTyped, PlacesTyped, OrderTyped
  <2> QED
    BY <1>t, <2>1, <2>4, <2>5, FaultTyped, AllTyped
<1> QED
  BY <1>1, <1>2, <1>3, <1>4 DEF World

LEMMA CertsStep == TypeOK /\ [Next]_certsVars => TypeOK'
<1> SUFFICES ASSUME TypeOK, [Next]_certsVars PROVE TypeOK'
  OBVIOUS
<1>1. CASE UNCHANGED certsVars
  BY <1>1 DEF certsVars, vars, TypeOK
<1>2. ASSUME NEW t \in Task, TaskStep(t) PROVE TypeOK'
  BY <1>2, TaskTyped
<1>3. ASSUME NEW m \in Machine, SupStep(m) PROVE TypeOK'
  BY <1>3, SupTyped, OrderStepTyped, IssueTyped DEF SupStep
<1>4. CASE World
  BY <1>4, WorldStepTyped
<1> QED
  BY <1>1, <1>2, <1>3, <1>4 DEF Next

---------------------------------------------------------------------------
(* What a supervisor is at, and its order, its calls and the lock.         *)

\* A machine waits for another's order only if it is a replica or there is one with a lower
\* id: the lowest is never denied the lock, so that no machines deny each other for ever.
\* An order is open from the account to the release, and nowhere else: a bundle that comes
\* from a peer or from the working directory is never finished as an order's.  No call of
\* the lock is left over.
Supervised(m) ==
    /\ pc[Sup(m)] = "wait" => m \in replica \/ \E p \in Machine : p < m
    /\ ca[m] # 0 => pc[Sup(m)] \in {"account", "order", "prove", "final", "cert", "key", "load",
                                    "clear", "release"}
    /\ pc[Sup(m)] \in {"order", "prove", "final", "clear"} => ca[m] # 0
    /\ asking[m] # {} => pc[Sup(m)] \in {"ask", "unlock"}

SupervisorsSound == \A m \in Machine : Supervised(m)

\* One machine is seen to, the others are as they were.
LEMMA SeenTo ==
    ASSUME SupervisorsSound, UNCHANGED replica, NEW m \in Machine, Supervised(m)',
           \A p \in Machine \ {m} :
              pc'[Sup(p)] = pc[Sup(p)] /\ ca'[p] = ca[p] /\ asking'[p] = asking[p]
    PROVE  SupervisorsSound'
<1>1. ASSUME NEW p \in Machine \ {m} PROVE Supervised(p)'
  BY <1>1 DEF SupervisorsSound, Supervised, Sup
<1> QED
  BY <1>1 DEF SupervisorsSound

\* No supervisor moves.
LEMMA NoneMoves ==
    ASSUME SupervisorsSound, UNCHANGED <<replica, ca, asking>>,
           \A p \in Machine : pc'[Sup(p)] = pc[Sup(p)]
    PROVE  SupervisorsSound'
BY DEF SupervisorsSound, Supervised, Sup

LEMMA GoneTo ==
    ASSUME TypeOK, NEW t \in Task, NEW at, Goto(t, at)
    PROVE  pc'[t] = at /\ \A p \in Machine : Sup(p) # t => pc'[Sup(p)] = pc[Sup(p)]
BY TaskFacts DEF Goto, TypeOK

LEMMA OtherSups == \A m, p \in Machine : m # p => Sup(m) # Sup(p)
BY DEF Sup

\* A supervisor goes to a place that suits its order and its calls.
LEMMA SupGoes ==
    ASSUME TypeOK, SupervisorsSound, NEW m \in Machine, NEW at, Goto(Sup(m), at), UNCHANGED replica,
           \A p \in Machine \ {m} : ca'[p] = ca[p] /\ asking'[p] = asking[p],
           at = "wait" => m \in replica \/ \E p \in Machine : p < m,
           ca'[m] # 0 => at \in {"account", "order", "prove", "final", "cert", "key", "load",
                                 "clear", "release"},
           at \in {"order", "prove", "final", "clear"} => ca'[m] # 0,
           asking'[m] # {} => at \in {"ask", "unlock"}
    PROVE  SupervisorsSound'
<1>1. pc'[Sup(m)] = at /\ \A p \in Machine \ {m} : pc'[Sup(p)] = pc[Sup(p)]
  BY GoneTo, TaskFacts, OtherSups
<1>2. Supervised(m)'
  BY <1>1 DEF Supervised, Sup
<1> QED
  BY <1>1, <1>2, SeenTo

LEMMA GivenUp ==
    ASSUME TypeOK, SupervisorsSound, NEW m \in Machine, GiveUp(m), UNCHANGED <<replica, asking>>,
           asking[m] = {}
    PROVE  SupervisorsSound'
<1>c. ca \in [Machine -> 0..CAs]
  BY DEF TypeOK
<1>1. CASE ca[m] < 2 /\ CAs = 2
  <2>1. Goto(Sup(m), "account") /\ ca' = [ca EXCEPT ![m] = 2]
    BY <1>1 DEF GiveUp
  <2> QED
    BY <1>c, <2>1, SupGoes
<1>2. CASE ~(ca[m] < 2 /\ CAs = 2)
  <2>1. Goto(Sup(m), "release") /\ UNCHANGED ca
    BY <1>2 DEF GiveUp
  <2> QED
    BY <2>1, SupGoes
<1> QED
  BY <1>1, <1>2

LEMMA TaskSupervised ==
    ASSUME TypeOK, SupervisorsSound, NEW t \in Task, TaskStep(t)
    PROVE  SupervisorsSound'
<1>a. UNCHANGED <<replica, asking>>
  BY DEF TaskStep, SyncFails, SyncFrom, WriteCert, WriteKey, WriteFile, WriteFails, Load, order, world
<1>1. CASE t[2] = "sup"
  <2>1. PICK m \in Machine : t = Sup(m)
    <3>1. t[1] \in Machine /\ t = <<t[1], t[2]>>
      <4>1. CASE t \in Machine \X {"sup"}
        BY <4>1
      <4>2. CASE t \in Poller \X {"poll"}
        BY <1>1, <4>2
      <4> QED
        BY <4>1, <4>2 DEF Task
    <3>2. t = Sup(t[1])
      BY <1>1, <3>1 DEF Sup
    <3> QED
      BY <3>1, <3>2
  <2>2. t[1] = m /\ t[2] = "sup" /\ Supervised(m)
    BY <2>1, TaskFacts DEF SupervisorsSound
  <2>3. CASE SyncFails(t)
    <3>1. Syncing(t) /\ Goto(t, AfterFailure(t)) /\ UNCHANGED ca
      BY <2>3 DEF SyncFails, order
    <3>2. /\ AfterFailure(t) \in {"wait", "account", "again", "lock", "rest"}
          /\ AfterFailure(t) = "wait" => m \in replica
      BY <2>2 DEF AfterFailure
    <3>3. ca[m] = 0 /\ asking[m] = {}
      BY <2>1, <2>2, <3>1 DEF Syncing, Supervised
    <3> HIDE DEF AfterFailure
    <3> QED
      BY <1>a, <2>1, <3>1, <3>2, <3>3, SupGoes
  <2>4. CASE \E p \in Machine : SyncFrom(t, p)
    <3>1. Syncing(t) /\ Goto(t, "cert") /\ UNCHANGED ca
      BY <2>4 DEF SyncFrom, order
    <3>2. ca[m] = 0 /\ asking[m] = {}
      BY <2>1, <2>2, <3>1 DEF Syncing, Supervised
    <3> QED
      BY <1>a, <2>1, <3>1, <3>2, SupGoes
  <2>5. CASE WriteCert(t) \/ WriteKey(t)
    <3>1. PICK at \in {"key", "load"} : Goto(t, at) /\ UNCHANGED ca /\ pc[t] \in {"cert", "key"}
      BY <2>5 DEF WriteCert, WriteKey, WriteFile, order
    <3>2. asking[m] = {}
      BY <2>1, <2>2, <3>1 DEF Supervised
    <3> QED
      BY <1>a, <2>1, <3>1, <3>2, SupGoes
  <2>6. CASE WriteFails(t)
    <3>1. pc[t] \in {"cert", "key"} /\ asking[m] = {}
      BY <2>1, <2>2, <2>6 DEF WriteFails, Supervised
    <3>2. \/ GiveUp(m)
          \/ UNCHANGED ca /\ \E at \in {"key", "load"} : Goto(t, at)
      BY <2>2, <2>6 DEF WriteFails
    <3>3. ASSUME UNCHANGED ca, NEW at \in {"key", "load"}, Goto(t, at) PROVE SupervisorsSound'
      BY <1>a, <2>1, <3>1, <3>3, SupGoes
    <3> QED
      BY <1>a, <3>1, <3>2, <3>3, GivenUp
  <2>7. CASE Load(t)
    <3>1. PICK at \in {"clear", "rest"} :
             Goto(t, at) /\ UNCHANGED ca /\ (at = "clear" <=> ca[m] > 0) /\ pc[t] = "load"
      BY <2>2, <2>7 DEF Load, order
    <3>2. asking[m] = {} /\ ca[m] \in Nat
      BY <2>1, <2>2, <3>1, CertsAssumption DEF Supervised, TypeOK
    <3> QED
      BY <1>a, <2>1, <3>1, <3>2, SupGoes
  <2> QED
    BY <2>3, <2>4, <2>5, <2>6, <2>7 DEF TaskStep
<1>2. CASE t[2] # "sup"
  <2>1. \A p \in Machine : Sup(p) # t
    BY <1>2, TaskFacts
  <2>2. UNCHANGED ca /\ \E at : Goto(t, at)
    BY <1>2 DEF TaskStep, SyncFails, SyncFrom, WriteCert, WriteKey, WriteFile, WriteFails, Load, order
  <2>3. \A p \in Machine : pc'[Sup(p)] = pc[Sup(p)]
    BY <2>1, <2>2, GoneTo
  <2> QED
    BY <1>a, <2>2, <2>3, NoneMoves
<1> QED
  BY <1>1, <1>2

\* The calls of the lock: whoever denies it has a lower id.
LEMMA LockSupervised ==
    ASSUME TypeOK, SupervisorsSound, NEW m \in Machine,
           \/ TakeLocal(m)
           \/ \E p \in Machine : Ask(m, p) \/ CallLost(m, p) \/ Unlock(m, p)
    PROVE  SupervisorsSound'
<1>a. UNCHANGED <<replica, ca>>
  BY DEF TakeLocal, Ask, CallLost, Unlock, world
<1>b. /\ lock \in [Machine -> Machine \cup {0}] /\ asking \in [Machine -> SUBSET Machine]
      /\ Machine \subseteq Nat \ {0} /\ Supervised(m)
  BY CertsAssumption DEF TypeOK, SupervisorsSound
<1>1. CASE TakeLocal(m)
  <2>1. ca[m] = 0 /\ asking[m] = {}
    BY <1>b, <1>1 DEF TakeLocal, Supervised
  <2>2. CASE lock[m] # 0 /\ lock[m] < m
    <3>1. Goto(Sup(m), "wait") /\ UNCHANGED asking /\ lock[m] \in Machine
      BY <1>b, <1>1, <2>2 DEF TakeLocal
    <3> QED
      BY <1>a, <2>1, <2>2, <3>1, SupGoes
  <2>3. CASE ~(lock[m] # 0 /\ lock[m] < m)
    <3>1. Goto(Sup(m), "ask") /\ asking' = [asking EXCEPT ![m] = Machine \ {m}]
      BY <1>1, <2>3 DEF TakeLocal
    <3> QED
      BY <1>a, <1>b, <2>1, <3>1, SupGoes
  <2> QED
    BY <2>2, <2>3
<1>2. ASSUME NEW p \in Machine, Ask(m, p), ~Grants(p, m) PROVE SupervisorsSound'
  <2>1. Goto(Sup(m), "wait") /\ asking' = [asking EXCEPT ![m] = {}] /\ pc[Sup(m)] = "ask"
    BY <1>2 DEF Ask
  <2>2. lock[p] \in Machine /\ lock[p] < m
    <3>1. lock[p] \in Machine \cup {0} /\ lock[p] # 0 /\ lock[p] # m /\ ~(m < lock[p])
      BY <1>b, <1>2 DEF Grants
    <3>2. lock[p] \in Nat /\ m \in Nat
      BY <1>b, <3>1
    <3> QED
      BY <3>1, <3>2
  <2>3. ca[m] = 0
    BY <1>b, <2>1 DEF Supervised
  <2> QED
    BY <1>a, <1>b, <2>1, <2>2, <2>3, SupGoes
<1>3. ASSUME NEW p \in Machine, (Ask(m, p) /\ Grants(p, m)) \/ CallLost(m, p) \/ Unlock(m, p)
      PROVE  SupervisorsSound'
  <2>1. /\ UNCHANGED pc /\ asking' = [asking EXCEPT ![m] = asking[m] \ {p}]
        /\ pc[Sup(m)] \in {"ask", "unlock"}
    BY <1>3 DEF Ask, CallLost, Unlock
  <2>2. Supervised(m)'
    BY <1>a, <1>b, <2>1 DEF Supervised, Sup
  <2> QED
    BY <1>a, <1>b, <2>1, <2>2, SeenTo
<1> QED
  BY <1>1, <1>2, <1>3

LEMMA SupSupervised ==
    ASSUME TypeOK, SupervisorsSound, NEW m \in Machine, SupStep(m)
    PROVE  SupervisorsSound'
<1>b. Supervised(m) /\ asking \in [Machine -> SUBSET Machine] /\ ca \in [Machine -> 0..CAs]
  BY DEF TypeOK, SupervisorsSound
<1>1. CASE \/ Wake(m) \/ CheckFinds(m) \/ CheckRestores(m) \/ CheckMisses(m) \/ Begin(m)
           \/ Unlocked(m)
  <2>1. /\ UNCHANGED <<ca, asking, replica>> /\ asking[m] = {} /\ ca[m] = 0
        /\ \E at \in {"check", "rest", "cert", "sync", "account"} : Goto(Sup(m), at)
    BY <1>b, <1>1
       DEF Wake, CheckFinds, CheckRestores, CheckMisses, Begin, Unlocked, order, world, Supervised
  <2> QED
    BY <2>1, SupGoes
<1>2. CASE Prove(m) \/ Publish(m) \/ ClearTxt(m) \/ \E n \in Certificate : Issue(m, n)
  <2>1. /\ UNCHANGED <<ca, asking, replica>> /\ asking[m] = {} /\ ca[m] # 0
        /\ \E at \in {"final", "prove", "release", "cert"} : Goto(Sup(m), at)
    BY <1>b, <1>2 DEF Prove, Publish, ClearTxt, Issue, order, world, Supervised
  <2> QED
    BY <2>1, SupGoes
<1>3. CASE Register(m)
  <2>1. /\ ca' = [ca EXCEPT ![m] = IF ca[m] = 0 THEN 1 ELSE ca[m]] /\ Goto(Sup(m), "order")
        /\ UNCHANGED <<asking, replica>> /\ asking[m] = {}
    BY <1>b, <1>3 DEF Register, world, Supervised
  <2> QED
    BY <1>b, <2>1, SupGoes
<1>4. CASE OrderFails(m)
  <2>1. GiveUp(m) /\ UNCHANGED <<asking, replica>> /\ asking[m] = {}
    BY <1>b, <1>4 DEF OrderFails, world, Supervised
  <2> QED
    BY <2>1, GivenUp
<1>5. CASE Release(m)
  <2>1. /\ ca' = [ca EXCEPT ![m] = 0] /\ UNCHANGED replica /\ asking[m] = {}
        /\ \/ Goto(Sup(m), "rest") /\ UNCHANGED asking
           \/ Goto(Sup(m), "unlock") /\ asking' = [asking EXCEPT ![m] = Machine \ {m}]
    BY <1>b, <1>5 DEF Release, world, Supervised
  <2> QED
    BY <1>b, <2>1, SupGoes
<1> QED
  BY <1>1, <1>2, <1>3, <1>4, <1>5, LockSupervised DEF SupStep

LEMMA WorldSupervised == ASSUME TypeOK, SupervisorsSound, World PROVE SupervisorsSound'
<1>1. ASSUME NEW m \in Machine, Lapse(m) PROVE SupervisorsSound'
  BY <1>1, NoneMoves DEF Lapse, world
<1>2. ASSUME NEW n \in Certificate, Expire(n) PROVE SupervisorsSound'
  BY <1>2, NoneMoves DEF Expire, order
<1>3. ASSUME NEW m \in Machine, NEW kept \in BOOLEAN, Boot(m, kept) PROVE SupervisorsSound'
  <2>1. ca' = [ca EXCEPT ![m] = 0] /\ asking' = [asking EXCEPT ![m] = {}] /\ UNCHANGED replica
    BY <1>3 DEF Boot
  <2>2. pc'[Sup(m)] = "check" /\ \A p \in Machine \ {m} : pc'[Sup(p)] = pc[Sup(p)]
    BY <1>3, TaskFacts DEF Boot
  <2>3. ca'[m] = 0 /\ asking'[m] = {}
    BY <2>1 DEF TypeOK
  <2>4. Supervised(m)'
    BY <2>2, <2>3 DEF Supervised, Sup
  <2> QED
    BY <2>1, <2>2, <2>4, SeenTo DEF TypeOK
<1> QED
  BY <1>1, <1>2, <1>3 DEF World, Restart, AddDomain

LEMMA SupervisedStart == Init => SupervisorsSound
<1> SUFFICES ASSUME Init, NEW m \in Machine PROVE Supervised(m)
  BY DEF SupervisorsSound
<1>1. pc[Sup(m)] = "check" /\ ca[m] = 0 /\ asking[m] = {}
  BY TaskFacts DEF Init
<1> QED
  BY <1>1 DEF Supervised

LEMMA SupervisedStep == TypeOK /\ SupervisorsSound /\ [Next]_certsVars => SupervisorsSound'
<1> SUFFICES ASSUME TypeOK, SupervisorsSound, [Next]_certsVars PROVE SupervisorsSound'
  OBVIOUS
<1>1. CASE UNCHANGED certsVars
  BY <1>1, NoneMoves DEF certsVars, vars
<1>2. CASE Next
  BY <1>2, TaskSupervised, SupSupervised, WorldSupervised DEF Next
<1> QED
  BY <1>1, <1>2

---------------------------------------------------------------------------
(* Addresses.                                                              *)

Known == [Family -> Address \cup {Own, None}]
SyncState == [pc : {"idle", "discover", "compare"} \cup Domain, ips : Known, todo : SUBSET Domain]

AddressesTyped ==
    /\ dynu \subseteq Domain
    /\ host \in [Family -> Address \cup {None}]
    /\ record \in [Domain -> Known] /\ seen \in [Domain -> Known]
SyncTyped == sync \in [Run -> SyncState]
CountsTyped == moves \in 0..MaxMoves /\ failures \in 0..MaxFailures

\* What a run has discovered is an address as well: without it no update would leave the
\* records typed.
DdnsInv == AddressesTyped /\ SyncTyped /\ CountsTyped

LEMMA DdnsInvTyped == DdnsInv => DdnsTypeOK
BY DEF DdnsInv, AddressesTyped, SyncTyped, CountsTyped, DdnsTypeOK, Known, SyncState

LEMMA IdleTyped == Unknown \in Known /\ Idle \in SyncState
BY DEF Unknown, Idle, Known, SyncState

LEMMA CountedTyped == ASSUME CountsTyped, NEW n \in Nat, Failing(n), moves' = moves
                      PROVE  CountsTyped'
BY DdnsAssumption DEF CountsTyped, Failing

LEMMA DdnsStart == DdnsInit => DdnsInv
<1> SUFFICES ASSUME DdnsInit PROVE DdnsInv
  OBVIOUS
<1>1. AddressesTyped
  BY IdleTyped DEF DdnsInit, AddressesTyped
<1>2. SyncTyped
  <2>1. [Idle EXCEPT !.pc = "discover"] \in SyncState
    BY IdleTyped DEF SyncState
  <2> QED
    BY <2>1, IdleTyped DEF DdnsInit, SyncTyped
<1>3. CountsTyped
  BY DdnsAssumption DEF DdnsInit, CountsTyped
<1> QED
  BY <1>1, <1>2, <1>3 DEF DdnsInv

\* What is discovered of a family is an address the service may have, the machine's, or none.
LEMMA DiscoveredTyped ==
    ASSUME AddressesTyped, NEW f \in Family, NEW failed \in 0..2
    PROVE  Discovered(f, failed) \in Address \cup {Own, None}
<1>1. Echo(f) \in {Own, None} /\ Resolvers(f) \in Address \cup {None}
  BY DEF Echo, Resolvers, AddressesTyped
<1>2. CASE failed = 0
  BY <1>1, <1>2 DEF Discovered
<1>3. CASE failed = 1
  BY <1>1, <1>3 DEF Discovered
<1>4. CASE failed = 2
  BY <1>4 DEF Discovered
<1> QED
  BY <1>2, <1>3, <1>4

LEMMA FinishTyped ==
    ASSUME SyncTyped, NEW r \in Run, NEW d \in Domain
    PROVE  Finish(r, d) \in SyncState
<1>1. sync[r] \in SyncState
  BY DEF SyncTyped
<1>2. [sync[r] EXCEPT !.pc = "compare", !.todo = sync[r].todo \ {d}] \in SyncState
  BY <1>1 DEF SyncState
<1> QED
  BY <1>2, IdleTyped DEF Finish

LEMMA DiscoverTyped == ASSUME DdnsInv, NEW r \in Run, Discover(r) PROVE DdnsInv'
<1>t. AddressesTyped /\ SyncTyped /\ CountsTyped
  BY DEF DdnsInv
<1> DEFINE Found(v4, v6) == [f \in Family |-> Discovered(f, IF f = "v4" THEN v4 ELSE v6)]
           Begun(ips) == [pc |-> "compare", ips |-> ips, todo |-> Domain]
<1>1. PICK v4, v6 \in 0..2 :
        /\ Failing(v4 + v6)
        /\ sync' = [sync EXCEPT ![r] = IF Found(v4, v6) = Unknown THEN Idle ELSE Begun(Found(v4, v6))]
  BY DEF Discover
<1>2. Found(v4, v6) \in Known
  BY <1>t, DiscoveredTyped DEF Known
<1>3. Begun(Found(v4, v6)) \in SyncState
  BY <1>2 DEF SyncState
<1> HIDE DEF Found, Begun
<1>4. SyncTyped'
  BY <1>t, <1>1, <1>3, IdleTyped DEF SyncTyped
<1>5. CountsTyped'
  <2>1. v4 + v6 \in Nat
    OBVIOUS
  <2> QED
    BY <1>t, <1>1, <2>1, CountedTyped DEF Discover
<1>6. AddressesTyped'
  BY <1>t DEF Discover, AddressesTyped
<1> QED
  BY <1>4, <1>5, <1>6 DEF DdnsInv

LEMMA CompareTyped ==
    ASSUME DdnsInv, NEW r \in Run, NEW d \in Domain, Compare(r, d)
    PROVE  DdnsInv'
<1>t. AddressesTyped /\ SyncTyped /\ CountsTyped
  BY DEF DdnsInv
<1> DEFINE there == [sync[r] EXCEPT !.pc = d]
<1>1. PICK failed \in 0..1 :
        /\ Failing(failed)
        /\ \/ sync' = [sync EXCEPT ![r] = Finish(r, d)]
           \/ sync' = [sync EXCEPT ![r] = there]
  BY DEF Compare
<1>2. there \in SyncState
  BY <1>t DEF SyncTyped, SyncState
<1>3. Finish(r, d) \in SyncState
  BY <1>t, FinishTyped
<1> HIDE DEF there
<1>4. SyncTyped'
  BY <1>t, <1>1, <1>2, <1>3 DEF SyncTyped
<1>5. CountsTyped'
  <2>1. failed \in Nat
    OBVIOUS
  <2> QED
    BY <1>t, <1>1, <2>1, CountedTyped DEF Compare
<1>6. AddressesTyped'
  BY <1>t DEF Compare, AddressesTyped
<1> QED
  BY <1>4, <1>5, <1>6 DEF DdnsInv

LEMMA UpdateTyped ==
    ASSUME DdnsInv, NEW r \in Run, NEW d \in Domain, Update(r, d)
    PROVE  DdnsInv'
<1>t. AddressesTyped /\ SyncTyped /\ CountsTyped
  BY DEF DdnsInv
<1>1. SyncTyped'
  BY <1>t, FinishTyped DEF Update, SyncTyped
<1>2. sync[r].ips \in Known /\ record[d] \in Known
  BY <1>t DEF SyncTyped, SyncState, AddressesTyped
<1>3. Updated(d, sync[r].ips) \in Known /\ UpdatedDynu(sync[r].ips) \in Known
  BY <1>2 DEF Updated, UpdatedDynu, Known
<1>4. \/ record' = record
      \/ record' = [record EXCEPT ![d] = UpdatedDynu(sync[r].ips)]
      \/ record' = [record EXCEPT ![d] = Updated(d, sync[r].ips)]
  BY DEF Update
<1>5. AddressesTyped'
  BY <1>t, <1>3, <1>4 DEF Update, AddressesTyped
<1>6. CountsTyped'
  <2>1. CASE UNCHANGED failures
    BY <1>t, <2>1 DEF Update, CountsTyped
  <2>2. CASE Failing(1)
    BY <1>t, <2>2, CountedTyped DEF Update
  <2> QED
    BY <2>1, <2>2 DEF Update
<1> QED
  BY <1>1, <1>5, <1>6 DEF DdnsInv

LEMMA DdnsStep == DdnsInv /\ [DdnsNext]_ddnsVars => DdnsInv'
<1> SUFFICES ASSUME DdnsInv, [DdnsNext]_ddnsVars PROVE DdnsInv'
  OBVIOUS
<1>t. AddressesTyped /\ SyncTyped /\ CountsTyped
  BY DEF DdnsInv
<1>1. CASE UNCHANGED ddnsVars
  BY <1>t, <1>1 DEF ddnsVars, DdnsInv, AddressesTyped, SyncTyped, CountsTyped
<1>2. CASE Start
  <2>1. [sync["cron"] EXCEPT !.pc = "discover"] \in SyncState
    BY <1>t DEF SyncTyped, SyncState, Run
  <2>2. sync' = [sync EXCEPT !["cron"] = [sync["cron"] EXCEPT !.pc = "discover"]]
    BY <1>2 DEF Start
  <2>3. SyncTyped'
    BY <1>t, <2>1, <2>2 DEF SyncTyped
  <2> QED
    BY <1>t, <1>2, <2>3 DEF Start, DdnsInv, AddressesTyped, CountsTyped
<1>3. ASSUME NEW r \in Run, Discover(r) PROVE DdnsInv'
  BY <1>3, DiscoverTyped
<1>4. ASSUME NEW r \in Run, NEW d \in Domain, Compare(r, d) \/ Update(r, d) PROVE DdnsInv'
  BY <1>4, CompareTyped, UpdateTyped
<1>5. ASSUME NEW d \in Domain, Forget(d) PROVE DdnsInv'
  BY <1>t, <1>5 DEF Forget, DdnsInv, AddressesTyped, SyncTyped, CountsTyped
<1>6. ASSUME NEW f \in Family, NEW to \in Address, Move(f, to) PROVE DdnsInv'
  BY <1>t, <1>6, DdnsAssumption DEF Move, DdnsInv, AddressesTyped, SyncTyped, CountsTyped
<1> QED
  BY <1>1, <1>2, <1>3, <1>4, <1>5, <1>6 DEF DdnsNext

---------------------------------------------------------------------------
(* Both.                                                                   *)

MachinesInv == TypeOK /\ DdnsInv

LEMMA MachinesStart == MachinesInit => MachinesInv
BY CertsStart, DdnsStart DEF MachinesInit, MachinesInv

LEMMA MachinesStep == MachinesInv /\ [MachinesNext]_machinesVars => MachinesInv'
<1> SUFFICES ASSUME MachinesInv, [MachinesNext]_machinesVars PROVE MachinesInv'
  OBVIOUS
<1>1. [Next]_certsVars
  BY DEF MachinesNext, CertsTurn, DdnsTurn, machinesVars
<1>2. [DdnsNext]_ddnsVars
  BY DEF MachinesNext, CertsTurn, DdnsTurn, machinesVars
<1> QED
  BY <1>1, <1>2, CertsStep, DdnsStep DEF MachinesInv

LEMMA MachinesTyped == MachinesInv => MachinesTypeOK
BY DdnsInvTyped DEF MachinesInv, MachinesTypeOK

\* Whatever the machines, the domains and the bounds are, the files and hands of a machine
\* are pairs of a certificate and a key, a cluster lock is a machine's or nobody's, an order
\* is with a CA that is configured, and what is held, seen or discovered of a domain is an
\* address or none: acme.rs and ddns.rs.
THEOREM MachinesTypeCorrect == MachinesSpec => []MachinesTypeOK
<1>1. MachinesInit => MachinesInv
  BY MachinesStart
<1>2. MachinesInv /\ [MachinesNext]_machinesVars => MachinesInv'
  BY MachinesStep
<1>3. MachinesInv => MachinesTypeOK
  BY MachinesTyped
<1> QED
  BY <1>1, <1>2, <1>3, PTL DEF MachinesSpec

(***************************************************************************)
(* For any machines, replicas, pollers, CAs, lost calls, lapsed locks and  *)
(* restarts: the machine with the lowest id is never denied the cluster    *)
(* lock, an order is open exactly where provision_acme_certificate has     *)
(* one, and a bundle of a peer's is not finished as an order's, which      *)
(* would empty the records of another machine's challenge (acme.rs,        *)
(* handle_acquire_lock in system.rs).  It is the safety half of            *)
(* CertificatesArrive.                                                     *)
(***************************************************************************)
THEOREM SupervisorsStaySound == MachinesSpec => []SupervisorsSound
<1>1. MachinesInit => MachinesInv /\ SupervisorsSound
  BY MachinesStart, SupervisedStart DEF MachinesInit
<1>2. MachinesInv /\ SupervisorsSound /\ [MachinesNext]_machinesVars => (MachinesInv /\ SupervisorsSound)'
  <2> SUFFICES ASSUME MachinesInv, SupervisorsSound, [MachinesNext]_machinesVars
               PROVE  (MachinesInv /\ SupervisorsSound)'
    OBVIOUS
  <2>1. [Next]_certsVars
    BY DEF MachinesNext, CertsTurn, DdnsTurn, machinesVars
  <2> QED
    BY <2>1, MachinesStep, SupervisedStep DEF MachinesInv
<1> QED
  BY <1>1, <1>2, PTL DEF MachinesSpec
=============================================================================
