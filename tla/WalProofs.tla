----------------------------- MODULE WalProofs -----------------------------
(***************************************************************************)
(* Theorems about the write-ahead log (Wal.tla): its type invariant, the   *)
(* durability of the admin calls across compactions and crashes, and the   *)
(* order of the events, for every value of the constants.                  *)
(***************************************************************************)
EXTENDS Wal, SequenceTheorems, FiniteSetTheorems, TLAPS

USE ConstantsAssumption

-----------------------------------------------------------------------------
(* Replay.                                                                 *)

\* Records of the two shapes are what they look like.
LEMMA RecordFacts ==
    /\ \A e \in Entry : Add(e) \in ListRecord /\ Del(e) \in ListRecord
    /\ ClearSources \in ListRecord
    /\ \A e \in Entry : Adds(Add(e)) = {e} /\ Removes(Add(e)) = {}
    /\ Adds(ClearSources) = {} /\ Removes(ClearSources) = Source
    /\ \A e \in Entry : Adds(Del(e)) = {} /\ Removes(Del(e)) = {e}
BY DEF Add, Del, ClearSources, ListRecord, Adds, Removes

\* What a replay of l1 \o l2 yields: what l2 yields, and what l1 yields and no
\* record of l2 takes out.
LEMMA ReplayConcat ==
    ASSUME NEW l1 \in Seq(ListRecord), NEW l2 \in Seq(ListRecord)
    PROVE  Replay(l1 \o l2) =
             Replay(l2) \cup
             {e \in Replay(l1) : \A j \in DOMAIN l2 : e \notin Removes(l2[j])}
<1> DEFINE l == l1 \o l2
           m == Len(l1)
           n == Len(l2)
           Survives(e) == \A j \in DOMAIN l2 : e \notin Removes(l2[j])
<1>1. /\ m \in Nat /\ n \in Nat /\ DOMAIN l1 = 1..m /\ DOMAIN l2 = 1..n
      /\ l \in Seq(ListRecord) /\ Len(l) = m + n /\ DOMAIN l = 1..(m + n)
      /\ \A i \in 1..m : l[i] = l1[i]
      /\ \A i \in 1..n : l[m + i] = l2[i]
  BY ConcatProperties, LenProperties
<1> HIDE DEF l, m, n
<1>2. ASSUME NEW e \in Entry, e \in Replay(l)
      PROVE  e \in Replay(l2) \/ (e \in Replay(l1) /\ Survives(e))
  <2>1. PICK i \in 1..(m + n) : /\ e \in Adds(l[i])
                                /\ \A j \in (i + 1)..(m + n) : e \notin Removes(l[j])
    BY <1>1, <1>2 DEF Replay
  <2>2. CASE i <= m
    <3>1. i \in 1..m /\ e \in Adds(l1[i])
      BY <1>1, <2>1, <2>2
    <3>2. \A j \in (i + 1)..m : e \notin Removes(l1[j])
      BY <1>1, <2>1, <2>2
    <3>3. \A j \in 1..n : e \notin Removes(l2[j])
      <4>1. TAKE j \in 1..n
      <4>2. m + j \in (i + 1)..(m + n) /\ l[m + j] = l2[j]
        BY <1>1, <2>2
      <4>3. QED BY <4>2, <2>1
    <3>4. e \in Replay(l1)
      BY <3>1, <3>2, <1>1 DEF Replay, m
    <3>5. QED BY <3>3, <3>4, <1>1
  <2>3. CASE i > m
    <3>1. (i - m) \in 1..n /\ l[i] = l2[i - m]
      <4>1. (i - m) \in 1..n /\ m + (i - m) = i
        BY <1>1, <2>3
      <4>2. QED BY <4>1, <1>1
    <3>2. \A j \in (i - m + 1)..n : e \notin Removes(l2[j])
      <4>1. TAKE j \in (i - m + 1)..n
      <4>2. m + j \in (i + 1)..(m + n) /\ j \in 1..n
        BY <1>1, <2>3, <3>1
      <4>3. QED BY <4>2, <2>1, <1>1
    <3>3. QED BY <3>1, <3>2, <2>1, <1>1 DEF Replay, n
  <2>4. QED BY <2>2, <2>3, <1>1
<1>3. ASSUME NEW e \in Entry, e \in Replay(l2)
      PROVE  e \in Replay(l)
  <2>1. PICK i \in 1..n : /\ e \in Adds(l2[i])
                          /\ \A j \in (i + 1)..n : e \notin Removes(l2[j])
    BY <1>1, <1>3 DEF Replay, n
  <2>2. m + i \in 1..(m + n) /\ e \in Adds(l[m + i])
    BY <1>1, <2>1
  <2>3. \A j \in (m + i + 1)..(m + n) : e \notin Removes(l[j])
    <3>1. TAKE j \in (m + i + 1)..(m + n)
    <3>2. (j - m) \in (i + 1)..n /\ (j - m) \in 1..n /\ m + (j - m) = j
      BY <1>1, <2>1
    <3>3. QED BY <3>2, <2>1, <1>1
  <2>4. QED BY <2>2, <2>3, <1>1 DEF Replay
<1>4. ASSUME NEW e \in Entry, e \in Replay(l1), Survives(e)
      PROVE  e \in Replay(l)
  <2>1. PICK i \in 1..m : /\ e \in Adds(l1[i])
                          /\ \A j \in (i + 1)..m : e \notin Removes(l1[j])
    BY <1>1, <1>4 DEF Replay, m
  <2>2. i \in 1..(m + n) /\ e \in Adds(l[i])
    BY <1>1, <2>1
  <2>3. \A j \in (i + 1)..(m + n) : e \notin Removes(l[j])
    <3>1. TAKE j \in (i + 1)..(m + n)
    <3>2. CASE j <= m
      BY <3>2, <1>1, <2>1
    <3>3. CASE j > m
      <4>1. (j - m) \in 1..n /\ m + (j - m) = j
        BY <3>3, <1>1
      <4>2. QED BY <4>1, <1>1, <1>4
    <3>4. QED BY <3>2, <3>3, <1>1
  <2>4. QED BY <2>2, <2>3, <1>1 DEF Replay
<1>5. /\ Replay(l) \subseteq Entry /\ Replay(l1) \subseteq Entry
      /\ Replay(l2) \subseteq Entry
  BY DEF Replay
<1>6. Replay(l) = Replay(l2) \cup {e \in Replay(l1) : Survives(e)}
  BY <1>2, <1>3, <1>4, <1>5
<1>7. QED BY <1>6 DEF l

\* A record appended to the log acts on what the log replays to.
LEMMA ReplayAppend ==
    ASSUME NEW l \in Seq(ListRecord), NEW r \in ListRecord
    PROVE  /\ l \o <<r>> \in Seq(ListRecord)
           /\ Replay(l \o <<r>>) = Apply(Replay(l), r)
<1> DEFINE s == <<r>>
<1>1. s \in Seq(ListRecord) /\ Len(s) = 1 /\ DOMAIN s = 1..1 /\ s[1] = r
  OBVIOUS
<1>2. \A e \in Entry : e \in Replay(s) <=> e \in Adds(r)
  BY <1>1 DEF Replay
<1>3. Adds(r) \subseteq Entry /\ Adds(r) \cap Removes(r) = {}
  BY DEF Adds, Removes, ListRecord
<1>4. Replay(s) = Adds(r)
  BY <1>2, <1>3 DEF Replay
<1>5. \A e : (\A j \in DOMAIN s : e \notin Removes(s[j])) <=> e \notin Removes(r)
  BY <1>1
<1> HIDE DEF s
<1>6. Replay(l \o s) = Replay(s) \cup
          {e \in Replay(l) : \A j \in DOMAIN s : e \notin Removes(s[j])}
  BY <1>1, ReplayConcat
<1>7. Replay(l \o s) = Apply(Replay(l), r)
  BY <1>4, <1>5, <1>6 DEF Apply
<1>8. l \o s \in Seq(ListRecord)
  BY <1>1, ConcatProperties
<1>9. QED BY <1>7, <1>8 DEF s

\* The add records of a set of entries, in whatever order SetToSeq picks, are
\* a log that replays to that set and takes nothing out of another.
LEMMA AddSeq ==
    ASSUME NEW S \in SUBSET Entry
    PROVE  LET q == SetToSeq({Add(e) : e \in S})
           IN  /\ q \in Seq(ListRecord)
               /\ Replay(q) = S
               /\ \A j \in DOMAIN q : Removes(q[j]) = {}
<1> DEFINE R == {Add(e) : e \in S}
           q == SetToSeq(R)
           n == Cardinality(R)
           f == [e \in S |-> Add(e)]
<1>1. IsFiniteSet(S)
  BY FS_Subset
<1>2. f \in Surjection(S, R)
  BY DEF Surjection
<1>3. IsFiniteSet(R)
  <2> HIDE DEF f, R
  <2>1. QED BY <1>1, <1>2, FS_Surjection
<1>4. n \in Nat /\ ExistsBijection(1..n, R)
  <2> HIDE DEF R
  <2>1. QED BY <1>3, FS_CardinalityType
<1>5. \E g \in [1..n -> R] : IsInjective(g)
  <2> HIDE DEF R, n
  <2>1. QED BY <1>4 DEF ExistsBijection, Bijection, Injection
<1>6. q \in [1..n -> R] /\ IsInjective(q)
  <2> HIDE DEF R
  <2>1. QED BY <1>5 DEF SetToSeq
<1>7. q \in Injection(1..n, R)
  BY <1>6 DEF Injection
<1>8. Cardinality(1..n) = n
  <2> HIDE DEF n
  <2>1. QED BY <1>4, FS_Interval
<1>9. q \in Surjection(1..n, R)
  <2> HIDE DEF q, R
  <2>1. QED BY <1>3, <1>7, <1>8, FS_Injection
<1>10. \A r \in R : \E i \in 1..n : q[i] = r
  BY <1>9 DEF Surjection
<1>11. \A r \in R : r \in ListRecord /\ Removes(r) = {}
  BY RecordFacts
<1>12. q \in Seq(ListRecord) /\ Len(q) = n /\ DOMAIN q = 1..n
  <2> HIDE DEF q, R, n
  <2>1. q \in [1..n -> ListRecord]
    BY <1>6, <1>11
  <2>2. QED BY <2>1, <1>4, SeqDef
<1>13. \A j \in 1..n : Removes(q[j]) = {}
  <2> HIDE DEF q, n, R
  <2>1. QED BY <1>6, <1>11
<1>14. Replay(q) = S
  <2>1. ASSUME NEW e \in S PROVE e \in Replay(q)
    <3>1. Add(e) \in R /\ e \in Entry
      OBVIOUS
    <3>2. PICK i \in 1..n : q[i] = Add(e)
      BY <3>1, <1>10
    <3>3. e \in Adds(q[i])
      BY <3>1, <3>2, RecordFacts
    <3> HIDE DEF q, n, R
    <3>4. QED BY <3>1, <3>3, <1>4, <1>12, <1>13 DEF Replay
  <2>2. ASSUME NEW e \in Replay(q) PROVE e \in S
    <3>1. PICK i \in 1..n : e \in Adds(q[i])
      <4> HIDE DEF q, n, R
      <4>1. QED BY <1>12 DEF Replay
    <3>2. PICK x \in S : q[i] = Add(x)
      BY <1>6
    <3>3. e = x
      BY <3>1, <3>2, RecordFacts
    <3>4. QED BY <3>3
  <2>3. QED BY <2>1, <2>2
<1>15. QED BY <1>12, <1>13, <1>14

-----------------------------------------------------------------------------
(* Types of what the actions compute.                                      *)

LEMMA SubSeqType ==
    ASSUME NEW S, NEW s \in Seq(S), NEW i \in Int, NEW n \in Int,
           i >= 1, n <= Len(s)
    PROVE  SubSeq(s, i, n) \in Seq(S)
<1>1. Len(s) \in Nat
  BY LenProperties
<1>2. \A k \in i..n : s[k] \in S
  BY <1>1, ElementOfSeq
<1>3. QED BY <1>2, SubSeqProperties

LEMMA LastNType ==
    ASSUME NEW S, NEW s \in Seq(S), NEW n \in Nat
    PROVE  LastN(s, n) \in Seq(S)
<1>1. Len(s) \in Nat
  BY LenProperties
<1>2. CASE Len(s) > n
  BY <1>1, <1>2, SubSeqType DEF LastN
<1>3. CASE ~(Len(s) > n)
  BY <1>1, <1>3, SubSeqType DEF LastN
<1>4. QED BY <1>2, <1>3

LEMMA LandedType ==
    ASSUME NEW S, NEW rs \in Seq(S), rs # <<>>
    PROVE  Landed(rs) \in Seq(S)
BY HeadTailProperties DEF Landed

LEMMA VisibleType ==
    ASSUME TypeOK
    PROVE  /\ VisibleLog \in Seq(ListRecord)
           /\ VisibleEvents \in Seq(Nat)
           /\ Lists \subseteq Entry
<1>1. VisibleLog \in Seq(ListRecord)
  <2>1. CASE torn # Nothing /\ torn.seen /\ torn.kind = "list"
    <3>1. torn.rec \in ListRecord
      BY <2>1 DEF TypeOK, TornLine
    <3>2. QED BY <2>1, <3>1, AppendProperties DEF VisibleLog, TypeOK
  <2>2. CASE ~(torn # Nothing /\ torn.seen /\ torn.kind = "list")
    BY <2>2 DEF VisibleLog, TypeOK
  <2>3. QED BY <2>1, <2>2
<1>2. VisibleEvents \in Seq(Nat)
  <2>1. CASE torn # Nothing /\ torn.seen /\ torn.kind = "event"
    <3>1. torn.rec \in Nat
      BY <2>1 DEF TypeOK, TornLine
    <3>2. QED BY <2>1, <3>1, AppendProperties DEF VisibleEvents, TypeOK
  <2>2. CASE ~(torn # Nothing /\ torn.seen /\ torn.kind = "event")
    BY <2>2 DEF VisibleEvents, TypeOK
  <2>3. QED BY <2>1, <2>2
<1>3. Lists \subseteq Entry
  BY DEF Lists, Replay
<1>4. QED BY <1>1, <1>2, <1>3

\* What a compaction reads replays to what the file replays to.
LEMMA CompactedFacts ==
    ASSUME TypeOK
    PROVE  Compacted \in Image /\ Replay(Compacted.log) = Lists
<1>1. VisibleEvents \in Seq(Nat) /\ Lists \in SUBSET Entry
  BY VisibleType
<1>2. LastN(VisibleEvents, EventKeep) \in Seq(Nat)
  BY <1>1, LastNType
<1>3. /\ SetToSeq({Add(e) : e \in Lists}) \in Seq(ListRecord)
      /\ Replay(SetToSeq({Add(e) : e \in Lists})) = Lists
  BY <1>1, AddSeq
<1>4. QED BY <1>2, <1>3 DEF Compacted, Image

\* save_instant_block_sources leaves the new sources and the other lists.
LEMMA SourceRecordsFacts ==
    ASSUME NEW l \in Seq(ListRecord), NEW S \in SUBSET Source
    PROVE  /\ SourceRecords(S) \in Seq(ListRecord)
           /\ SourceRecords(S) # <<>>
           /\ Replay(l \o SourceRecords(S)) = (Replay(l) \ Source) \cup S
<1> DEFINE q == SetToSeq({Add(e) : e \in S})
           c == <<ClearSources>>
<1>1. /\ q \in Seq(ListRecord) /\ Replay(q) = S
      /\ \A j \in DOMAIN q : Removes(q[j]) = {}
  BY AddSeq
<1>2. c \in Seq(ListRecord) /\ Len(c) = 1
  BY RecordFacts
<1> HIDE DEF q
<1>3. /\ l \o c \in Seq(ListRecord)
      /\ Replay(l \o c) = Replay(l) \ Source
  BY ReplayAppend, RecordFacts DEF Apply
<1> HIDE DEF c
<1>4. Replay((l \o c) \o q) = (Replay(l) \ Source) \cup S
  BY <1>1, <1>3, ReplayConcat
<1>5. (l \o c) \o q = l \o (c \o q)
  BY <1>1, <1>2, ConcatAssociative
<1>6. c \o q \in Seq(ListRecord) /\ Len(c \o q) = 1 + Len(q) /\ Len(q) \in Nat
  BY <1>1, <1>2, ConcatProperties, LenProperties
<1>7. c \o q # <<>>
  BY <1>6, EmptySeq
<1>8. QED BY <1>4, <1>5, <1>6, <1>7 DEF SourceRecords, c, q

-----------------------------------------------------------------------------
(* The type invariant, with what it needs about the mutex.                 *)

TypeInv == TypeOK /\ MutexInv

LEMMA InitTypeInv == Init => TypeInv
<1> SUFFICES ASSUME Init PROVE TypeInv
  OBVIOUS
<1>1. TypeOK
  <2>1. <<>> \in Seq(ListRecord) /\ <<>> \in Seq(Nat)
    OBVIOUS
  <2>2. cpc \in [Compactor -> {"idle", "waiting", "read", "synced", "renamed"}]
    BY DEF Init
  <2>3. up \in BOOLEAN /\ handle \in BOOLEAN /\ compacting \in BOOLEAN
    BY DEF Init
  <2>4. QED BY <2>1, <2>2, <2>3 DEF Init, TypeOK
<1>2. MutexInv
  BY DEF Init, MutexInv
<1>3. QED BY <1>1, <1>2 DEF TypeInv

\* A call that writes whole records.
LEMMA WriteRecordsType ==
    ASSUME TypeInv, NEW rs \in Seq(ListRecord), rs # <<>>,
           NEW lists \in SUBSET Entry, WriteRecords(rs, lists)
    PROVE  TypeInv'
<1>1. Landed(rs) \in Seq(ListRecord)
  BY LandedType
<1>2. log' \in Seq(ListRecord) /\ torn' \in TornLine \cup {Nothing}
  <2>1. log \in Seq(ListRecord) /\ torn \in TornLine \cup {Nothing}
    BY DEF TypeInv, TypeOK
  <2>2. log \o Landed(rs) \in Seq(ListRecord)
    BY <1>1, <2>1, ConcatProperties
  <2>3. CASE handle
    BY <2>2, <2>3 DEF WriteRecords
  <2>4. CASE ~handle
    BY <2>1, <2>4 DEF WriteRecords
  <2>5. QED BY <2>3, <2>4
<1>3. TypeOK'
  BY <1>2 DEF WriteRecords, TypeInv, TypeOK, compaction, writer
<1>4. MutexInv'
  BY DEF WriteRecords, TypeInv, MutexInv, compaction, writer
<1>5. QED BY <1>3, <1>4 DEF TypeInv

\* A list call, cut off or not, writes records of the right kind.
LEMMA ListCallRecords ==
    ASSUME TypeOK
    PROVE  /\ \A r \in ListRecord : /\ <<r>> \in Seq(ListRecord) /\ <<r>> # <<>>
                                    /\ Apply(acked, r) \subseteq Entry
           /\ \A S \in SUBSET Source :
                 /\ SourceRecords(S) \in Seq(ListRecord) /\ SourceRecords(S) # <<>>
                 /\ (acked \ Source) \cup S \subseteq Entry
<1>1. acked \subseteq Entry /\ <<>> \in Seq(ListRecord)
  BY DEF TypeOK
<1>2. ASSUME NEW r \in ListRecord
      PROVE  /\ <<r>> \in Seq(ListRecord) /\ <<r>> # <<>>
             /\ Apply(acked, r) \subseteq Entry
  BY <1>1 DEF Apply, Adds, Removes, ListRecord
<1>3. ASSUME NEW S \in SUBSET Source
      PROVE  /\ SourceRecords(S) \in Seq(ListRecord) /\ SourceRecords(S) # <<>>
             /\ (acked \ Source) \cup S \subseteq Entry
  BY <1>1, SourceRecordsFacts
<1>4. QED BY <1>2, <1>3

LEMMA ListCallType ==
    ASSUME TypeInv, ListCall
    PROVE  TypeInv'
<1>1. TypeOK
  BY DEF TypeInv
<1>2. ASSUME NEW r \in ListRecord, AppendRecord(r)
      PROVE  TypeInv'
  BY <1>1, <1>2, ListCallRecords, WriteRecordsType DEF AppendRecord
<1>3. ASSUME NEW S \in SUBSET Source, SaveSources(S)
      PROVE  TypeInv'
  BY <1>1, <1>3, ListCallRecords, WriteRecordsType DEF SaveSources
<1>4. QED BY <1>2, <1>3, RecordFacts DEF ListCall

\* How much the writer takes from the channel.
LEMMA DrainedFacts ==
    ASSUME TypeOK, queue # <<>>
    PROVE  Drained \in 1..Len(queue)
<1>1. Len(queue) \in Nat \ {0} /\ Len(batch) \in Nat
  BY EmptySeq, LenProperties DEF TypeOK
<1>2. QED BY <1>1 DEF Drained

LEMMA WriterType ==
    ASSUME TypeInv, Writer
    PROVE  TypeInv'
<1> USE DEF TypeInv
<1>1. CASE WriterReceive
  <2>1. Drained \in 1..Len(queue) /\ Len(queue) \in Nat
    BY <1>1, DrainedFacts, LenProperties DEF WriterReceive, TypeOK
  <2>2. /\ SubSeq(queue, 1, Drained) \in Seq(Nat)
        /\ SubSeq(queue, Drained + 1, Len(queue)) \in Seq(Nat)
    BY <2>1, SubSeqType DEF TypeOK
  <2>3. Len(SubSeq(queue, 1, Drained)) = Drained
    BY <2>1, SubSeqProperties, ElementOfSeq DEF TypeOK
  <2>4. /\ batch \o SubSeq(queue, 1, Drained) \in Seq(Nat)
        /\ Len(batch \o SubSeq(queue, 1, Drained)) = Len(batch) + Drained
        /\ Len(batch) \in Nat
    BY <2>2, <2>3, ConcatProperties, LenProperties DEF TypeOK
  <2>5. batch' # <<>>
    <3>1. Len(batch') # 0
      BY <1>1, <2>1, <2>4 DEF WriterReceive
    <3>2. QED BY <3>1, EmptySeq
  <2>6. TypeOK'
    BY <1>1, <2>2, <2>4 DEF WriterReceive, TypeOK, disk, compaction, promises
  <2>7. MutexInv'
    BY <1>1, <2>5 DEF WriterReceive, MutexInv, disk, compaction
  <2>8. QED BY <2>6, <2>7
<1>2. CASE WriterTick
  <2>1. TypeOK'
    BY <1>2 DEF WriterTick, TypeOK, disk, compaction, promises
  <2>2. MutexInv'
    BY <1>2 DEF WriterTick, MutexInv, disk, compaction
  <2>3. QED BY <2>1, <2>2
<1>3. CASE FlushBatch
  <2>1. Landed(batch) \in Seq(Nat)
    BY <1>3, LandedType DEF FlushBatch, TypeOK, MutexInv
  <2>2. events' \in Seq(Nat) /\ torn' \in TornLine \cup {Nothing}
    <3>1. events \in Seq(Nat) /\ torn \in TornLine \cup {Nothing}
      BY DEF TypeOK
    <3>2. events \o Landed(batch) \in Seq(Nat)
      BY <2>1, <3>1, ConcatProperties
    <3>3. CASE handle
      BY <1>3, <3>2, <3>3 DEF FlushBatch
    <3>4. CASE ~handle
      BY <1>3, <3>1, <3>4 DEF FlushBatch
    <3>5. QED BY <3>3, <3>4
  <2>3. TypeOK'
    BY <1>3, <2>2, EmptySeq DEF FlushBatch, TypeOK, compaction, promises
  <2>4. MutexInv'
    BY <1>3 DEF FlushBatch, MutexInv, compaction
  <2>5. QED BY <2>3, <2>4
<1>4. QED BY <1>1, <1>2, <1>3 DEF Writer

LEMMA CompactType ==
    ASSUME TypeInv, NEW c \in Compactor, Compact(c)
    PROVE  TypeInv'
<1> USE DEF TypeInv
<1>1. CASE CompactSignal(c)
  <2>1. TypeOK'
    BY <1>1 DEF CompactSignal, TypeOK, disk, writer, promises
  <2>2. MutexInv'
    BY <1>1 DEF CompactSignal, TypeOK, MutexInv, disk, writer
  <2>3. QED BY <2>1, <2>2
<1>2. CASE CompactRead(c)
  <2>1. image' \in Image
    <3>1. [log |-> <<>>, events |-> <<>>] \in Image
      BY EmptySeq DEF Image
    <3>2. QED BY <1>2, <3>1, CompactedFacts DEF CompactRead
  <2>2. TypeOK'
    BY <1>2, <2>1 DEF CompactRead, TypeOK, disk, writer, promises
  <2>3. MutexInv'
    BY <1>2, <2>1 DEF CompactRead, TypeOK, MutexInv, disk, writer
  <2>4. QED BY <2>2, <2>3
<1>3. CASE CompactWriteTemp(c)
  <2>1. image \in Image
    BY <1>3 DEF CompactWriteTemp, MutexInv
  <2>2. TypeOK'
    BY <1>3, <2>1 DEF CompactWriteTemp, TypeOK, writer, promises
  <2>3. MutexInv'
    BY <1>3, <2>1 DEF CompactWriteTemp, TypeOK, MutexInv, writer
  <2>4. QED BY <2>2, <2>3
<1>4. CASE CompactWriteFails(c)
  <2>1. TypeOK'
    BY <1>4 DEF CompactWriteFails, TypeOK, writer, promises
  <2>2. MutexInv'
    BY <1>4 DEF CompactWriteFails, TypeOK, MutexInv, writer
  <2>3. QED BY <2>1, <2>2
<1>5. CASE CompactRename(c)
  <2>1. temp \in Image
    BY <1>5 DEF CompactRename, MutexInv
  <2>2. temp.log \in Seq(ListRecord) /\ temp.events \in Seq(Nat)
    BY <2>1 DEF Image
  <2>3. TypeOK'
    BY <1>5, <2>2 DEF CompactRename, TypeOK, disk, writer, promises
  <2>4. MutexInv'
    BY <1>5 DEF CompactRename, TypeOK, MutexInv, disk, writer
  <2>5. QED BY <2>3, <2>4
<1>6. CASE CompactReopen(c)
  <2>1. TypeOK'
    BY <1>6 DEF CompactReopen, TypeOK, disk, writer, promises
  <2>2. MutexInv'
    BY <1>6 DEF CompactReopen, TypeOK, MutexInv, disk, writer
  <2>3. QED BY <2>1, <2>2
<1>7. QED BY <1>1, <1>2, <1>3, <1>4, <1>5, <1>6 DEF Compact

LEMMA ClearType ==
    ASSUME TypeInv, Clear
    PROVE  TypeInv'
<1> USE DEF TypeInv
<1>1. batch \o queue \in Seq(Nat)
  BY ConcatProperties DEF TypeOK
<1>2. /\ log' \in Seq(ListRecord) /\ events' \in Seq(Nat)
      /\ torn' \in TornLine \cup {Nothing}
  <2>1. CASE handle
    BY <2>1 DEF Clear
  <2>2. CASE ~handle
    BY <2>2 DEF Clear, TypeOK
  <2>3. QED BY <2>1, <2>2
<1>3. TypeOK'
  BY <1>1, <1>2 DEF Clear, TypeOK, compaction, writer
<1>4. MutexInv'
  BY DEF Clear, MutexInv, compaction, writer
<1>5. QED BY <1>3, <1>4

LEMMA SendEventType ==
    ASSUME TypeInv, SendEvent
    PROVE  TypeInv'
<1> USE DEF TypeInv
<1>1. sent' \in Nat
  BY DEF SendEvent, TypeOK
<1>2. queue' \in Seq(Nat) /\ accepted' \in Seq(Nat)
  <2>1. queue \in Seq(Nat) /\ accepted \in Seq(Nat)
    BY DEF TypeOK
  <2>2. Append(queue, sent') \in Seq(Nat) /\ Append(accepted, sent') \in Seq(Nat)
    BY <1>1, <2>1, AppendProperties
  <2>3. QED BY <2>1, <2>2 DEF SendEvent
<1>3. TypeOK'
  BY <1>1, <1>2 DEF SendEvent, TypeOK, disk, compaction, promises
<1>4. MutexInv'
  BY DEF SendEvent, MutexInv, disk, compaction
<1>5. QED BY <1>3, <1>4

\* The process dies: the disk is as well-formed as the dying step leaves it.
LEMMA DeathType ==
    ASSUME TypeInv, LoseMemory, accepted' \in Seq(Nat), sent' = sent,
           log' \in Seq(ListRecord), events' \in Seq(Nat),
           torn' \in TornLine \cup {Nothing}, temp' = temp,
           acked' \subseteq Entry, inflight' \subseteq Entry
    PROVE  TypeInv'
<1> USE DEF TypeInv
<1>1. TypeOK'
  <2>1. cpc' \in [Compactor -> {"idle", "waiting", "read", "synced", "renamed"}]
    BY DEF LoseMemory
  <2>2. queue' \in Seq(Nat) /\ batch' \in Seq(Nat) /\ wpc' \in {"idle", "flush"}
    BY EmptySeq DEF LoseMemory
  <2>3. up' \in BOOLEAN /\ handle' \in BOOLEAN /\ compacting' \in BOOLEAN
    BY DEF LoseMemory
  <2>4. lock' \in Compactor \cup {NoOne} /\ image' \in Image \cup {Nothing}
    BY DEF LoseMemory
  <2>5. temp' \in Image \cup {Nothing} /\ sent' \in Nat
    BY DEF TypeOK
  <2>6. QED BY <2>1, <2>2, <2>3, <2>4, <2>5 DEF TypeOK
<1>2. MutexInv'
  BY DEF LoseMemory, MutexInv
<1>3. QED BY <1>1, <1>2

LEMMA FlushedType ==
    ASSUME TypeOK
    PROVE  Flushed \in Seq(Nat)
<1>1. Len(accepted) \in Nat /\ Len(batch) \in Nat /\ Len(queue) \in Nat
  BY LenProperties DEF TypeOK
<1>2. Len(accepted) - Len(batch) - Len(queue) \in Int
  BY <1>1
<1>3. Len(accepted) - Len(batch) - Len(queue) <= Len(accepted)
  BY <1>1
<1>4. QED BY <1>2, <1>3, SubSeqType DEF Flushed, TypeOK

LEMMA WriteCutType ==
    ASSUME TypeOK, NEW R, NEW rs \in Seq(R), NEW kind, NEW k \in 0..Len(rs),
           NEW tear \in Tear, WriteCut(rs, kind, k, tear),
           \/ kind = "list" /\ R = ListRecord
           \/ kind = "event" /\ R = Nat
    PROVE  /\ log' \in Seq(ListRecord) /\ events' \in Seq(Nat)
           /\ torn' \in TornLine \cup {Nothing}
           /\ temp' = temp
<1> DEFINE whole == IF k = 0 THEN <<>> ELSE Landed(SubSeq(rs, 1, k))
<1>1. k \in Nat /\ k < Len(rs) /\ Len(rs) \in Nat
  BY LenProperties DEF WriteCut
<1>2. whole \in Seq(R)
  <2>1. CASE k = 0
    BY <2>1, EmptySeq
  <2>2. CASE k # 0
    <3>1. SubSeq(rs, 1, k) \in Seq(R)
      BY <1>1, SubSeqType
    <3>2. SubSeq(rs, 1, k) # <<>>
      <4>1. Len(SubSeq(rs, 1, k)) = k
        BY <1>1, <2>2, SubSeqProperties, ElementOfSeq
      <4>2. QED BY <4>1, <2>2, EmptySeq
    <3>3. QED BY <2>2, <3>1, <3>2, LandedType
  <2>3. QED BY <2>1, <2>2
<1>3. log' \in Seq(ListRecord) /\ events' \in Seq(Nat)
  <2>1. log \in Seq(ListRecord) /\ events \in Seq(Nat)
    BY DEF TypeOK
  <2>2. IF kind = "list" THEN log' = log \o whole /\ UNCHANGED events
                         ELSE events' = events \o whole /\ UNCHANGED log
    BY DEF WriteCut
  <2> HIDE DEF whole
  <2>3. CASE kind = "list" /\ R = ListRecord
    BY <1>2, <2>1, <2>2, <2>3, ConcatProperties
  <2>4. CASE kind = "event" /\ R = Nat
    BY <1>2, <2>1, <2>2, <2>4, ConcatProperties
  <2>5. QED BY <2>3, <2>4
<1>4. torn' \in TornLine \cup {Nothing}
  <2>1. rs[k + 1] \in R
    BY <1>1, ElementOfSeq
  <2> DEFINE s == tear = "payload" /\ (k > 0 \/ torn = Nothing)
  <2>2. s \in BOOLEAN
    OBVIOUS
  <2>3. torn' = IF tear = "none" THEN Nothing
                ELSE [kind |-> kind, rec |-> rs[k + 1], seen |-> s]
    BY DEF WriteCut
  <2> HIDE DEF s
  <2>4. CASE tear = "none"
    BY <2>3, <2>4
  <2>5. CASE tear # "none"
    BY <2>1, <2>2, <2>3, <2>5 DEF TornLine
  <2>6. QED BY <2>4, <2>5
<1>5. QED BY <1>3, <1>4 DEF WriteCut

LEMMA CrashType ==
    ASSUME TypeInv, Crash \/ CutListCall \/ CrashInFlush
    PROVE  TypeInv'
<1> USE DEF TypeInv
<1>1. CASE Crash
  <2>1. UNCHANGED <<log, events, torn, temp, sent, acked, inflight>>
    BY <1>1 DEF Crash, disk, promises
  <2>2. accepted' \in Seq(Nat) /\ LoseMemory
    BY <1>1, FlushedType DEF Crash
  <2>3. /\ log' \in Seq(ListRecord) /\ events' \in Seq(Nat)
        /\ torn' \in TornLine \cup {Nothing}
        /\ acked' \subseteq Entry /\ inflight' \subseteq Entry
    BY <2>1 DEF TypeOK
  <2>4. QED BY <2>1, <2>2, <2>3, DeathType
<1>2. ASSUME NEW rs \in Seq(ListRecord), NEW lists \in SUBSET Entry,
             CrashInCall(rs, lists)
      PROVE  TypeInv'
  <2>1. PICK k \in 0..Len(rs), tear \in Tear : WriteCut(rs, "list", k, tear)
    BY <1>2 DEF CrashInCall
  <2>2. /\ log' \in Seq(ListRecord) /\ events' \in Seq(Nat)
        /\ torn' \in TornLine \cup {Nothing} /\ temp' = temp
    BY <2>1, WriteCutType
  <2>3. accepted' \in Seq(Nat) /\ LoseMemory /\ sent' = sent
    BY <1>2, FlushedType DEF CrashInCall
  <2>4. acked' \subseteq Entry /\ inflight' \subseteq Entry
    BY <1>2 DEF CrashInCall, TypeOK
  <2>5. QED BY <2>2, <2>3, <2>4, DeathType
<1>3. CASE CutListCall
  <2>1. ASSUME NEW r \in ListRecord, CrashInCall(<<r>>, Apply(acked, r))
        PROVE  TypeInv'
    BY <1>2, <2>1, ListCallRecords
  <2>2. ASSUME NEW S \in SUBSET Source,
               CrashInCall(SourceRecords(S), (acked \ Source) \cup S)
        PROVE  TypeInv'
    BY <1>2, <2>2, ListCallRecords
  <2>3. QED BY <1>3, <2>1, <2>2, RecordFacts DEF CutListCall
<1>4. CASE CrashInFlush
  <2>1. PICK k \in 0..Len(batch), tear \in Tear :
          /\ WriteCut(batch, "event", k, tear)
          /\ accepted' = Flushed \o SubSeq(batch, 1, k)
    BY <1>4 DEF CrashInFlush
  <2>2. batch \in Seq(Nat) /\ Len(batch) \in Nat
    BY LenProperties DEF TypeOK
  <2>3. /\ log' \in Seq(ListRecord) /\ events' \in Seq(Nat)
        /\ torn' \in TornLine \cup {Nothing} /\ temp' = temp
    BY <2>1, <2>2, WriteCutType
  <2>4. SubSeq(batch, 1, k) \in Seq(Nat)
    BY <2>2, SubSeqType
  <2>5. accepted' \in Seq(Nat)
    BY <2>1, <2>4, FlushedType, ConcatProperties
  <2>6. /\ LoseMemory /\ sent' = sent
        /\ acked' \subseteq Entry /\ inflight' \subseteq Entry
    BY <1>4 DEF CrashInFlush, promises, TypeOK
  <2>7. QED BY <2>3, <2>5, <2>6, DeathType
<1>5. QED BY <1>1, <1>3, <1>4

LEMMA RestartType ==
    ASSUME TypeInv, Restart
    PROVE  TypeInv'
<1>1. Lists \subseteq Entry
  BY VisibleType DEF TypeInv
<1>2. TypeOK'
  BY <1>1 DEF Restart, TypeInv, TypeOK, disk, compaction, writer
<1>3. MutexInv'
  BY DEF Restart, TypeInv, MutexInv, disk, compaction, writer
<1>4. QED BY <1>2, <1>3 DEF TypeInv

\* One step of the system, whatever it is.
LEMMA StepTypeInv == TypeInv /\ [Next]_vars => TypeInv'
<1> SUFFICES ASSUME TypeInv, [Next]_vars PROVE TypeInv'
  OBVIOUS
<1>1. CASE UNCHANGED vars
  <2>1. TypeOK'
    BY <1>1 DEF TypeInv, TypeOK, vars, disk, compaction, writer, promises
  <2>2. MutexInv'
    BY <1>1 DEF TypeInv, MutexInv, vars, disk, compaction, writer
  <2>3. QED BY <2>1, <2>2 DEF TypeInv
<1>2. CASE ListCall
  BY <1>2, ListCallType
<1>3. CASE Clear
  BY <1>3, ClearType
<1>4. CASE SendEvent
  BY <1>4, SendEventType
<1>5. CASE Writer
  BY <1>5, WriterType
<1>6. CASE \E c \in Compactor : Compact(c)
  BY <1>6, CompactType
<1>7. CASE Crash \/ CutListCall \/ CrashInFlush
  BY <1>7, CrashType
<1>8. CASE Restart
  BY <1>8, RestartType
<1>9. QED BY <1>1, <1>2, <1>3, <1>4, <1>5, <1>6, <1>7, <1>8 DEF Next

\* Type correctness of the log, whatever fails: wal.rs:36-64 and the steps of
\* every method that touches that state.
THEOREM TypeCorrect == Spec => []TypeOK
<1>1. TypeInv => TypeOK
  BY DEF TypeInv
<1>2. QED BY <1>1, InitTypeInv, StepTypeInv, PTL DEF Spec

-----------------------------------------------------------------------------
(* Durability.  TypeInv says who holds the mutex; DurableInv adds what the  *)
(* file, the image and the temporary file replay to at every stage of a     *)
(* compaction, which is what makes durability inductive.                    *)

\* Lines are written whole and files open: only the temporary file and the
\* rename may fail.
Reliable == Faults \subseteq {"temp", "rename"}

FullInv == TypeInv /\ DurableInv

\* A state in which nothing that durability speaks of has changed.
LEMMA SameDurable ==
    ASSUME DurableInv,
           UNCHANGED <<log, torn, temp, up, handle, cpc, image, acked, inflight>>
    PROVE  DurableInv'
BY DEF DurableInv

LEMMA InitDurable == Init => DurableInv
<1> SUFFICES ASSUME Init PROVE DurableInv
  OBVIOUS
<1>1. Replay(log) = {}
  <2>1. log = <<>> /\ DOMAIN log = {}
    BY DEF Init
  <2>2. QED BY <2>1 DEF Replay
<1>2. QED BY <1>1 DEF Init, DurableInv

\* Holding the mutex free means no compaction is past its first step.
LEMMA FreeMutex ==
    ASSUME TypeInv, DurableInv, up, lock = NoOne
    PROVE  handle /\ \A c \in Compactor : cpc[c] \notin {"read", "synced", "renamed"}
BY DEF TypeInv, MutexInv, DurableInv

LEMMA WriteRecordsDurable ==
    ASSUME FullInv, NEW rs \in Seq(ListRecord), NEW lists,
           WriteRecords(rs, lists), Replay(log \o rs) = lists
    PROVE  DurableInv'
<1>1. handle /\ \A c \in Compactor : cpc[c] \notin {"read", "synced", "renamed"}
  BY FreeMutex DEF FullInv, WriteRecords
<1>2. torn = Nothing /\ Landed(rs) = rs
  BY DEF FullInv, DurableInv, Landed
<1>3. log' = log \o rs /\ torn' = Nothing
  BY <1>1, <1>2 DEF WriteRecords
<1>4. acked' = lists /\ inflight' = lists /\ cpc' = cpc /\ handle' = handle
  BY DEF WriteRecords, compaction
<1>5. QED BY <1>1, <1>3, <1>4 DEF DurableInv

LEMMA ListCallDurable ==
    ASSUME FullInv, ListCall
    PROVE  DurableInv'
<1>1. log \in Seq(ListRecord) /\ acked = Replay(log) /\ TypeOK
  BY DEF FullInv, TypeInv, TypeOK, DurableInv
<1>2. ASSUME NEW r \in ListRecord, AppendRecord(r)
      PROVE  DurableInv'
  <2>1. Replay(log \o <<r>>) = Apply(acked, r)
    BY <1>1, ReplayAppend
  <2>2. <<r>> \in Seq(ListRecord)
    BY <1>1, ListCallRecords
  <2>3. QED BY <1>2, <2>1, <2>2, WriteRecordsDurable DEF AppendRecord
<1>3. ASSUME NEW S \in SUBSET Source, SaveSources(S)
      PROVE  DurableInv'
  BY <1>1, <1>3, SourceRecordsFacts, WriteRecordsDurable DEF SaveSources
<1>4. QED BY <1>2, <1>3, RecordFacts DEF ListCall

LEMMA ClearDurable ==
    ASSUME FullInv, Clear
    PROVE  DurableInv'
<1>1. handle /\ \A c \in Compactor : cpc[c] \notin {"read", "synced", "renamed"}
  BY FreeMutex DEF FullInv, Clear
<1>2. log' = <<>> /\ torn' = Nothing
  BY <1>1 DEF Clear
<1>3. Replay(log') = {}
  <2>1. DOMAIN log' = {}
    BY <1>2
  <2>2. QED BY <2>1 DEF Replay
<1>4. acked' = {} /\ inflight' = {} /\ cpc' = cpc /\ handle' = handle
  BY DEF Clear, compaction
<1>5. QED BY <1>1, <1>2, <1>3, <1>4 DEF DurableInv

LEMMA WriterDurable ==
    ASSUME FullInv, Writer
    PROVE  DurableInv'
<1>1. CASE WriterReceive \/ WriterTick
  BY <1>1, SameDurable DEF FullInv, WriterReceive, WriterTick, disk, compaction,
                           promises
<1>2. CASE FlushBatch
  <2>1. torn = Nothing /\ torn' = Nothing
    <3>1. torn = Nothing
      BY DEF FullInv, DurableInv
    <3>2. QED BY <1>2, <3>1 DEF FlushBatch
  <2>2. QED BY <1>2, <2>1, SameDurable DEF FullInv, FlushBatch, compaction, promises
<1>3. QED BY <1>1, <1>2 DEF Writer

LEMMA CompactDurable ==
    ASSUME Reliable, FullInv, NEW c \in Compactor, Compact(c)
    PROVE  DurableInv'
<1> USE DEF FullInv, TypeInv
<1>1. cpc \in [Compactor -> {"idle", "waiting", "read", "synced", "renamed"}]
  BY DEF TypeOK
<1>2. \A d \in Compactor : cpc[d] \in {"read", "synced", "renamed"} /\
                             cpc[c] \in {"read", "synced", "renamed"} => d = c
  BY DEF MutexInv
<1>3. CASE CompactSignal(c)
  BY <1>1, <1>3 DEF CompactSignal, DurableInv, disk, promises
<1>4. CASE CompactRead(c)
  <2>1. Lists = acked
    BY DEF Lists, VisibleLog, DurableInv
  <2>2. image' = Compacted /\ lock = NoOne /\ up
    BY <1>4 DEF CompactRead, Reliable
  <2>3. Replay(image'.log) = acked
    BY <2>1, <2>2, CompactedFacts
  <2>4. handle /\ \A d \in Compactor : cpc[d] \notin {"read", "synced", "renamed"}
    BY <2>2, FreeMutex
  <2>5. cpc' = [cpc EXCEPT ![c] = "read"]
    BY <1>4 DEF CompactRead
  <2>6. UNCHANGED <<log, torn, temp, up, handle, acked, inflight>>
    BY <1>4 DEF CompactRead, disk, promises
  <2>7. QED BY <1>1, <2>3, <2>4, <2>5, <2>6 DEF DurableInv
<1>5. CASE CompactWriteTemp(c)
  <2>1. Replay(image.log) = acked /\ temp' = image
    BY <1>5 DEF CompactWriteTemp, DurableInv
  <2>2. cpc' = [cpc EXCEPT ![c] = "synced"] /\ cpc[c] = "read"
    BY <1>5 DEF CompactWriteTemp
  <2>3. UNCHANGED <<log, torn, up, handle, image, acked, inflight>>
    BY <1>5 DEF CompactWriteTemp, promises
  <2>4. QED BY <1>1, <1>2, <2>1, <2>2, <2>3 DEF DurableInv
<1>6. CASE CompactWriteFails(c)
  <2>1. cpc' = [cpc EXCEPT ![c] = "idle"] /\ cpc[c] = "read"
    BY <1>6 DEF CompactWriteFails
  <2>2. UNCHANGED <<log, torn, up, handle, acked, inflight>>
    BY <1>6 DEF CompactWriteFails, promises
  <2>3. \A d \in Compactor : cpc'[d] \notin {"read", "synced", "renamed"}
    BY <1>1, <1>2, <2>1
  <2>4. up => handle
    BY <1>1, <1>2, <2>1 DEF DurableInv
  <2>5. QED BY <2>2, <2>3, <2>4 DEF DurableInv
<1>7. CASE CompactRename(c)
  <2>1. cpc' = [cpc EXCEPT ![c] = "renamed"] /\ cpc[c] = "synced"
    BY <1>7 DEF CompactRename
  <2>2. Replay(temp.log) = acked /\ acked = Replay(log) /\ torn = Nothing
    BY <2>1 DEF DurableInv
  <2>3. torn' = Nothing /\ Replay(log') = acked
    BY <1>7, <2>2 DEF CompactRename, disk
  <2>4. UNCHANGED <<up, acked, inflight>> /\ inflight = acked
    BY <1>7 DEF CompactRename, promises, DurableInv
  <2>5. \A d \in Compactor : cpc'[d] \notin {"read", "synced"}
    BY <1>1, <1>2, <2>1
  <2>6. cpc'[c] = "renamed"
    BY <1>1, <2>1
  <2>7. QED BY <2>3, <2>4, <2>5, <2>6 DEF DurableInv
<1>8. CASE CompactReopen(c)
  <2>1. cpc' = [cpc EXCEPT ![c] = "idle"] /\ cpc[c] = "renamed"
    BY <1>8 DEF CompactReopen
  <2>2. handle' = TRUE
    BY <1>8 DEF CompactReopen, Reliable
  <2>3. UNCHANGED <<log, torn, up, acked, inflight>>
    BY <1>8 DEF CompactReopen, disk, promises
  <2>4. \A d \in Compactor : cpc'[d] \notin {"read", "synced", "renamed"}
    BY <1>1, <1>2, <2>1
  <2>5. QED BY <2>2, <2>3, <2>4 DEF DurableInv
<1>9. QED BY <1>3, <1>4, <1>5, <1>6, <1>7, <1>8 DEF Compact

\* Without torn lines no call is cut off half-way, so a crash leaves the disk
\* as it was.
LEMMA CrashDurable ==
    ASSUME Reliable, FullInv, Crash \/ CutListCall \/ CrashInFlush
    PROVE  DurableInv'
<1>1. ASSUME NEW rs, NEW kind, NEW k, NEW tear, WriteCut(rs, kind, k, tear),
             k \in Nat
      PROVE  FALSE
  BY <1>1 DEF WriteCut, Reliable
<1>2. Crash
  <2>1. ~CrashInFlush
    BY <1>1 DEF CrashInFlush
  <2>2. \A rs, lists : ~CrashInCall(rs, lists)
    BY <1>1 DEF CrashInCall
  <2>3. QED BY <2>1, <2>2 DEF CutListCall
<1>3. UNCHANGED <<log, torn, temp, acked, inflight>> /\ LoseMemory
  BY <1>2 DEF Crash, disk, promises
<1>4. up' = FALSE /\ \A c \in Compactor : cpc'[c] = "idle"
  BY <1>3 DEF LoseMemory
<1>5. QED BY <1>3, <1>4 DEF FullInv, DurableInv

LEMMA RestartDurable ==
    ASSUME Reliable, FullInv, Restart
    PROVE  DurableInv'
<1>1. Lists = Replay(log) /\ handle' = TRUE
  BY DEF FullInv, DurableInv, Lists, VisibleLog, Restart, Reliable
<1>2. /\ UNCHANGED <<log, torn, temp, cpc, image>>
      /\ acked' = Lists /\ inflight' = Lists
  BY DEF Restart, disk, compaction
<1>3. acked = Lists
  BY <1>1 DEF FullInv, DurableInv
<1>4. QED BY <1>1, <1>2, <1>3 DEF FullInv, DurableInv

LEMMA StepDurable ==
    ASSUME Reliable
    PROVE  FullInv /\ [Next]_vars => FullInv'
<1> SUFFICES ASSUME FullInv, [Next]_vars PROVE FullInv'
  OBVIOUS
<1>1. TypeInv'
  BY StepTypeInv DEF FullInv
<1>2. DurableInv'
  <2>1. CASE UNCHANGED vars
    BY <2>1, SameDurable DEF FullInv, vars, disk, compaction, promises
  <2>2. CASE ListCall
    BY <2>2, ListCallDurable
  <2>3. CASE Clear
    BY <2>3, ClearDurable
  <2>4. CASE SendEvent
    BY <2>4, SameDurable DEF FullInv, SendEvent, disk, compaction, promises
  <2>5. CASE Writer
    BY <2>5, WriterDurable
  <2>6. CASE \E c \in Compactor : Compact(c)
    BY <2>6, CompactDurable
  <2>7. CASE Crash \/ CutListCall \/ CrashInFlush
    BY <2>7, CrashDurable
  <2>8. CASE Restart
    BY <2>8, RestartDurable
  <2>9. QED BY <2>1, <2>2, <2>3, <2>4, <2>5, <2>6, <2>7, <2>8 DEF Next
<1>3. QED BY <1>1, <1>2 DEF FullInv

\* When lines are written whole and files open, whatever the interleaving of
\* calls, compactions (two at a time included), failed renames and crashes, a
\* replay of the file yields the lists of the calls that returned: the comment
\* "must be durable" of wal.rs:268, and compact() of wal.rs:493-672.
THEOREM Durability ==
    ASSUME Reliable
    PROVE  Spec => []AckedIsDurable
<1>1. Init => FullInv
  BY InitTypeInv, InitDurable DEF FullInv
<1>2. FullInv /\ [Next]_vars => FullInv'
  BY StepDurable
<1>3. FullInv => AckedIsDurable
  BY DEF FullInv, DurableInv, AckedIsDurable, Lists, VisibleLog
<1>4. QED BY <1>1, <1>2, <1>3, PTL DEF Spec

-----------------------------------------------------------------------------
(* The order of the events.  What entered the channel is what was written,  *)
(* then the batch, then the queue; what was written ends in what the file   *)
(* holds.  That is inductive only with what an image and a temporary file   *)
(* have of the events, which no writer touches while a compaction holds the *)
(* mutex.                                                                   *)

HIDE ConstantsAssumption

\* Events are numbered; nothing below counts with the numbers.
EventId == Nat

\* f was written, and the batch and the queue are what is left of accepted.
Written(f) == accepted = f \o (batch \o queue)

\* The file holds an end of f: all of it, or EventKeep events at least.
EndsInFile(f) ==
    \E p \in Seq(EventId) : /\ f = p \o events
                            /\ p = <<>> \/ Len(events) >= EventKeep

ImagesKeep ==
    \A c \in Compactor :
        /\ cpc[c] = "read" => image.events = LastN(events, EventKeep)
        /\ cpc[c] = "synced" => temp.events = LastN(events, EventKeep)

EventInv ==
    /\ \E f \in Seq(EventId) : Written(f) /\ EndsInFile(f)
    /\ ImagesKeep

\* Three sequences of events in a row.
Joins(s, t, u) == (s \o t) \o u = s \o (t \o u)

LEMMA Joined ==
    \A s, t, u \in Seq(EventId) : Joins(s, t, u)
BY ConcatAssociative DEF Joins

\* What the writer takes from the queue keeps its place behind the batch.
LEMMA TakenInOrder ==
    ASSUME NEW b \in Seq(EventId), NEW q \in Seq(EventId), NEW n \in 1..Len(q)
    PROVE  (b \o SubSeq(q, 1, n)) \o SubSeq(q, n + 1, Len(q)) = b \o q
<1>1. Len(q) \in Nat
  BY LenProperties
<1>2. PICK t \in Seq(EventId), l \in Seq(EventId) :
         t = SubSeq(q, 1, n) /\ l = SubSeq(q, n + 1, Len(q))
  <2>1. SubSeq(q, 1, n) \in Seq(EventId)
    BY <1>1, SubSeqType
  <2>2. SubSeq(q, n + 1, Len(q)) \in Seq(EventId)
    BY <1>1, SubSeqType
  <2>3. QED BY <2>1, <2>2
<1>3. t \o l = q
  <2>1. /\ 1 \in 1..(Len(q) + 1) /\ n \in (1 - 1)..Len(q)
        /\ Len(q) \in n..Len(q)
    BY <1>1
  <2>2. SubSeq(q, 1, n) \o SubSeq(q, n + 1, Len(q)) = SubSeq(q, 1, Len(q))
    BY <2>1, ConcatAdjacentSubSeq
  <2>3. QED BY <1>2, <2>2, SubSeqFull
<1>4. Joins(b, t, l)
  BY Joined
<1>5. QED BY <1>2, <1>3, <1>4 DEF Joins

\* LastN cuts off a beginning, and nothing when there is little.
LEMMA LastNFacts ==
    ASSUME NEW S, NEW s \in Seq(S), NEW n \in Nat
    PROVE  \E d \in Seq(S) : /\ s = d \o LastN(s, n)
                             /\ d = <<>> \/ Len(LastN(s, n)) >= n
<1>1. Len(s) \in Nat
  BY LenProperties
<1>2. CASE Len(s) > n
  <2> DEFINE k == Len(s) - n
  <2>1. k \in Nat /\ k <= Len(s) /\ k + 1 = Len(s) - n + 1
    BY <1>1, <1>2
  <2>2. LastN(s, n) = SubSeq(s, k + 1, Len(s))
    BY <1>2 DEF LastN
  <2>3. /\ 1 \in 1..(Len(s) + 1) /\ k \in (1 - 1)..Len(s)
        /\ Len(s) \in k..Len(s)
    BY <1>1, <2>1
  <2>4. SubSeq(s, 1, k) \o SubSeq(s, k + 1, Len(s)) = SubSeq(s, 1, Len(s))
    <3> HIDE DEF k
    <3>1. QED BY <2>3, ConcatAdjacentSubSeq
  <2>5. SubSeq(s, 1, k) \in Seq(S)
    BY <1>1, <2>1, SubSeqType
  <2>6. Len(SubSeq(s, k + 1, Len(s))) >= n
    <3>1. \A i \in (k + 1)..Len(s) : s[i] \in S
      BY <1>1, <2>1, ElementOfSeq
    <3>2. Len(SubSeq(s, k + 1, Len(s))) =
            IF k + 1 <= Len(s) THEN Len(s) - (k + 1) + 1 ELSE 0
      <4>1. k + 1 \in Int /\ Len(s) \in Int
        BY <1>1, <2>1
      <4> HIDE DEF k
      <4>2. QED BY <3>1, <4>1, SubSeqProperties
    <3>3. QED BY <1>1, <2>1, <3>2
  <2> HIDE DEF k
  <2>7. s = SubSeq(s, 1, k) \o LastN(s, n)
    BY <2>2, <2>4, SubSeqFull
  <2>8. QED BY <2>2, <2>5, <2>6, <2>7
<1>3. CASE ~(Len(s) > n)
  <2>1. LastN(s, n) = s
    BY <1>3, SubSeqFull DEF LastN
  <2>2. <<>> \in Seq(S) /\ s = <<>> \o s
    BY ConcatEmptySeq
  <2>3. QED BY <2>1, <2>2
<1>4. QED BY <1>2, <1>3

\* What was written is the beginning of what was accepted.
LEMMA WrittenFacts ==
    ASSUME TypeOK, NEW f \in Seq(EventId), Written(f)
    PROVE  /\ Len(f) = Len(accepted) - Len(batch) - Len(queue)
           /\ SubSeq(accepted, 1, Len(f)) = f
           /\ Flushed = f
<1> DEFINE rest == batch \o queue
<1>1. batch \in Seq(EventId) /\ queue \in Seq(EventId)
  BY DEF TypeOK, EventId
<1>2. rest \in Seq(EventId) /\ Len(rest) = Len(batch) + Len(queue)
  BY <1>1, ConcatProperties
<1>3. accepted = f \o rest
  BY DEF Written
<1> HIDE DEF rest
<1>4. Len(accepted) = Len(f) + Len(rest)
  BY <1>2, <1>3, ConcatProperties
<1>5. Len(f) \in Nat /\ Len(batch) \in Nat /\ Len(queue) \in Nat
  BY <1>1, LenProperties
<1>6. Len(f) = Len(accepted) - Len(batch) - Len(queue)
  BY <1>2, <1>4, <1>5
<1>7. SubSeq(accepted, 1, Len(f)) = f
  <2>1. CASE Len(f) = 0
    <3>1. f = <<>> /\ SubSeq(accepted, 1, 0) = <<>>
      BY <2>1, EmptySeq, SubSeqEmpty
    <3>2. QED BY <2>1, <3>1
  <2>2. CASE Len(f) # 0
    <3>1. 1 \in 1..Len(f) /\ Len(f) \in 1..Len(f)
      BY <1>5, <2>2
    <3>2. SubSeq(f \o rest, 1, Len(f)) = SubSeq(f, 1, Len(f))
      BY <1>2, <3>1, SubSeqOfConcat1
    <3>3. QED BY <1>3, <3>2, SubSeqFull
  <2>3. QED BY <2>1, <2>2
<1>8. QED BY <1>6, <1>7 DEF Flushed

\* The invariant says what the property asks.
LEMMA EventInvOrders ==
    ASSUME TypeOK, EventInv
    PROVE  EventsInOrder
<1>1. PICK f \in Seq(EventId) : Written(f) /\ EndsInFile(f)
  BY DEF EventInv
<1>2. PICK p \in Seq(EventId) : /\ f = p \o events
                                /\ p = <<>> \/ Len(events) >= EventKeep
  BY <1>1 DEF EndsInFile
<1>3. /\ batch \in Seq(EventId) /\ queue \in Seq(EventId) /\ events \in Seq(EventId)
      /\ accepted \in Seq(EventId)
  BY DEF TypeOK, EventId
<1>4. /\ Len(f) = Len(accepted) - Len(batch) - Len(queue)
      /\ SubSeq(accepted, 1, Len(f)) = f
  BY <1>1, WrittenFacts
<1>5. Len(f) = Len(p) + Len(events)
  BY <1>2, <1>3, ConcatProperties
<1>6. Len(p) \in Nat /\ Len(events) \in Nat /\ Len(f) \in Nat
  BY <1>3, LenProperties
<1>7. accepted = (f \o batch) \o queue
  <2>1. Joins(f, batch, queue)
    BY <1>3, Joined
  <2>2. QED BY <1>1, <2>1 DEF Written, Joins
<1>8. SubSeq(accepted, Len(p) + 1, Len(f)) = events
  <2>1. CASE Len(events) = 0
    <3>1. events = <<>>
      BY <1>3, <2>1, EmptySeq
    <3>2. Len(p) + 1 \in Int /\ Len(f) \in Int /\ Len(f) < Len(p) + 1
      BY <1>5, <1>6, <2>1
    <3>3. QED BY <3>1, <3>2, SubSeqEmpty
  <2>2. CASE Len(events) # 0
    <3> DEFINE rest == batch \o queue
    <3>1. rest \in Seq(EventId) /\ accepted = f \o rest
      BY <1>1, <1>3, ConcatProperties DEF Written
    <3> HIDE DEF rest
    <3> DEFINE m == Len(p) + 1
               n == Len(f)
    <3>2. /\ m \in 1..Len(f) /\ n \in 1..Len(f)
          /\ m \in (Len(p) + 1)..(Len(p) + Len(events))
          /\ n \in (Len(p) + 1)..(Len(p) + Len(events))
          /\ m - Len(p) = 1 /\ n - Len(p) = Len(events)
      BY <1>5, <1>6, <2>2
    <3> HIDE DEF m, n
    <3>3. SubSeq(f \o rest, m, n) = SubSeq(f, m, n)
      BY <3>1, <3>2, SubSeqOfConcat1
    <3>4. SubSeq(p \o events, m, n) = SubSeq(events, m - Len(p), n - Len(p))
      BY <1>3, <3>2, SubSeqOfConcat2
    <3>5. SubSeq(events, 1, Len(events)) = events
      BY <1>3, SubSeqFull
    <3>6. SubSeq(accepted, m, n) = events
      BY <1>2, <3>1, <3>2, <3>3, <3>4, <3>5
    <3>7. QED BY <3>6 DEF m, n
  <2>3. QED BY <2>1, <2>2
<1>9. Len(p) + 1 = 1 \/ Len(events) >= EventKeep
  <2>1. p = <<>> => Len(p) = 0
    BY EmptySeq
  <2>2. QED BY <1>2, <1>6, <2>1
<1>10. Len(p) + 1 \in 1..(Len(f) + 1)
  BY <1>5, <1>6
<1> DEFINE n == Len(accepted) - Len(batch) - Len(queue)
<1>11. n = Len(f) /\ n >= 0
  BY <1>4, <1>6
<1> HIDE DEF n
<1>12. accepted = SubSeq(accepted, 1, n) \o batch \o queue
  BY <1>4, <1>7, <1>11
<1>13. \E k \in 1..(n + 1) : /\ events = SubSeq(accepted, k, n)
                             /\ k = 1 \/ Len(events) >= EventKeep
  BY <1>8, <1>9, <1>10, <1>11
<1>14. QED BY <1>11, <1>12, <1>13 DEF EventsInOrder, n

\* A step that leaves the events and who compacts alone.
LEMMA SameEvents ==
    ASSUME EventInv, UNCHANGED <<events, temp, cpc, image, queue, batch, accepted>>
    PROVE  EventInv'
BY DEF EventInv, Written, EndsInFile, ImagesKeep

LEMMA InitEvents == Init => EventInv
<1> SUFFICES ASSUME Init PROVE EventInv
  OBVIOUS
<1>1. <<>> \in Seq(EventId) /\ <<>> = <<>> \o (<<>> \o <<>>) /\ <<>> = <<>> \o <<>>
  <2>1. <<>> \in Seq(EventId)
    OBVIOUS
  <2>2. QED BY <2>1, ConcatEmptySeq
<1>2. QED BY <1>1 DEF Init, EventInv, Written, EndsInFile, ImagesKeep

LEMMA ListCallEvents ==
    ASSUME EventInv, ListCall
    PROVE  EventInv'
<1>1. ASSUME NEW rs, NEW lists, WriteRecords(rs, lists)
      PROVE  EventInv'
  BY <1>1, SameEvents DEF WriteRecords, compaction, writer
<1>2. QED BY <1>1 DEF ListCall, AppendRecord, SaveSources

LEMMA ClearEvents ==
    ASSUME FullInv, Clear
    PROVE  EventInv'
<1>1. handle /\ \A c \in Compactor : cpc[c] \notin {"read", "synced", "renamed"}
  BY FreeMutex DEF FullInv, Clear
<1>2. /\ events' = <<>> /\ accepted' = batch \o queue
      /\ batch' = batch /\ queue' = queue /\ cpc' = cpc
  BY <1>1 DEF Clear, compaction, writer
<1>3. batch \o queue \in Seq(EventId) /\ <<>> \in Seq(EventId)
  BY ConcatProperties DEF FullInv, TypeInv, TypeOK, EventId
<1>4. batch \o queue = <<>> \o (batch \o queue) /\ <<>> = <<>> \o <<>>
  BY <1>3, ConcatEmptySeq
<1>5. Written(<<>>)' /\ EndsInFile(<<>>)'
  BY <1>2, <1>3, <1>4 DEF Written, EndsInFile
<1>6. ImagesKeep'
  BY <1>1, <1>2 DEF ImagesKeep
<1>7. QED BY <1>3, <1>5, <1>6 DEF EventInv

LEMMA SendEvents ==
    ASSUME TypeOK, EventInv, SendEvent
    PROVE  EventInv'
<1>1. PICK f \in Seq(EventId) : Written(f) /\ EndsInFile(f)
  BY DEF EventInv
<1>2. /\ sent' \in Nat /\ queue \in Seq(EventId) /\ batch \in Seq(EventId)
      /\ accepted \in Seq(EventId)
  BY DEF SendEvent, TypeOK, EventId
<1>3. Written(f)'
  <2>1. CASE UNCHANGED <<queue, accepted>>
    BY <1>1, <2>1 DEF SendEvent, Written
  <2>2. CASE queue' = Append(queue, sent') /\ accepted' = Append(accepted, sent')
    <3> DEFINE one == <<sent'>>
    <3>1. one \in Seq(EventId)
      BY <1>2 DEF EventId
    <3>2. Append(queue, sent') = queue \o one
          /\ Append(accepted, sent') = accepted \o one
      BY <1>2, AppendIsConcat
    <3> HIDE DEF one
    <3>3. batch \o queue \in Seq(EventId)
      BY <1>2, ConcatProperties
    <3>4. Joins(f, batch \o queue, one) /\ Joins(batch, queue, one)
      BY <1>2, <3>1, <3>3, Joined
    <3>5. batch' = batch
      BY DEF SendEvent
    <3>6. QED BY <1>1, <2>2, <3>2, <3>4, <3>5 DEF Written, Joins
  <2>3. QED BY <2>1, <2>2 DEF SendEvent
<1>4. EndsInFile(f)' /\ ImagesKeep'
  BY <1>1 DEF SendEvent, disk, compaction, EndsInFile, EventInv, ImagesKeep
<1>5. QED BY <1>3, <1>4 DEF EventInv

LEMMA WriterEvents ==
    ASSUME FullInv, EventInv, Writer
    PROVE  EventInv'
<1>1. PICK f \in Seq(EventId) : Written(f) /\ EndsInFile(f)
  BY DEF EventInv
<1>2. PICK p \in Seq(EventId) : /\ f = p \o events
                                /\ p = <<>> \/ Len(events) >= EventKeep
  BY <1>1 DEF EndsInFile
<1>3. /\ queue \in Seq(EventId) /\ batch \in Seq(EventId) /\ events \in Seq(EventId)
  BY DEF FullInv, TypeInv, TypeOK, EventId
<1>4. CASE WriterReceive
  <2>1. Drained \in 1..Len(queue)
    BY <1>3, <1>4, DrainedFacts, LenProperties DEF WriterReceive, FullInv, TypeInv
  <2>2. /\ batch' = batch \o SubSeq(queue, 1, Drained)
        /\ queue' = SubSeq(queue, Drained + 1, Len(queue))
    BY <1>4 DEF WriterReceive
  <2>3. UNCHANGED <<events, temp, cpc, image, accepted>>
    BY <1>4 DEF WriterReceive, disk, compaction
  <2>4. batch' \o queue' = batch \o queue
    <3>1. (batch \o SubSeq(queue, 1, Drained)) \o
            SubSeq(queue, Drained + 1, Len(queue)) = batch \o queue
      BY <1>3, <2>1, TakenInOrder
    <3>2. QED BY <2>2, <3>1
  <2>5. Written(f)'
    BY <1>1, <2>3, <2>4 DEF Written
  <2>6. EndsInFile(f)' /\ ImagesKeep'
    BY <1>1, <2>3 DEF EndsInFile, EventInv, ImagesKeep
  <2>7. QED BY <2>5, <2>6 DEF EventInv
<1>5. CASE WriterTick
  BY <1>5, SameEvents DEF WriterTick, disk, compaction
<1>6. CASE FlushBatch
  <2>1. handle /\ \A c \in Compactor : cpc[c] \notin {"read", "synced", "renamed"}
    BY <1>6, FreeMutex DEF FullInv, FlushBatch
  <2>2. torn = Nothing
    BY DEF FullInv, DurableInv
  <2>3. /\ events' = events \o batch /\ batch' = <<>> /\ queue' = queue
        /\ accepted' = accepted /\ cpc' = cpc
    BY <1>6, <2>1, <2>2 DEF FlushBatch, Landed, compaction
  <2>4. PICK g \in Seq(EventId) : g = f \o batch
    BY <1>3, ConcatProperties
  <2>5. Written(g)'
    <3>1. Joins(f, batch, queue)
      BY <1>3, Joined
    <3>2. <<>> \o queue = queue
      BY <1>3, ConcatEmptySeq
    <3>3. accepted = g \o queue
      BY <1>1, <2>4, <3>1 DEF Written, Joins
    <3>4. QED BY <2>3, <3>2, <3>3 DEF Written
  <2>6. EndsInFile(g)'
    <3>1. Joins(p, events, batch)
      BY <1>3, Joined
    <3>2. g = p \o events'
      BY <1>2, <2>3, <2>4, <3>1 DEF Joins
    <3>3. /\ Len(events') = Len(events) + Len(batch)
          /\ Len(events) \in Nat /\ Len(batch) \in Nat
      BY <1>3, <2>3, ConcatProperties, LenProperties
    <3>4. p = <<>> \/ Len(events') >= EventKeep
      BY <1>2, <3>3, ConstantsAssumption
    <3>5. QED BY <3>2, <3>4 DEF EndsInFile
  <2>7. ImagesKeep'
    BY <2>1, <2>3 DEF ImagesKeep
  <2>8. QED BY <2>5, <2>6, <2>7 DEF EventInv
<1>7. QED BY <1>4, <1>5, <1>6 DEF Writer

LEMMA CompactEvents ==
    ASSUME Reliable, FullInv, EventInv, NEW c \in Compactor, Compact(c)
    PROVE  EventInv'
<1>1. cpc \in [Compactor -> {"idle", "waiting", "read", "synced", "renamed"}]
  BY DEF FullInv, TypeInv, TypeOK, EventId
<1>2. \A d \in Compactor : cpc[d] \in {"read", "synced", "renamed"} /\
                             cpc[c] \in {"read", "synced", "renamed"} => d = c
  BY DEF FullInv, TypeInv, MutexInv
<1>3. PICK f \in Seq(EventId) : Written(f) /\ EndsInFile(f)
  BY DEF EventInv
<1>4. ASSUME UNCHANGED <<events, queue, batch, accepted>>, ImagesKeep'
      PROVE  EventInv'
  BY <1>3, <1>4 DEF EventInv, Written, EndsInFile
<1>5. CASE CompactSignal(c)
  <2>1. UNCHANGED <<events, temp, image, queue, batch, accepted>>
    BY <1>5 DEF CompactSignal, disk, writer
  <2>2. cpc' = [cpc EXCEPT ![c] = "waiting"]
    BY <1>5 DEF CompactSignal
  <2>3. ImagesKeep'
    BY <1>1, <2>1, <2>2 DEF EventInv, ImagesKeep
  <2>4. QED BY <1>4, <2>1, <2>3
<1>6. CASE CompactRead(c)
  <2>1. image' = Compacted /\ lock = NoOne /\ up
    BY <1>6 DEF CompactRead, Reliable
  <2>2. image'.events = LastN(events, EventKeep)
    BY <2>1 DEF Compacted, VisibleEvents, FullInv, DurableInv
  <2>3. \A d \in Compactor : cpc[d] \notin {"read", "synced", "renamed"}
    BY <2>1, FreeMutex DEF FullInv
  <2>4. cpc' = [cpc EXCEPT ![c] = "read"]
    BY <1>6 DEF CompactRead
  <2>5. UNCHANGED <<events, queue, batch, accepted>>
    BY <1>6 DEF CompactRead, disk, writer
  <2>6. ImagesKeep'
    BY <1>1, <2>2, <2>3, <2>4, <2>5 DEF ImagesKeep
  <2>7. QED BY <1>4, <2>5, <2>6
<1>7. CASE CompactWriteTemp(c)
  <2>1. image.events = LastN(events, EventKeep) /\ temp' = image
    BY <1>7 DEF CompactWriteTemp, EventInv, ImagesKeep
  <2>2. cpc' = [cpc EXCEPT ![c] = "synced"] /\ cpc[c] = "read"
    BY <1>7 DEF CompactWriteTemp
  <2>3. UNCHANGED <<events, queue, batch, accepted>>
    BY <1>7 DEF CompactWriteTemp, writer
  <2>4. \A d \in Compactor : cpc'[d] \in {"read", "synced"} => d = c
    BY <1>1, <1>2, <2>2
  <2>5. cpc'[c] = "synced"
    BY <1>1, <2>2
  <2>6. ImagesKeep'
    BY <2>1, <2>3, <2>4, <2>5 DEF ImagesKeep
  <2>7. QED BY <1>4, <2>3, <2>6
<1>8. CASE CompactWriteFails(c)
  <2>1. cpc' = [cpc EXCEPT ![c] = "idle"] /\ cpc[c] = "read"
    BY <1>8 DEF CompactWriteFails
  <2>2. UNCHANGED <<events, queue, batch, accepted>>
    BY <1>8 DEF CompactWriteFails, writer
  <2>3. \A d \in Compactor : cpc'[d] \notin {"read", "synced"}
    BY <1>1, <1>2, <2>1
  <2>4. ImagesKeep'
    BY <2>3 DEF ImagesKeep
  <2>5. QED BY <1>4, <2>2, <2>4
<1>9. CASE CompactRename(c)
  <2>1. cpc' = [cpc EXCEPT ![c] = "renamed"] /\ cpc[c] = "synced"
    BY <1>9 DEF CompactRename
  <2>2. \A d \in Compactor : cpc'[d] \notin {"read", "synced"}
    BY <1>1, <1>2, <2>1
  <2>3. ImagesKeep'
    BY <2>2 DEF ImagesKeep
  <2>4. UNCHANGED <<queue, batch, accepted>>
    BY <1>9 DEF CompactRename, writer
  <2>5. CASE UNCHANGED events
    BY <1>4, <2>3, <2>4, <2>5
  <2>6. CASE events' = temp.events
    <3>1. events' = LastN(events, EventKeep)
      BY <2>1, <2>6 DEF EventInv, ImagesKeep
    <3>2. events \in Seq(EventId)
      BY DEF FullInv, TypeInv, TypeOK, EventId
    <3>3. PICK p \in Seq(EventId) : /\ f = p \o events
                                    /\ p = <<>> \/ Len(events) >= EventKeep
      BY <1>3 DEF EndsInFile
    <3>4. PICK d \in Seq(EventId) : /\ events = d \o LastN(events, EventKeep)
                                    /\ d = <<>> \/ Len(LastN(events, EventKeep)) >= EventKeep
      BY <3>2, LastNFacts, ConstantsAssumption
    <3>5. events = d \o events' /\ (d = <<>> \/ Len(events') >= EventKeep)
      BY <3>1, <3>4
    <3>6. events' \in Seq(EventId)
      BY <3>1, <3>2, LastNType, ConstantsAssumption
    <3>7. f = (p \o d) \o events' /\ p \o d \in Seq(EventId)
      <4>1. Joins(p, d, events')
        BY <3>6, Joined
      <4>2. p \o d \in Seq(EventId)
        BY ConcatProperties
      <4>3. QED BY <3>3, <3>5, <4>1, <4>2 DEF Joins
    <3>8. p \o d = <<>> \/ Len(events') >= EventKeep
      <4>1. CASE d = <<>>
        <5>1. p \o d = p /\ events = events'
          BY <3>5, <3>6, <4>1, ConcatEmptySeq
        <5>2. QED BY <3>3, <5>1
      <4>2. CASE d # <<>>
        BY <3>5, <4>2
      <4>3. QED BY <4>1, <4>2
    <3>9. EndsInFile(f)'
      BY <3>7, <3>8 DEF EndsInFile
    <3>10. Written(f)'
      BY <1>3, <2>4 DEF Written
    <3>11. QED BY <2>3, <3>9, <3>10 DEF EventInv
  <2>7. QED BY <1>9, <2>5, <2>6 DEF CompactRename, disk
<1>10. CASE CompactReopen(c)
  <2>1. cpc' = [cpc EXCEPT ![c] = "idle"] /\ cpc[c] = "renamed"
    BY <1>10 DEF CompactReopen
  <2>2. UNCHANGED <<events, queue, batch, accepted>>
    BY <1>10 DEF CompactReopen, disk, writer
  <2>3. \A d \in Compactor : cpc'[d] \notin {"read", "synced"}
    BY <1>1, <1>2, <2>1
  <2>4. ImagesKeep'
    BY <2>3 DEF ImagesKeep
  <2>5. QED BY <1>4, <2>2, <2>4
<1>11. QED BY <1>5, <1>6, <1>7, <1>8, <1>9, <1>10 DEF Compact

\* The process dies between two writes, or in one that wrote nothing.
LEMMA CrashEvents ==
    ASSUME Reliable, TypeOK, EventInv, Crash \/ CutListCall \/ CrashInFlush
    PROVE  EventInv'
<1>1. ASSUME NEW rs, NEW kind, NEW k \in Nat, NEW tear, WriteCut(rs, kind, k, tear)
      PROVE  FALSE
  <2>1. k > 0 \/ tear # "none"
    BY <1>1 DEF WriteCut
  <2>2. "partial" \notin Faults /\ "tear" \notin Faults
    BY DEF Reliable
  <2>3. QED BY <1>1, <2>1, <2>2 DEF WriteCut
<1>2. ~CutListCall /\ ~CrashInFlush
  <2>1. ~CrashInFlush
    BY <1>1 DEF CrashInFlush
  <2>2. \A rs, lists : ~CrashInCall(rs, lists)
    BY <1>1 DEF CrashInCall
  <2>3. QED BY <2>1, <2>2 DEF CutListCall
<1>3. CASE Crash
  <2>1. PICK f \in Seq(EventId) : Written(f) /\ EndsInFile(f)
    BY DEF EventInv
  <2>2. /\ accepted' = f /\ queue' = <<>> /\ batch' = <<>> /\ events' = events
        /\ cpc' = [d \in Compactor |-> "idle"]
    BY <1>3, <2>1, WrittenFacts DEF Crash, LoseMemory, disk
  <2>3. f = f \o (<<>> \o <<>>)
    <3>1. <<>> \o <<>> = <<>>
      OBVIOUS
    <3>2. QED BY <3>1, ConcatEmptySeq
  <2>4. Written(f)' /\ EndsInFile(f)' /\ ImagesKeep'
    BY <2>1, <2>2, <2>3 DEF Written, EndsInFile, ImagesKeep
  <2>5. QED BY <2>4 DEF EventInv
<1>4. QED BY <1>2, <1>3

LEMMA StepEvents ==
    ASSUME Reliable, FullInv, EventInv, [Next]_vars
    PROVE  EventInv'
<1>1. CASE UNCHANGED vars
  BY <1>1, SameEvents DEF vars, disk, compaction, writer
<1>2. CASE ListCall
  BY <1>2, ListCallEvents
<1>3. CASE Clear
  BY <1>3, ClearEvents
<1>4. CASE SendEvent
  BY <1>4, SendEvents DEF FullInv, TypeInv
<1>5. CASE Writer
  BY <1>5, WriterEvents
<1>6. CASE \E c \in Compactor : Compact(c)
  BY <1>6, CompactEvents
<1>7. CASE Crash \/ CutListCall \/ CrashInFlush
  BY <1>7, CrashEvents DEF FullInv, TypeInv
<1>8. CASE Restart
  BY <1>8, SameEvents DEF Restart, disk, compaction, writer
<1>9. QED BY <1>1, <1>2, <1>3, <1>4, <1>5, <1>6, <1>7, <1>8 DEF Next

\* Where lines are written whole and files open, no event that entered the
\* channel is lost, doubled or moved while the process lives, whatever the
\* writer task, the compactions and the crashes do (wal.rs:154-239, 330-440),
\* and a compaction drops none but those older than the last EventKeep.
THEOREM EventOrder ==
    ASSUME Reliable
    PROVE  Spec => []EventsInOrder
<1>1. Init => FullInv /\ EventInv
  BY InitTypeInv, InitDurable, InitEvents DEF FullInv
<1>2. FullInv /\ EventInv /\ [Next]_vars => (FullInv /\ EventInv)'
  BY StepTypeInv, StepDurable, StepEvents DEF FullInv
<1>3. FullInv /\ EventInv => EventsInOrder
  BY EventInvOrders DEF FullInv, TypeInv
<1>4. QED BY <1>1, <1>2, <1>3, PTL DEF Spec

-----------------------------------------------------------------------------
(* Events only ever go up, whatever fails: torn lines, half-written         *)
(* batches, files that do not open.  What the file holds, what a compaction *)
(* is about to put in its place, the batch and the queue lie in this order, *)
(* and every number is one that was sent.                                   *)

Rises(s) == \A i, j \in DOMAIN s : i < j => s[i] < s[j]

Below(s, t) == \A x \in ToSet(s), y \in ToSet(t) : x < y

\* s before b before q, and nothing above n.
InOrder(s, b, q, n) ==
    /\ s \in Seq(EventId) /\ b \in Seq(EventId) /\ q \in Seq(EventId)
    /\ Rises(s) /\ Rises(b) /\ Rises(q)
    /\ Below(s, b) /\ Below(s, q) /\ Below(b, q)
    /\ \A x \in ToSet(s) \cup ToSet(b) \cup ToSet(q) : x <= n

RisingInv ==
    /\ InOrder(VisibleEvents, batch, queue, sent)
    /\ \A c \in Compactor :
        /\ cpc[c] = "read" => InOrder(image.events, batch, queue, sent)
        /\ cpc[c] = "synced" => InOrder(temp.events, batch, queue, sent)

\* The elements of a sequence of events are events.
LEMMA ElementsAre ==
    ASSUME NEW s \in Seq(EventId)
    PROVE  /\ Len(s) \in Nat /\ DOMAIN s = 1..Len(s)
           /\ ToSet(s) \subseteq Nat /\ \A i \in 1..Len(s) : s[i] \in ToSet(s)
           /\ \A x \in ToSet(s) : \E i \in 1..Len(s) : x = s[i]
<1>1. Len(s) \in Nat /\ DOMAIN s = 1..Len(s) /\ s \in [1..Len(s) -> EventId]
  BY LenProperties
<1>2. QED BY <1>1 DEF ToSet, EventId

LEMMA NoElements ==
    <<>> \in Seq(EventId) /\ ToSet(<<>>) = {} /\ Rises(<<>>)
<1>1. DOMAIN <<>> = {} /\ <<>> \in Seq(EventId)
  OBVIOUS
<1>2. QED BY <1>1 DEF ToSet, Rises

LEMMA JoinRises ==
    ASSUME NEW s \in Seq(EventId), NEW t \in Seq(EventId),
           Rises(s), Rises(t), Below(s, t)
    PROVE  /\ s \o t \in Seq(EventId) /\ Rises(s \o t)
           /\ ToSet(s \o t) \subseteq ToSet(s) \cup ToSet(t)
<1>1. PICK u \in Seq(EventId) :
         /\ u = s \o t /\ Len(u) = Len(s) + Len(t)
         /\ \A i \in 1..(Len(s) + Len(t)) : u[i] = IF i <= Len(s) THEN s[i] ELSE t[i - Len(s)]
  <2>1. PICK u : u = s \o t
    OBVIOUS
  <2>2. u \in Seq(EventId) /\ Len(u) = Len(s) + Len(t)
    BY <2>1, ConcatProperties
  <2>3. \A i \in 1..(Len(s) + Len(t)) : u[i] = IF i <= Len(s) THEN s[i] ELSE t[i - Len(s)]
    BY <2>1, ConcatProperties
  <2>4. QED BY <2>1, <2>2, <2>3
<1> DEFINE m == Len(s)
           n == Len(t)
<1>2. m \in Nat /\ n \in Nat
  BY LenProperties
<1>3. \A i \in 1..(m + n) : \/ i \in 1..m /\ u[i] = s[i]
                            \/ i - m \in 1..n /\ i > m /\ u[i] = t[i - m]
  <2>1. TAKE i \in 1..(m + n)
  <2>2. i <= m \/ (i > m /\ i - m \in 1..n)
    BY <1>2
  <2>3. QED BY <1>1, <1>2, <2>2
<1>4. /\ \A i \in 1..m : s[i] \in ToSet(s) /\ s[i] \in Nat
      /\ \A i \in 1..n : t[i] \in ToSet(t) /\ t[i] \in Nat
  BY ElementsAre
<1>5. \A i, j \in 1..m : i < j => s[i] < s[j]
  BY ElementsAre DEF Rises
<1>6. \A i, j \in 1..n : i < j => t[i] < t[j]
  BY ElementsAre DEF Rises
<1>7. \A i \in 1..m, j \in 1..n : s[i] < t[j]
  BY <1>4 DEF Below
<1>8. DOMAIN u = 1..(m + n)
  BY <1>1, LenProperties
<1> HIDE DEF m, n
<1>9. Rises(u)
  <2>1. SUFFICES ASSUME NEW i \in 1..(m + n), NEW j \in 1..(m + n), i < j
                 PROVE  u[i] < u[j]
    BY <1>8 DEF Rises
  <2>2. CASE i \in 1..m /\ u[i] = s[i] /\ j \in 1..m /\ u[j] = s[j]
    BY <1>5, <2>1, <2>2
  <2>3. CASE i \in 1..m /\ u[i] = s[i] /\ j - m \in 1..n /\ u[j] = t[j - m]
    BY <1>7, <2>3
  <2>4. CASE i > m
    <3>1. /\ i - m \in 1..n /\ u[i] = t[i - m]
          /\ j - m \in 1..n /\ u[j] = t[j - m]
      BY <1>2, <1>3, <2>1, <2>4
    <3>2. i - m < j - m
      BY <1>2, <2>1
    <3>3. QED BY <1>6, <3>1, <3>2
  <2>5. QED BY <1>2, <1>3, <2>2, <2>3, <2>4
<1>10. ToSet(u) \subseteq ToSet(s) \cup ToSet(t)
  <2>1. \A i \in 1..(m + n) : u[i] \in ToSet(s) \cup ToSet(t)
    BY <1>3, <1>4
  <2>2. QED BY <1>8, <2>1 DEF ToSet
<1>11. QED BY <1>1, <1>9, <1>10

\* A part of a sequence without gaps.
LEMMA PieceRises ==
    ASSUME NEW s \in Seq(EventId), Rises(s),
           NEW i \in Int, NEW n \in Int, i >= 1, n <= Len(s)
    PROVE  /\ SubSeq(s, i, n) \in Seq(EventId) /\ Rises(SubSeq(s, i, n))
           /\ \A x \in ToSet(SubSeq(s, i, n)) : \E k \in i..n : x = s[k]
           /\ ToSet(SubSeq(s, i, n)) \subseteq ToSet(s)
<1>1. Len(s) \in Nat /\ \A k \in i..n : s[k] \in EventId
  BY LenProperties, ElementOfSeq
<1>2. PICK p : p = SubSeq(s, i, n)
  OBVIOUS
<1>3. /\ p \in Seq(EventId) /\ Len(p) = IF i <= n THEN n - i + 1 ELSE 0
      /\ \A k \in 1..(n - i + 1) : p[k] = s[i + k - 1]
  BY <1>1, <1>2, SubSeqProperties
<1>4. DOMAIN p = 1..Len(p)
  BY <1>3, LenProperties
<1>5. \A k \in DOMAIN p : p[k] = s[i + k - 1] /\ i + k - 1 \in i..n /\ k \in Nat
  BY <1>3, <1>4
<1>6. \A k \in i..n : k \in DOMAIN s /\ s[k] \in ToSet(s)
  BY <1>1, ElementsAre
<1>7. Rises(p)
  <2>1. SUFFICES ASSUME NEW k \in DOMAIN p, NEW l \in DOMAIN p, k < l PROVE p[k] < p[l]
    BY DEF Rises
  <2>2. i + k - 1 < i + l - 1
    BY <1>5, <2>1
  <2>3. QED BY <1>5, <1>6, <2>2 DEF Rises
<1>8. \A x \in ToSet(p) : \E k \in i..n : x = s[k]
  BY <1>5 DEF ToSet
<1>9. QED BY <1>2, <1>3, <1>6, <1>7, <1>8

\* The two parts a sequence is cut into.
LEMMA CutRises ==
    ASSUME NEW s \in Seq(EventId), Rises(s), NEW k \in 1..Len(s)
    PROVE  Below(SubSeq(s, 1, k), SubSeq(s, k + 1, Len(s)))
<1>1. Len(s) \in Nat /\ DOMAIN s = 1..Len(s)
  BY LenProperties
<1>2. \A x \in ToSet(SubSeq(s, 1, k)) : \E i \in 1..k : x = s[i]
  BY <1>1, PieceRises
<1>3. \A x \in ToSet(SubSeq(s, k + 1, Len(s))) : \E i \in (k + 1)..Len(s) : x = s[i]
  BY <1>1, PieceRises
<1>4. \A i \in 1..k, j \in (k + 1)..Len(s) : s[i] < s[j]
  BY <1>1 DEF Rises
<1>5. QED BY <1>2, <1>3, <1>4 DEF Below

LEMMA AppendRises ==
    ASSUME NEW s \in Seq(EventId), Rises(s), NEW x \in EventId, \A y \in ToSet(s) : y < x
    PROVE  /\ Append(s, x) \in Seq(EventId) /\ Rises(Append(s, x))
           /\ ToSet(Append(s, x)) \subseteq ToSet(s) \cup {x}
<1>1. <<x>> \in Seq(EventId) /\ Len(<<x>>) = 1 /\ <<x>>[1] = x /\ DOMAIN <<x>> = 1..1
  OBVIOUS
<1>2. Rises(<<x>>) /\ ToSet(<<x>>) = {x}
  BY <1>1 DEF Rises, ToSet
<1>3. Below(s, <<x>>)
  BY <1>2 DEF Below
<1>4. Append(s, x) = s \o <<x>>
  BY AppendIsConcat
<1>5. QED BY <1>1, <1>2, <1>3, <1>4, JoinRises

-----------------------------------------------------------------------------
(* What the steps do to sequences in order.                                 *)

LEMMA SendOrder ==
    ASSUME NEW s, NEW b, NEW q, NEW n \in Nat, InOrder(s, b, q, n)
    PROVE  /\ InOrder(s, b, q, n + 1)
           /\ InOrder(s, b, Append(q, n + 1), n + 1)
<1>1. /\ ToSet(s) \subseteq Nat /\ ToSet(b) \subseteq Nat /\ ToSet(q) \subseteq Nat
  BY ElementsAre DEF InOrder
<1>2. \A x \in ToSet(s) \cup ToSet(b) \cup ToSet(q) : x < n + 1
  BY <1>1 DEF InOrder
<1>3. n + 1 \in EventId
  BY DEF EventId
<1>4. PICK u : u = Append(q, n + 1)
  OBVIOUS
<1>5. u \in Seq(EventId) /\ Rises(u) /\ ToSet(u) \subseteq ToSet(q) \cup {n + 1}
  BY <1>2, <1>3, <1>4, AppendRises DEF InOrder
<1>6. \A x \in ToSet(s) \cup ToSet(b) \cup ToSet(u) : x <= n + 1
  BY <1>1, <1>2, <1>5
<1>7. Below(s, u) /\ Below(b, u)
  BY <1>2, <1>5 DEF InOrder, Below
<1>8. InOrder(s, b, q, n + 1)
  BY <1>1, <1>2 DEF InOrder
<1>9. InOrder(s, b, u, n + 1)
  BY <1>5, <1>6, <1>7 DEF InOrder
<1>10. QED BY <1>4, <1>8, <1>9

LEMMA TakeOrder ==
    ASSUME NEW s, NEW b, NEW q, NEW n \in Nat, InOrder(s, b, q, n), NEW k \in 1..Len(q)
    PROVE  InOrder(s, b \o SubSeq(q, 1, k), SubSeq(q, k + 1, Len(q)), n)
<1>1. /\ s \in Seq(EventId) /\ b \in Seq(EventId) /\ q \in Seq(EventId) /\ Len(q) \in Nat
      /\ Rises(s) /\ Rises(b) /\ Rises(q)
      /\ Below(s, b) /\ Below(s, q) /\ Below(b, q)
      /\ \A x \in ToSet(s) \cup ToSet(b) \cup ToSet(q) : x <= n
  BY LenProperties DEF InOrder
<1>2. PICK t, l : t = SubSeq(q, 1, k) /\ l = SubSeq(q, k + 1, Len(q))
  OBVIOUS
<1>3. t \in Seq(EventId) /\ Rises(t) /\ ToSet(t) \subseteq ToSet(q)
  BY <1>1, <1>2, PieceRises
<1>4. l \in Seq(EventId) /\ Rises(l) /\ ToSet(l) \subseteq ToSet(q)
  BY <1>1, <1>2, PieceRises
<1>5. Below(t, l)
  BY <1>1, <1>2, CutRises
<1>6. Below(b, t)
  BY <1>1, <1>3 DEF Below
<1>7. PICK u : u = b \o t
  OBVIOUS
<1>8. u \in Seq(EventId) /\ Rises(u) /\ ToSet(u) \subseteq ToSet(b) \cup ToSet(t)
  BY <1>1, <1>3, <1>6, <1>7, JoinRises
<1>9. Below(s, u) /\ Below(s, l) /\ Below(u, l)
  BY <1>1, <1>3, <1>4, <1>5, <1>8 DEF Below
<1>10. \A x \in ToSet(s) \cup ToSet(u) \cup ToSet(l) : x <= n
  BY <1>1, <1>3, <1>4, <1>8
<1>11. InOrder(s, u, l, n)
  BY <1>1, <1>4, <1>8, <1>9, <1>10 DEF InOrder
<1>12. QED BY <1>2, <1>7, <1>11

\* Some of the batch reaches the file; the process may die with it.
LEMMA LandOrder ==
    ASSUME NEW s, NEW b, NEW q, NEW n \in Nat, InOrder(s, b, q, n),
           NEW p \in Seq(EventId), Rises(p), ToSet(p) \subseteq ToSet(b)
    PROVE  InOrder(s \o p, <<>>, q, n) /\ InOrder(s \o p, <<>>, <<>>, n)
<1>1. /\ s \in Seq(EventId) /\ q \in Seq(EventId) /\ Rises(s) /\ Rises(q)
      /\ Below(s, b) /\ Below(s, q) /\ Below(b, q)
      /\ \A x \in ToSet(s) \cup ToSet(b) \cup ToSet(q) : x <= n
  BY DEF InOrder
<1>2. Below(s, p)
  BY <1>1 DEF Below
<1>3. PICK u : u = s \o p
  OBVIOUS
<1>4. u \in Seq(EventId) /\ Rises(u) /\ ToSet(u) \subseteq ToSet(s) \cup ToSet(p)
  BY <1>1, <1>2, <1>3, JoinRises
<1>5. Below(u, q)
  BY <1>1, <1>4 DEF Below
<1>6. \A x \in ToSet(u) \cup ToSet(q) : x <= n
  BY <1>1, <1>4
<1>7. PICK e : e = <<>>
  OBVIOUS
<1>8. e \in Seq(EventId) /\ ToSet(e) = {} /\ Rises(e)
  BY <1>7, NoElements
<1>9. InOrder(u, e, q, n) /\ InOrder(u, e, e, n)
  BY <1>1, <1>4, <1>5, <1>6, <1>8 DEF InOrder, Below
<1>10. QED BY <1>3, <1>7, <1>9

\* The batch, or the batch and the queue, are dropped.
LEMMA DropOrder ==
    ASSUME NEW s, NEW b, NEW q, NEW n \in Nat, InOrder(s, b, q, n)
    PROVE  InOrder(s, <<>>, q, n) /\ InOrder(s, <<>>, <<>>, n)
<1>1. PICK e : e = <<>>
  OBVIOUS
<1>2. e \in Seq(EventId) /\ ToSet(e) = {} /\ Rises(e)
  BY <1>1, NoElements
<1>3. InOrder(s, e, q, n) /\ InOrder(s, e, e, n)
  BY <1>2 DEF InOrder, Below
<1>4. QED BY <1>1, <1>3

\* The file loses some of what it holds.
LEMMA LoseOrder ==
    ASSUME NEW s, NEW b, NEW q, NEW n, InOrder(s, b, q, n),
           NEW p \in Seq(EventId), Rises(p), ToSet(p) \subseteq ToSet(s)
    PROVE  InOrder(p, b, q, n)
  BY DEF InOrder, Below

\* The last events of a file, or none.
LEMMA KeepOrder ==
    ASSUME NEW s, NEW b, NEW q, NEW n, InOrder(s, b, q, n), NEW k \in Nat
    PROVE  InOrder(LastN(s, k), b, q, n) /\ InOrder(<<>>, b, q, n)
<1>1. s \in Seq(EventId) /\ Rises(s) /\ Len(s) \in Nat
  BY LenProperties DEF InOrder
<1>2. PICK i \in Int : i >= 1 /\ LastN(s, k) = SubSeq(s, i, Len(s))
  <2>1. CASE Len(s) > k
    <3>1. Len(s) - k + 1 \in Int /\ Len(s) - k + 1 >= 1
      BY <1>1, <2>1
    <3>2. QED BY <2>1, <3>1 DEF LastN
  <2>2. CASE ~(Len(s) > k)
    BY <2>2 DEF LastN
  <2>3. QED BY <2>1, <2>2
<1>3. /\ LastN(s, k) \in Seq(EventId) /\ Rises(LastN(s, k))
      /\ ToSet(LastN(s, k)) \subseteq ToSet(s)
  BY <1>1, <1>2, PieceRises
<1>4. InOrder(LastN(s, k), b, q, n)
  BY <1>3, LoseOrder
<1>5. PICK e : e = <<>>
  OBVIOUS
<1>6. e \in Seq(EventId) /\ ToSet(e) \subseteq ToSet(s) /\ Rises(e)
  BY <1>5, NoElements
<1>7. InOrder(e, b, q, n)
  BY <1>6, LoseOrder
<1>8. QED BY <1>4, <1>5, <1>7

\* What reaches the file of some records.
LEMMA LandedRises ==
    ASSUME NEW s \in Seq(EventId), Rises(s), s # <<>>
    PROVE  /\ Landed(s) \in Seq(EventId) /\ Rises(Landed(s))
           /\ ToSet(Landed(s)) \subseteq ToSet(s)
<1>1. Len(s) \in Nat \ {0} /\ Tail(s) = SubSeq(s, 2, Len(s))
  BY EmptySeq, TailIsSubSeq
<1>2. /\ Tail(s) \in Seq(EventId) /\ Rises(Tail(s)) /\ ToSet(Tail(s)) \subseteq ToSet(s)
  <2>1. 2 \in Int /\ 2 >= 1 /\ Len(s) \in Int /\ Len(s) <= Len(s)
    BY <1>1
  <2>2. PICK p : p = SubSeq(s, 2, Len(s))
    OBVIOUS
  <2>3. p \in Seq(EventId) /\ Rises(p) /\ ToSet(p) \subseteq ToSet(s)
    BY <2>1, <2>2, PieceRises
  <2>4. QED BY <1>1, <2>2, <2>3
<1>3. Landed(s) = s \/ Landed(s) = Tail(s)
  BY DEF Landed
<1>4. QED BY <1>2, <1>3

\* An unterminated line lies behind the lines of the file.
LEMMA FileOrder ==
    ASSUME TypeOK, NEW b, NEW q, NEW n, InOrder(VisibleEvents, b, q, n)
    PROVE  InOrder(events, b, q, n)
<1>1. CASE VisibleEvents = events
  BY <1>1
<1>2. CASE VisibleEvents # events
  <2>1. torn # Nothing /\ torn.kind = "event" /\ VisibleEvents = Append(events, torn.rec)
    BY <1>2 DEF VisibleEvents
  <2>2. PICK x, v : x = torn.rec /\ v = Append(events, x)
    OBVIOUS
  <2>3. x \in EventId /\ events \in Seq(EventId)
    BY <2>1, <2>2 DEF TypeOK, TornLine, EventId
  <2>4. /\ v \in Seq(EventId) /\ Len(v) = Len(events) + 1 /\ Len(events) \in Nat
        /\ \A i \in 1..Len(events) : v[i] = events[i]
    BY <2>2, <2>3, AppendProperties, LenProperties
  <2>5. DOMAIN v = 1..(Len(events) + 1) /\ DOMAIN events = 1..Len(events)
    BY <2>3, <2>4, LenProperties
  <2>6. InOrder(v, b, q, n)
    BY <2>1, <2>2
  <2>7. Rises(events)
    BY <2>4, <2>5, <2>6 DEF InOrder, Rises
  <2>8. ToSet(events) \subseteq ToSet(v)
    BY <2>4, <2>5 DEF ToSet
  <2>9. QED BY <2>3, <2>6, <2>7, <2>8, LoseOrder
<1>3. QED BY <1>1, <1>2

-----------------------------------------------------------------------------
(* The steps.                                                               *)

\* Only the file's end, the batch, the queue or the counter change.
LEMMA ImagesFollow ==
    ASSUME RisingInv, UNCHANGED <<cpc, image, temp>>,
           InOrder(VisibleEvents, batch, queue, sent)',
           \A s : InOrder(s, batch, queue, sent) => InOrder(s, batch', queue', sent')
    PROVE  RisingInv'
<1>1. ASSUME NEW c \in Compactor, cpc'[c] = "read"
      PROVE  InOrder(image.events, batch, queue, sent)'
  BY <1>1 DEF RisingInv
<1>2. ASSUME NEW c \in Compactor, cpc'[c] = "synced"
      PROVE  InOrder(temp.events, batch, queue, sent)'
  BY <1>2 DEF RisingInv
<1>3. QED BY <1>1, <1>2 DEF RisingInv

\* A step that no event takes part in.
LEMMA SameRising ==
    ASSUME RisingInv, UNCHANGED <<cpc, image, temp, events, torn, batch, queue, sent>>
    PROVE  RisingInv'
<1>1. VisibleEvents' = VisibleEvents
  BY DEF VisibleEvents
<1>2. QED BY <1>1, ImagesFollow DEF RisingInv

\* A step that writes the file, or empties it, without events.
LEMMA LostTail ==
    ASSUME TypeOK, RisingInv, torn' = Nothing, events' = events \/ events' = <<>>,
           UNCHANGED <<cpc, image, temp, batch, queue, sent>>
    PROVE  RisingInv'
<1>1. VisibleEvents' = events'
  BY DEF VisibleEvents
<1>2. InOrder(VisibleEvents, batch, queue, sent)
  BY DEF RisingInv
<1>3. InOrder(events, batch, queue, sent)
  BY <1>2, FileOrder
<1>4. InOrder(<<>>, batch, queue, sent)
  BY <1>2, KeepOrder DEF TypeOK
<1>5. InOrder(VisibleEvents', batch, queue, sent)
  BY <1>1, <1>3, <1>4
<1>6. QED BY <1>5, ImagesFollow

LEMMA ListCallRising ==
    ASSUME TypeOK, RisingInv, ListCall \/ Clear
    PROVE  RisingInv'
<1>1. UNCHANGED <<cpc, image, temp, batch, queue, sent>>
  BY DEF ListCall, AppendRecord, SaveSources, WriteRecords, Clear, compaction, writer
<1>2. \/ torn' = Nothing /\ events' \in {events, <<>>}
      \/ UNCHANGED <<events, torn>>
  BY DEF ListCall, AppendRecord, SaveSources, WriteRecords, Clear
<1>3. QED BY <1>1, <1>2, LostTail, SameRising

LEMMA SendRising ==
    ASSUME TypeOK, RisingInv, SendEvent
    PROVE  RisingInv'
<1>1. UNCHANGED <<cpc, image, temp, events, torn, batch>> /\ sent' = sent + 1 /\ sent \in Nat
  BY DEF SendEvent, disk, compaction, TypeOK
<1>2. queue' = Append(queue, sent + 1) \/ queue' = queue
  BY DEF SendEvent
<1>3. \A s : InOrder(s, batch, queue, sent) => InOrder(s, batch', queue', sent')
  BY <1>1, <1>2, SendOrder
<1>4. VisibleEvents' = VisibleEvents
  BY <1>1 DEF VisibleEvents
<1>5. QED BY <1>1, <1>3, <1>4, ImagesFollow DEF RisingInv

LEMMA WriterRising ==
    ASSUME TypeInv, RisingInv, Writer
    PROVE  RisingInv'
<1>1. sent \in Nat /\ TypeOK
  BY DEF TypeInv, TypeOK
<1>2. CASE WriterReceive
  <2>1. /\ UNCHANGED <<cpc, image, temp, events, torn, sent>>
        /\ batch' = batch \o SubSeq(queue, 1, Drained)
        /\ queue' = SubSeq(queue, Drained + 1, Len(queue))
    BY <1>2 DEF WriterReceive, disk, compaction
  <2>2. Drained \in 1..Len(queue)
    BY <1>1, <1>2, DrainedFacts DEF WriterReceive
  <2>3. \A s : InOrder(s, batch, queue, sent) => InOrder(s, batch', queue', sent')
    BY <1>1, <2>1, <2>2, TakeOrder
  <2>4. VisibleEvents' = VisibleEvents
    BY <2>1 DEF VisibleEvents
  <2>5. QED BY <2>1, <2>3, <2>4, ImagesFollow DEF RisingInv
<1>3. CASE WriterTick
  BY <1>3, SameRising DEF WriterTick, disk, compaction
<1>4. CASE FlushBatch
  <2>1. /\ UNCHANGED <<cpc, image, temp, sent, queue>> /\ batch' = <<>> /\ batch # <<>>
    BY <1>4 DEF FlushBatch, compaction, TypeInv, MutexInv
  <2>2. \A s : InOrder(s, batch, queue, sent) => InOrder(s, batch', queue', sent')
    BY <1>1, <2>1, DropOrder
  <2>3. InOrder(VisibleEvents, batch, queue, sent)
    BY DEF RisingInv
  <2>4. CASE handle
    <3>1. events' = events \o Landed(batch) /\ torn' = Nothing
      BY <1>4, <2>4 DEF FlushBatch
    <3>2. VisibleEvents' = events \o Landed(batch)
      BY <3>1 DEF VisibleEvents
    <3>3. InOrder(events, batch, queue, sent)
      BY <1>1, <2>3, FileOrder
    <3>4. PICK p : p = Landed(batch)
      OBVIOUS
    <3>5. p \in Seq(EventId) /\ Rises(p) /\ ToSet(p) \subseteq ToSet(batch)
      BY <2>1, <3>3, <3>4, LandedRises DEF InOrder
    <3>6. InOrder(events \o p, <<>>, queue, sent)
      BY <1>1, <3>3, <3>5, LandOrder
    <3>7. InOrder(VisibleEvents', batch', queue', sent')
      BY <2>1, <3>2, <3>4, <3>6
    <3>8. QED BY <2>1, <2>2, <3>7, ImagesFollow
  <2>5. CASE ~handle
    <3>1. VisibleEvents' = VisibleEvents
      BY <1>4, <2>5 DEF FlushBatch, VisibleEvents
    <3>2. QED BY <2>1, <2>2, <2>3, <3>1, ImagesFollow
  <2>6. QED BY <2>4, <2>5
<1>5. QED BY <1>2, <1>3, <1>4 DEF Writer

\* Only the compactor that holds the mutex has an image or a temporary file.
LEMMA CompactRising ==
    ASSUME TypeInv, RisingInv, NEW c \in Compactor, Compact(c)
    PROVE  RisingInv'
<1>1. cpc \in [Compactor -> {"idle", "waiting", "read", "synced", "renamed"}]
  BY DEF TypeInv, TypeOK
<1>2. \A d \in Compactor : cpc[d] \in {"read", "synced", "renamed"} /\
                             cpc[c] \in {"read", "synced", "renamed"} => d = c
  BY DEF TypeInv, MutexInv
<1>3. UNCHANGED <<batch, queue, sent>> /\ InOrder(VisibleEvents, batch, queue, sent)
  BY DEF Compact, CompactSignal, CompactRead, CompactWriteTemp, CompactWriteFails,
         CompactRename, CompactReopen, writer, RisingInv
<1>4. ASSUME VisibleEvents' = VisibleEvents,
             \A d \in Compactor : cpc'[d] \notin {"read", "synced"}
      PROVE  RisingInv'
  BY <1>3, <1>4 DEF RisingInv
<1>5. CASE CompactSignal(c)
  <2>1. UNCHANGED <<temp, image, events, torn>> /\ cpc' = [cpc EXCEPT ![c] = "waiting"]
    BY <1>5 DEF CompactSignal, disk
  <2>2. VisibleEvents' = VisibleEvents
    BY <2>1 DEF VisibleEvents
  <2>3. \A d \in Compactor : cpc'[d] \in {"read", "synced"} => cpc'[d] = cpc[d]
    BY <1>1, <2>1
  <2>4. QED BY <1>3, <2>1, <2>2, <2>3 DEF RisingInv
<1>6. CASE CompactRead(c)
  <2>1. lock = NoOne /\ UNCHANGED <<events, torn>> /\ cpc' = [cpc EXCEPT ![c] = "read"]
    BY <1>6 DEF CompactRead, disk
  <2>2. image' = Compacted \/ image' = [log |-> <<>>, events |-> <<>>]
    BY <1>6 DEF CompactRead
  <2>3. image'.events = LastN(VisibleEvents, EventKeep) \/ image'.events = <<>>
    BY <2>2 DEF Compacted
  <2>4. EventKeep \in Nat
    BY ConstantsAssumption
  <2>5. InOrder(image'.events, batch, queue, sent)
    BY <1>3, <2>3, <2>4, KeepOrder
  <2>6. \A d \in Compactor : cpc[d] \notin {"read", "synced"}
    BY <2>1, ConstantsAssumption DEF TypeInv, MutexInv
  <2>7. \A d \in Compactor : cpc'[d] # "synced"
    BY <1>1, <2>1, <2>6
  <2>8. VisibleEvents' = VisibleEvents
    BY <2>1 DEF VisibleEvents
  <2>9. QED BY <1>3, <2>5, <2>7, <2>8 DEF RisingInv
<1>7. CASE CompactWriteTemp(c)
  <2>1. /\ UNCHANGED <<events, torn>> /\ temp' = image
        /\ cpc[c] = "read" /\ cpc' = [cpc EXCEPT ![c] = "synced"]
    BY <1>7 DEF CompactWriteTemp
  <2>2. InOrder(temp'.events, batch, queue, sent)
    BY <2>1 DEF RisingInv
  <2>3. \A d \in Compactor : cpc'[d] # "read"
    BY <1>1, <1>2, <2>1
  <2>4. VisibleEvents' = VisibleEvents
    BY <2>1 DEF VisibleEvents
  <2>5. QED BY <1>3, <2>2, <2>3, <2>4 DEF RisingInv
<1>8. CASE CompactWriteFails(c) \/ CompactReopen(c)
  <2>1. /\ UNCHANGED <<events, torn>> /\ cpc[c] \in {"read", "renamed"}
        /\ cpc' = [cpc EXCEPT ![c] = "idle"]
    BY <1>8 DEF CompactWriteFails, CompactReopen, disk
  <2>2. \A d \in Compactor : cpc'[d] \notin {"read", "synced"}
    BY <1>1, <1>2, <2>1
  <2>3. VisibleEvents' = VisibleEvents
    BY <2>1 DEF VisibleEvents
  <2>4. QED BY <1>4, <2>2, <2>3
<1>9. CASE CompactRename(c)
  <2>1. /\ cpc[c] = "synced" /\ cpc' = [cpc EXCEPT ![c] = "renamed"]
        /\ \/ events' = temp.events /\ torn' = Nothing
           \/ UNCHANGED <<events, torn>>
    BY <1>9 DEF CompactRename, disk
  <2>2. \A d \in Compactor : cpc'[d] \notin {"read", "synced"}
    BY <1>1, <1>2, <2>1
  <2>3. VisibleEvents' = temp.events \/ VisibleEvents' = VisibleEvents
    BY <2>1 DEF VisibleEvents
  <2>4. InOrder(temp.events, batch, queue, sent)
    BY <2>1 DEF RisingInv
  <2>5. InOrder(VisibleEvents', batch, queue, sent)
    BY <1>3, <2>3, <2>4
  <2>6. QED BY <1>3, <2>2, <2>5 DEF RisingInv
<1>10. QED BY <1>5, <1>6, <1>7, <1>8, <1>9 DEF Compact

\* The process dies: what it had in memory is gone.
LEMMA DeathRising ==
    ASSUME LoseMemory, sent' = sent, InOrder(VisibleEvents', <<>>, <<>>, sent)
    PROVE  RisingInv'
<1>1. batch' = <<>> /\ queue' = <<>> /\ \A c \in Compactor : cpc'[c] = "idle"
  BY DEF LoseMemory
<1>2. QED BY <1>1 DEF RisingInv

\* The lines of a batch that a cut-off flush_batch leaves, the last of them
\* perhaps unterminated.
LEMMA CutFlushRising ==
    ASSUME TypeOK, RisingInv, CrashInFlush
    PROVE  RisingInv'
<1>1. PICK k \in 0..Len(batch), tear \in Tear : WriteCut(batch, "event", k, tear)
  BY DEF CrashInFlush
<1>2. /\ InOrder(events, batch, queue, sent) /\ sent \in Nat
      /\ batch \in Seq(EventId) /\ Rises(batch) /\ Len(batch) \in Nat
  <2>1. InOrder(events, batch, queue, sent)
    BY FileOrder DEF RisingInv
  <2>2. QED BY <2>1, LenProperties DEF InOrder, TypeOK
<1>3. PICK whole : whole = IF k = 0 THEN <<>> ELSE Landed(SubSeq(batch, 1, k))
  OBVIOUS
<1>4. k \in 0..(Len(batch) - 1) /\ k + 1 \in 1..Len(batch)
  BY <1>1, <1>2 DEF WriteCut
<1>5. events' = events \o whole
  BY <1>1, <1>3 DEF WriteCut
<1>6. /\ whole \in Seq(EventId) /\ Rises(whole) /\ ToSet(whole) \subseteq ToSet(batch)
      /\ \A y \in ToSet(whole) : y < batch[k + 1]
  <2>1. CASE k = 0
    BY <1>3, <2>1, NoElements
  <2>2. CASE k # 0
    <3>1. PICK p : p = SubSeq(batch, 1, k)
      OBVIOUS
    <3>2. /\ p \in Seq(EventId) /\ Rises(p) /\ ToSet(p) \subseteq ToSet(batch)
          /\ \A x \in ToSet(p) : \E i \in 1..k : x = batch[i]
      BY <1>2, <1>4, <3>1, PieceRises
    <3>3. p # <<>>
      <4>1. Len(p) = k
        BY <1>2, <1>4, <2>2, <3>1, SubSeqProperties, ElementOfSeq
      <4>2. QED BY <2>2, <4>1, EmptySeq
    <3>4. whole = Landed(p)
      BY <1>3, <2>2, <3>1
    <3>5. whole \in Seq(EventId) /\ Rises(whole) /\ ToSet(whole) \subseteq ToSet(p)
      BY <3>2, <3>3, <3>4, LandedRises
    <3>6. \A i \in 1..k : batch[i] < batch[k + 1]
      BY <1>2, <1>4, ElementsAre DEF Rises
    <3>7. QED BY <3>2, <3>5, <3>6
  <2>3. QED BY <2>1, <2>2
<1>7. PICK x : x = batch[k + 1]
  OBVIOUS
<1>8. x \in EventId /\ x \in ToSet(batch)
  BY <1>2, <1>4, <1>7, ElementsAre DEF EventId
<1>9. PICK more : more = Append(whole, x)
  OBVIOUS
<1>10. more \in Seq(EventId) /\ Rises(more) /\ ToSet(more) \subseteq ToSet(batch)
  BY <1>6, <1>7, <1>8, <1>9, AppendRises
<1>11. /\ InOrder(events \o whole, <<>>, <<>>, sent)
       /\ InOrder(events \o more, <<>>, <<>>, sent)
  BY <1>2, <1>6, <1>10, LandOrder
<1>12. Append(events \o whole, x) = events \o more
  <2>1. events \in Seq(EventId) /\ <<x>> \in Seq(EventId)
    BY <1>2, <1>8 DEF InOrder
  <2>2. PICK e : e = <<x>>
    OBVIOUS
  <2>3. Joins(events, whole, e)
    BY <1>6, <2>1, <2>2, Joined
  <2>4. more = whole \o e
    BY <1>6, <1>8, <1>9, <2>2, AppendIsConcat
  <2>5. events \o whole \in Seq(EventId)
    BY <1>6, <2>1, ConcatProperties
  <2>6. Append(events \o whole, x) = (events \o whole) \o e
    BY <1>8, <2>2, <2>5, AppendIsConcat
  <2>7. QED BY <2>3, <2>4, <2>6 DEF Joins
<1>13. torn' = Nothing \/ torn'.rec = x
  BY <1>1, <1>7 DEF WriteCut
<1>14. VisibleEvents' = events' \/ VisibleEvents' = Append(events', x)
  BY <1>13 DEF VisibleEvents
<1>15. InOrder(VisibleEvents', <<>>, <<>>, sent)
  BY <1>5, <1>11, <1>12, <1>14
<1>16. QED BY <1>15, DeathRising DEF CrashInFlush

LEMMA CrashRising ==
    ASSUME TypeOK, RisingInv, Crash \/ CutListCall \/ CrashInFlush
    PROVE  RisingInv'
<1>1. /\ sent \in Nat /\ InOrder(VisibleEvents, batch, queue, sent)
      /\ InOrder(events, batch, queue, sent)
  BY FileOrder DEF TypeOK, RisingInv
<1>2. InOrder(VisibleEvents, <<>>, <<>>, sent) /\ InOrder(events, <<>>, <<>>, sent)
  BY <1>1, DropOrder
<1>3. CASE Crash
  <2>1. LoseMemory /\ sent' = sent /\ UNCHANGED <<events, torn>>
    BY <1>3 DEF Crash, disk
  <2>2. VisibleEvents' = VisibleEvents
    BY <2>1 DEF VisibleEvents
  <2>3. QED BY <1>2, <2>1, <2>2, DeathRising
<1>4. ASSUME NEW rs, NEW lists, CrashInCall(rs, lists)
      PROVE  RisingInv'
  <2>1. PICK k \in 0..Len(rs), tear \in Tear : WriteCut(rs, "list", k, tear)
    BY <1>4 DEF CrashInCall
  <2>2. events' = events /\ (torn' = Nothing \/ torn'.kind = "list")
    BY <2>1 DEF WriteCut
  <2>3. VisibleEvents' = events
    BY <2>2 DEF VisibleEvents
  <2>4. LoseMemory /\ sent' = sent
    BY <1>4 DEF CrashInCall
  <2>5. QED BY <1>2, <2>3, <2>4, DeathRising
<1>5. CASE CutListCall
  BY <1>4, <1>5 DEF CutListCall
<1>6. QED BY <1>3, <1>5, CutFlushRising

LEMMA StepRising ==
    ASSUME TypeInv, RisingInv, [Next]_vars
    PROVE  RisingInv'
<1>1. CASE UNCHANGED vars
  BY <1>1, SameRising DEF vars, disk, compaction, writer
<1>2. CASE ListCall \/ Clear
  BY <1>2, ListCallRising DEF TypeInv
<1>3. CASE SendEvent
  BY <1>3, SendRising DEF TypeInv
<1>4. CASE Writer
  BY <1>4, WriterRising
<1>5. CASE \E c \in Compactor : Compact(c)
  BY <1>5, CompactRising
<1>6. CASE Crash \/ CutListCall \/ CrashInFlush
  BY <1>6, CrashRising DEF TypeInv
<1>7. CASE Restart
  BY <1>7, SameRising DEF Restart, disk, compaction, writer
<1>8. QED BY <1>1, <1>2, <1>3, <1>4, <1>5, <1>6, <1>7 DEF Next

LEMMA InitRising == Init => RisingInv
<1> SUFFICES ASSUME Init PROVE RisingInv
  OBVIOUS
<1>1. PICK e : e = <<>>
  OBVIOUS
<1>2. e \in Seq(EventId) /\ ToSet(e) = {} /\ Rises(e)
  BY <1>1, NoElements
<1>3. InOrder(e, e, e, 0)
  BY <1>2 DEF InOrder, Below
<1>4. /\ VisibleEvents = e /\ batch = e /\ queue = e /\ sent = 0
      /\ \A c \in Compactor : cpc[c] = "idle"
  BY <1>1 DEF Init, VisibleEvents
<1>5. QED BY <1>3, <1>4 DEF RisingInv

\* Whatever fails - lines torn, batches half-written, files that do not open,
\* renames that do not happen - and whatever the writer task, the compactions
\* and the crashes do, a replay of the file never meets an event twice or out
\* of order (wal.rs:154-239, 330-440, 493-672).
THEOREM EventsOnlyRise == Spec => []EventsIncrease
<1>1. TypeInv /\ RisingInv /\ [Next]_vars => (TypeInv /\ RisingInv)'
  BY StepTypeInv, StepRising
<1>2. RisingInv => EventsIncrease
  BY DEF RisingInv, InOrder, Rises, EventsIncrease
<1>3. QED BY <1>1, <1>2, InitTypeInv, InitRising, PTL DEF Spec

-----------------------------------------------------------------------------
(* What waits, waits for somebody: the safety half of EventsDrain and      *)
(* CompactionEnds.  The writer's tick waits for the flag; flushes, list    *)
(* calls and compactors wait for the mutex.                                *)

FlagHasOwner == compacting => \E c \in Compactor : cpc[c] # "idle"
MutexHasOwner == lock # NoOne => cpc[lock] \in {"read", "synced", "renamed"}

LEMMA MutexOwned == TypeInv => MutexHasOwner
BY DEF TypeInv, TypeOK, MutexInv, MutexHasOwner

\* A compactor that stops lowers the flag, so one that raised it is still at work.
LEMMA CompactFlag ==
    ASSUME TypeInv, FlagHasOwner, NEW c \in Compactor, Compact(c)
    PROVE  FlagHasOwner'
<1>1. cpc \in [Compactor -> {"idle", "waiting", "read", "synced", "renamed"}]
  BY DEF TypeInv, TypeOK
<1>2. CASE CompactWriteFails(c) \/ CompactReopen(c)
  BY <1>2 DEF CompactWriteFails, CompactReopen, FlagHasOwner
<1>3. CASE CompactSignal(c) \/ CompactRead(c) \/ CompactWriteTemp(c) \/ CompactRename(c)
  <2>1. cpc'[c] # "idle"
    BY <1>1, <1>3 DEF CompactSignal, CompactRead, CompactWriteTemp, CompactRename
  <2> QED
    BY <2>1 DEF FlagHasOwner
<1> QED
  BY <1>2, <1>3 DEF Compact

LEMMA StepFlag ==
    ASSUME TypeInv, FlagHasOwner, [Next]_vars
    PROVE  FlagHasOwner'
<1>0. ASSUME UNCHANGED compaction PROVE FlagHasOwner'
  BY <1>0 DEF compaction, FlagHasOwner
<1>1. CASE UNCHANGED vars
  BY <1>0, <1>1 DEF vars
<1>2. CASE ListCall \/ Clear
  BY <1>0, <1>2 DEF ListCall, AppendRecord, SaveSources, WriteRecords, Clear
<1>3. CASE SendEvent
  BY <1>0, <1>3 DEF SendEvent
<1>4. CASE Writer
  BY <1>0, <1>4 DEF Writer, WriterReceive, WriterTick, FlushBatch
<1>5. CASE \E c \in Compactor : Compact(c)
  BY <1>5, CompactFlag
<1>6. CASE Crash \/ CutListCall \/ CrashInFlush
  <2>1. compacting' = FALSE
    BY <1>6 DEF Crash, CutListCall, CrashInCall, CrashInFlush, LoseMemory
  <2> QED
    BY <2>1 DEF FlagHasOwner
<1>7. CASE Restart
  BY <1>0, <1>7 DEF Restart
<1> QED
  BY <1>1, <1>2, <1>3, <1>4, <1>5, <1>6, <1>7 DEF Next

\* As long as the compacting flag is up somebody compacts, and the writer mutex is held
\* only inside compact() (wal.rs:500-680), whatever fails on its error paths: the
\* background writer and the list calls never wait for nobody.
THEOREM NobodyWaitsInVain == Spec => [](FlagHasOwner /\ MutexHasOwner)
<1>1. Init => FlagHasOwner
  BY DEF Init, FlagHasOwner
<1> QED
  BY <1>1, InitTypeInv, StepTypeInv, StepFlag, MutexOwned, PTL DEF Spec
=============================================================================
