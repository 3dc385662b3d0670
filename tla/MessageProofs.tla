---------------------------- MODULE MessageProofs ---------------------------
(***************************************************************************)
(* Theorems about what messages hold.  Wire: what clients are told of TTLs *)
(* is bounded, and what leaves the server is whole.  Its first part is     *)
(* about sequences and the fold that Length is, the second about what each *)
(* operator on messages makes of a message whose header counts its records *)
(* (Formed); its invariants follow.  Denial: in a zone of any names, with  *)
(* any hashes, the judgement of a denial is right and an honest server is  *)
(* believed.  Names: a name is read as it was written.  What the folds of  *)
(* the module compute comes first, then that a name's text returns its     *)
(* labels, then how a reader follows the pointers (Track), and the way     *)
(* that names lie in a message (Levels), which every step keeps.           *)
(***************************************************************************)
EXTENDS Wire, Denial, Names, SequenceTheorems, FiniteSetTheorems, WellFoundedInduction, TLAPS

\* A sequence, of whatever it has.
IsSeq(s) == Len(s) \in Nat /\ s = [i \in 1..Len(s) |-> s[i]]
Elements(s) == {s[i] : i \in 1..Len(s)}

LEMMA SeqIs == ASSUME NEW S, NEW s \in Seq(S) PROVE IsSeq(s)
BY LenProperties DEF IsSeq

LEMMA IsSeqOf ==
    ASSUME NEW s, IsSeq(s), NEW S, \A i \in 1..Len(s) : s[i] \in S
    PROVE  s \in Seq(S)
<1> DEFINE n == Len(s)
<1>1. n \in Nat /\ s = [i \in 1..n |-> s[i]]
  BY DEF IsSeq
<1>2. [i \in 1..n |-> s[i]] \in Seq(S)
  BY <1>1, IsASeq
<1> QED
  BY <1>1, <1>2

LEMMA Singles == ASSUME NEW x PROVE IsSeq(<<x>>) /\ Len(<<x>>) = 1 /\ <<x>>[1] = x
<1>1. <<x>> \in Seq({x})
  OBVIOUS
<1> QED
  BY <1>1, SeqIs

LEMMA AppendIs ==
    ASSUME NEW s, IsSeq(s), NEW x
    PROVE  /\ IsSeq(Append(s, x)) /\ Len(Append(s, x)) = Len(s) + 1
           /\ \A i \in 1..Len(s) : Append(s, x)[i] = s[i]
           /\ Append(s, x)[Len(s) + 1] = x
<1> DEFINE S == Elements(s) \cup {x}
<1>1. s \in Seq(S)
  BY IsSeqOf DEF Elements
<1>2. Len(s) \in Nat
  BY DEF IsSeq
<1> HIDE DEF S
<1>3. x \in S
  BY DEF S
<1>4. Append(s, x) \in Seq(S)
  BY <1>1, <1>3
<1>5. IsSeq(Append(s, x))
  BY <1>4, SeqIs
<1> QED
  BY <1>1, <1>2, <1>3, <1>5

LEMMA PartIs ==
    ASSUME NEW s, IsSeq(s), NEW k \in 0..Len(s)
    PROVE  /\ IsSeq(SubSeq(s, 1, k)) /\ Len(SubSeq(s, 1, k)) = k
           /\ \A i \in 1..k : SubSeq(s, 1, k)[i] = s[i]
<1>1. Len(s) \in Nat
  BY DEF IsSeq
<1>2. \A i \in 1..k : s[i] \in Elements(s)
  BY <1>1 DEF Elements
<1>3. /\ SubSeq(s, 1, k) \in Seq(Elements(s))
      /\ Len(SubSeq(s, 1, k)) = IF 1 <= k THEN k - 1 + 1 ELSE 0
      /\ \A i \in 1..(k - 1 + 1) : SubSeq(s, 1, k)[i] = s[1 + i - 1]
  BY <1>1, <1>2, SubSeqProperties
<1>4. IsSeq(SubSeq(s, 1, k))
  BY <1>3, SeqIs
<1> QED
  BY <1>1, <1>3, <1>4

LEMMA ExceptIs ==
    ASSUME NEW s, IsSeq(s), NEW k \in 1..Len(s), NEW x
    PROVE  /\ IsSeq([s EXCEPT ![k] = x]) /\ Len([s EXCEPT ![k] = x]) = Len(s)
           /\ \A i \in 1..Len(s) : [s EXCEPT ![k] = x][i] = IF i = k THEN x ELSE s[i]
<1> DEFINE S == Elements(s) \cup {x}
<1>1. s \in Seq(S)
  BY IsSeqOf DEF Elements
<1> HIDE DEF S
<1>2. x \in S
  BY DEF S
<1>3. /\ [s EXCEPT ![k] = x] \in Seq(S) /\ Len([s EXCEPT ![k] = x]) = Len(s)
      /\ \A i \in 1..Len(s) : [s EXCEPT ![k] = x][i] = IF i = k THEN x ELSE s[i]
  BY <1>1, <1>2, ExceptSeq
<1> QED
  BY <1>3, SeqIs

LEMMA ConcatIs ==
    ASSUME NEW s, IsSeq(s), NEW t, IsSeq(t)
    PROVE  /\ IsSeq(s \o t) /\ Len(s \o t) = Len(s) + Len(t)
           /\ \A i \in 1..Len(s) : (s \o t)[i] = s[i]
           /\ \A i \in 1..Len(t) : (s \o t)[Len(s) + i] = t[i]
<1> DEFINE S == Elements(s) \cup Elements(t)
<1>1. s \in Seq(S) /\ t \in Seq(S)
  BY IsSeqOf DEF Elements
<1>2. Len(s) \in Nat /\ Len(t) \in Nat
  BY DEF IsSeq
<1> HIDE DEF S
<1>3. /\ s \o t \in Seq(S) /\ Len(s \o t) = Len(s) + Len(t)
      /\ \A i \in 1..Len(s) + Len(t) :
            (s \o t)[i] = IF i <= Len(s) THEN s[i] ELSE t[i - Len(s)]
  BY <1>1, ConcatProperties
<1>4. \A i \in 1..Len(t) : (s \o t)[Len(s) + i] = t[i]
  <2> TAKE i \in 1..Len(t)
  <2>1. Len(s) + i \in 1..Len(s) + Len(t) /\ ~(Len(s) + i <= Len(s)) /\ Len(s) + i - Len(s) = i
    BY <1>2
  <2> QED
    BY <1>3, <2>1
<1>5. IsSeq(s \o t)
  BY <1>3, SeqIs
<1> QED
  BY <1>2, <1>3, <1>4, <1>5

-----------------------------------------------------------------------------
\* The sum that Length is, unfolded for messages of no, one and two records.
Sums(f, m) == f = [s \in SUBSET (DOMAIN m.records) |->
                     IF s = {} THEN 1
                     ELSE LET x == Max(s) IN f[s \ {x}] + 1 + Len(m.records[x].options)]

LEMMA LengthSums == ASSUME NEW m PROVE Length(m) = (CHOOSE f : Sums(f, m))[DOMAIN m.records]
BY DEF Length, FoldLeft, MapThenFoldSet, Sums

LEMMA MaxIs == Max({1}) = 1 /\ Max({1, 2}) = 2 /\ Max({2}) = 2
BY DEF Max

LEMMA LengthOfNone == ASSUME NEW m, m.records = <<>> PROVE Length(m) = 1
<1>1. DOMAIN m.records = {}
  OBVIOUS
<1>2. Sums([s \in SUBSET {} |-> 1], m)
  BY <1>1 DEF Sums
<1> DEFINE f == CHOOSE f : Sums(f, m)
<1>3. Sums(f, m)
  BY <1>2
<1> HIDE DEF f
<1>4. f[{}] = 1
  BY <1>1, <1>3 DEF Sums
<1> QED
  BY <1>1, <1>4, LengthSums DEF f

LEMMA LengthOfOne ==
    ASSUME NEW m, NEW r, m.records = <<r>>, NEW n \in Nat, Len(r.options) = n
    PROVE  Length(m) = n + 2
<1>1. DOMAIN m.records = {1} /\ m.records[1] = r
  OBVIOUS
<1> DEFINE g == [s \in SUBSET {1} |-> IF s = {} THEN 1 ELSE n + 2]
<1>2. Sums(g, m)
  <2>1. ASSUME NEW s \in SUBSET {1}, s # {}
        PROVE  s = {1} /\ Max(s) = 1 /\ s \ {Max(s)} = {}
    BY <2>1, MaxIs
  <2>2. g[{}] = 1 /\ 1 + 1 + n = n + 2
    OBVIOUS
  <2> QED
    BY <1>1, <2>1, <2>2 DEF Sums
<1> DEFINE f == CHOOSE f : Sums(f, m)
<1>3. Sums(f, m)
  BY <1>2
<1> HIDE DEF f
<1>4. \A s \in SUBSET {1} : f[s] = IF s = {} THEN 1 ELSE f[s \ {Max(s)}] + 1 + Len(m.records[Max(s)].options)
  BY <1>1, <1>3 DEF Sums
<1>5. f[{}] = 1 /\ {1} \ {1} = {}
  BY <1>4
<1>6. f[{1}] = f[{}] + 1 + n
  BY <1>1, <1>4, <1>5, MaxIs
<1>7. Length(m) = f[{1}]
  BY <1>1, LengthSums DEF f
<1> QED
  BY <1>5, <1>6, <1>7

LEMMA LengthOfTwo ==
    ASSUME NEW m, NEW r, NEW q, m.records = <<r, q>>,
           Len(r.options) \in Nat, Len(q.options) \in Nat
    PROVE  Length(m) = Len(r.options) + Len(q.options) + 3
<1> DEFINE k == Len(r.options)
           n == Len(q.options)
<1>k. k \in Nat /\ n \in Nat /\ Len(r.options) = k /\ Len(q.options) = n
  OBVIOUS
<1> HIDE DEF k, n
<1> USE <1>k
<1>1. DOMAIN m.records = {1, 2} /\ m.records[1] = r /\ m.records[2] = q
  OBVIOUS
<1> DEFINE g == [s \in SUBSET {1, 2} |-> IF s = {} THEN 1 ELSE IF s = {1} THEN k + 2
                                         ELSE IF s = {2} THEN n + 2 ELSE k + n + 3]
<1>2. Sums(g, m)
  <2>1. {} # {1} /\ {} # {2} /\ {} # {1, 2} /\ {1} # {2} /\ {1} # {1, 2} /\ {2} # {1, 2}
    OBVIOUS
  <2>2. g[{}] = 1 /\ g[{1}] = k + 2 /\ g[{2}] = n + 2 /\ g[{1, 2}] = k + n + 3
    BY <2>1
  <2>3. {1} \ {1} = {} /\ {2} \ {2} = {} /\ {1, 2} \ {2} = {1}
    OBVIOUS
  <2>4. ASSUME NEW s \in SUBSET {1, 2}
        PROVE  s = {} \/ s = {1} \/ s = {2} \/ s = {1, 2}
    OBVIOUS
  <2> DEFINE h(s) == LET x == Max(s) IN g[s \ {x}] + 1 + Len(m.records[x].options)
  <2>5. h({1}) = k + 2 /\ h({2}) = n + 2 /\ h({1, 2}) = k + n + 3
    BY <1>1, <2>2, <2>3, MaxIs
  <2>6. ASSUME NEW s \in SUBSET {1, 2}
        PROVE  g[s] = IF s = {} THEN 1 ELSE h(s)
    BY <2>1, <2>2, <2>4, <2>5
  <2>7. g = [s \in SUBSET {1, 2} |-> g[s]]
    OBVIOUS
  <2> HIDE DEF g
  <2> QED
    BY <1>1, <2>6, <2>7 DEF Sums
<1> DEFINE f == CHOOSE f : Sums(f, m)
<1>3. Sums(f, m)
  BY <1>2
<1> HIDE DEF f
<1>4. \A s \in SUBSET {1, 2} :
        f[s] = IF s = {} THEN 1 ELSE f[s \ {Max(s)}] + 1 + Len(m.records[Max(s)].options)
  BY <1>1, <1>3 DEF Sums
<1>5. /\ {1} \ {1} = {} /\ {1, 2} \ {2} = {1} /\ {1} # {} /\ {1, 2} # {}
      /\ {} \in SUBSET {1, 2} /\ {1} \in SUBSET {1, 2} /\ {1, 2} \in SUBSET {1, 2}
  OBVIOUS
<1>6. f[{}] = 1
  BY <1>4, <1>5, Zenon
<1>7. f[{1}] = f[{1} \ {1}] + 1 + Len(m.records[1].options)
  BY <1>4, <1>5, MaxIs, Zenon
<1>8. f[{1, 2}] = f[{1, 2} \ {2}] + 1 + Len(m.records[2].options)
  BY <1>4, <1>5, MaxIs, Zenon
<1>9. Length(m) = f[{1, 2}]
  BY <1>1, LengthSums DEF f
<1>10. f[{1}] = 1 + 1 + k
  BY <1>1, <1>5, <1>6, <1>7, Zenon
<1>11. f[{1, 2}] = f[{1}] + 1 + n
  BY <1>1, <1>5, <1>8
<1> QED
  BY <1>9, <1>10, <1>11

-----------------------------------------------------------------------------
(* Messages.                                                               *)

IsRecord(r) ==
    /\ r = [type |-> r.type, ttl |-> r.ttl, was |-> r.was, wants |-> r.wants,
            options |-> r.options]
    /\ r.type \in {"rr", "opt"} /\ r.ttl \in Nat /\ r.was \in Nat
    /\ r.type = "opt" => r.ttl = 0

\* The counts of the header are right, and the only OPT record is an additional one.
Formed(m) ==
    /\ m = Message(m.of, m.an, m.ns, m.ar, m.records)
    /\ m.an \in Nat /\ m.ns \in Nat /\ m.ar \in Nat
    /\ IsSeq(m.records) /\ Len(m.records) = m.an + m.ns + m.ar
    /\ \A i \in 1..Len(m.records) :
          /\ IsRecord(m.records[i])
          /\ m.records[i].type = "opt" => i > m.an + m.ns
    /\ \A i, j \in 1..Len(m.records) :
          m.records[i].type = "opt" /\ m.records[j].type = "opt" => i = j

LEMMA Parts ==
    ASSUME NEW of, NEW an, NEW ns, NEW ar, NEW records
    PROVE  LET m == Message(of, an, ns, ar, records) IN
           /\ m.of = of /\ m.an = an /\ m.ns = ns /\ m.ar = ar /\ m.records = records
           /\ \A y : [m EXCEPT !.records = y] = Message(of, an, ns, ar, y)
           /\ \A y : [m EXCEPT !.of = y] = Message(y, an, ns, ar, records)
BY DEF Message

LEMMA FormedParts ==
    ASSUME NEW m, Formed(m)
    PROVE  /\ m.an \in Nat /\ m.ns \in Nat /\ m.ar \in Nat
           /\ Len(m.records) = m.an + m.ns + m.ar /\ Len(m.records) \in Nat
           /\ IsSeq(m.records) /\ DOMAIN m.records = 1..Len(m.records)
           /\ \A y : [m EXCEPT !.records = y] = Message(m.of, m.an, m.ns, m.ar, y)
           /\ \A y : [m EXCEPT !.of = y] = Message(y, m.an, m.ns, m.ar, m.records)
<1>1. m = Message(m.of, m.an, m.ns, m.ar, m.records)
  BY DEF Formed
<1>2. /\ \A y : [m EXCEPT !.records = y] = Message(m.of, m.an, m.ns, m.ar, y)
      /\ \A y : [m EXCEPT !.of = y] = Message(y, m.an, m.ns, m.ar, m.records)
  BY <1>1, Parts
<1> QED
  BY <1>2 DEF Formed, IsSeq

LEMMA FormedIsWhole == ASSUME NEW m, Formed(m) PROVE Whole(m)
<1> DEFINE opts == {i \in DOMAIN m.records : m.records[i].type = "opt"}
<1>1. DOMAIN m.records = 1..Len(m.records)
  BY DEF Formed, IsSeq
<1>2. CASE opts = {}
  <2>1. Cardinality(opts) = 0
    BY <1>2, FS_EmptySet
  <2> QED
    BY <2>1 DEF Whole, Formed
<1>3. CASE opts # {}
  <2>1. PICK i \in opts : TRUE
    BY <1>3
  <2>2. opts = {i}
    BY <1>1, <2>1 DEF Formed
  <2>3. Cardinality(opts) = 1
    BY <2>2, FS_Singleton
  <2> QED
    BY <2>3 DEF Whole, Formed
<1> QED
  BY <1>2, <1>3

\* The OPT record of a message, if it has one.
LEMMA OptsOf ==
    ASSUME NEW m, Formed(m)
    PROVE  /\ Opts(m) = {i \in 1..Len(m.records) : m.records[i].type = "opt"}
           /\ \A i \in Opts(m) : Opts(m) = {i} /\ OptAt(m) = i
<1>1. DOMAIN m.records = 1..Len(m.records)
  BY DEF Formed, IsSeq
<1>2. Opts(m) = {i \in 1..Len(m.records) : m.records[i].type = "opt"}
  BY <1>1 DEF Opts, Additional, Formed
<1>3. ASSUME NEW i \in Opts(m) PROVE Opts(m) = {i} /\ OptAt(m) = i
  <2>1. Opts(m) = {i} /\ i \in Nat
    BY <1>2, <1>3 DEF Formed
  <2> QED
    BY <2>1 DEF OptAt
<1> QED
  BY <1>2, <1>3

LEMMA AppendOpt ==
    ASSUME NEW m, Formed(m), ~HasEdns(m), NEW r, IsRecord(r), r.type = "opt"
    PROVE  LET x == Append1(m, r) IN
           /\ Formed(x) /\ x.of = m.of /\ x.an = m.an /\ x.ns = m.ns
           /\ x.records = Append(m.records, r) /\ x.records[Len(x.records)] = r
           /\ Opts(x) = {Len(x.records)}
           /\ \A i \in 1..Len(m.records) : x.records[i] = m.records[i]
           /\ Len(x.records) = Len(m.records) + 1
<1> DEFINE x == Append1(m, r)
<1>1. \A i \in 1..Len(m.records) : m.records[i].type # "opt"
  BY OptsOf DEF HasEdns
<1>x. x = Message(m.of, m.an, m.ns, m.ar + 1, Append(m.records, r))
  BY DEF Append1
<1> HIDE DEF x
<1>y. /\ x.of = m.of /\ x.an = m.an /\ x.ns = m.ns /\ x.ar = m.ar + 1
      /\ x.records = Append(m.records, r)
  BY <1>x DEF Message
<1>2. /\ x = Message(x.of, x.an, x.ns, x.ar, x.records)
      /\ x.of = m.of /\ x.an = m.an /\ x.ns = m.ns /\ x.ar = m.ar + 1
      /\ x.records = Append(m.records, r)
  BY <1>x, <1>y
<1>3. /\ IsSeq(x.records) /\ Len(x.records) = Len(m.records) + 1
      /\ \A i \in 1..Len(m.records) : x.records[i] = m.records[i]
      /\ x.records[Len(x.records)] = r
  BY <1>2, AppendIs DEF Formed
<1>4. Len(m.records) \in Nat /\ Len(m.records) = m.an + m.ns + m.ar
      /\ m.an \in Nat /\ m.ns \in Nat /\ m.ar \in Nat
  BY FormedParts
<1>5. \A i \in 1..Len(x.records) : i \in 1..Len(m.records) \/ i = Len(x.records)
  BY <1>3, <1>4
<1>6. \A i \in 1..Len(x.records) :
         /\ IsRecord(x.records[i])
         /\ x.records[i].type = "opt" => i = Len(x.records)
  BY <1>1, <1>3, <1>5 DEF Formed
<1>7. Len(x.records) > x.an + x.ns /\ Len(x.records) = x.an + x.ns + x.ar
  <2>1. \A a, b, c \in Nat : a + b + c + 1 > a + b /\ a + b + c + 1 = a + b + (c + 1)
    OBVIOUS
  <2>2. Len(x.records) = m.an + m.ns + m.ar + 1
    BY <1>3, <1>4
  <2> QED
    BY <1>2, <1>4, <2>1, <2>2
<1>8. Formed(x)
  <2>1. x.an \in Nat /\ x.ns \in Nat /\ x.ar \in Nat
    BY <1>2, <1>4
  <2>2. \A i \in 1..Len(x.records) :
           /\ IsRecord(x.records[i])
           /\ x.records[i].type = "opt" => i > x.an + x.ns
    BY <1>6, <1>7
  <2>3. \A i, j \in 1..Len(x.records) :
           x.records[i].type = "opt" /\ x.records[j].type = "opt" => i = j
    BY <1>6
  <2> QED
    BY <1>2, <1>3, <1>7, <2>1, <2>2, <2>3 DEF Formed
<1>9. Opts(x) = {Len(x.records)}
  <2>1. Opts(x) = {i \in 1..Len(x.records) : x.records[i].type = "opt"}
    BY <1>8, OptsOf
  <2>2. Len(x.records) \in 1..Len(x.records)
    BY <1>3, <1>4
  <2> QED
    BY <1>3, <1>6, <2>1, <2>2
<1> QED
  BY <1>2, <1>3, <1>8, <1>9 DEF x

LEMMA SetOpt ==
    ASSUME NEW m, Formed(m), NEW k \in Opts(m), NEW r, IsRecord(r), r.type = "opt"
    PROVE  LET x == [m EXCEPT !.records[k] = r] IN
           /\ Formed(x) /\ x.of = m.of /\ x.an = m.an /\ x.ns = m.ns
           /\ Opts(x) = {k} /\ x.records[k] = r
           /\ Len(x.records) = Len(m.records)
           /\ \A i \in 1..Len(m.records) : i # k => x.records[i] = m.records[i]
<1> DEFINE x == [m EXCEPT !.records[k] = r]
<1>1. k \in 1..Len(m.records) /\ m.records[k].type = "opt" /\ Opts(m) = {k}
  BY OptsOf
<1>x. x = Message(m.of, m.an, m.ns, m.ar, [m.records EXCEPT ![k] = r])
  BY FormedParts
<1> HIDE DEF x
<1>y. /\ x.of = m.of /\ x.an = m.an /\ x.ns = m.ns /\ x.ar = m.ar
      /\ x.records = [m.records EXCEPT ![k] = r]
  BY <1>x DEF Message
<1>2. /\ x = Message(x.of, x.an, x.ns, x.ar, x.records)
      /\ x.of = m.of /\ x.an = m.an /\ x.ns = m.ns /\ x.ar = m.ar
      /\ x.records = [m.records EXCEPT ![k] = r]
  BY <1>x, <1>y
<1>3. /\ IsSeq(x.records) /\ Len(x.records) = Len(m.records)
      /\ \A i \in 1..Len(m.records) : x.records[i] = IF i = k THEN r ELSE m.records[i]
  <2>1. IsSeq(m.records)
    BY DEF Formed
  <2> QED
    BY <1>1, <1>2, <2>1, ExceptIs
<1>4. \A i \in 1..Len(x.records) :
         /\ IsRecord(x.records[i])
         /\ x.records[i].type = "opt" <=> i = k
  BY <1>1, <1>3 DEF Formed
<1>5. Formed(x)
  BY <1>1, <1>2, <1>3, <1>4 DEF Formed
<1>6. Opts(x) = {k}
  BY <1>1, <1>3, <1>4, <1>5, OptsOf
<1> QED
  BY <1>1, <1>2, <1>3, <1>5, <1>6 DEF x

\* The records are replaced one by one.
LEMMA SetRecords ==
    ASSUME NEW m, Formed(m), NEW y, IsSeq(y), Len(y) = Len(m.records),
           \A i \in 1..Len(y) : IsRecord(y[i]) /\ y[i].type = m.records[i].type
    PROVE  LET x == [m EXCEPT !.records = y] IN
           Formed(x) /\ x.of = m.of /\ x.an = m.an /\ x.records = y
<1> DEFINE x == [m EXCEPT !.records = y]
<1>1. x = Message(m.of, m.an, m.ns, m.ar, y)
  BY FormedParts
<1> HIDE DEF x
<1>2. x.of = m.of /\ x.an = m.an /\ x.ns = m.ns /\ x.ar = m.ar /\ x.records = y
  BY <1>1 DEF Message
<1>3. x = Message(x.of, x.an, x.ns, x.ar, x.records)
  BY <1>1, <1>2
<1>4. Formed(x)
  BY <1>2, <1>3 DEF Formed
<1> QED
  BY <1>2, <1>4 DEF x

LEMMA RecordParts ==
    ASSUME NEW r, IsRecord(r)
    PROVE  /\ \A w : LET x == [r EXCEPT !.wants = w] IN
                IsRecord(x) /\ x.type = r.type /\ x.wants = w
           /\ \A o : LET x == [r EXCEPT !.options = o] IN
                IsRecord(x) /\ x.type = r.type /\ x.wants = r.wants
           /\ \A t \in Nat : LET x == [r EXCEPT !.ttl = t] IN
                r.type = "rr" =>
                   IsRecord(x) /\ x.type = r.type /\ x.was = r.was /\ x.ttl = t
<1>1. r = [type |-> r.type, ttl |-> r.ttl, was |-> r.was, wants |-> r.wants,
           options |-> r.options]
  BY DEF IsRecord
<1>2. ASSUME NEW w
      PROVE  LET x == [r EXCEPT !.wants = w] IN
             IsRecord(x) /\ x.type = r.type /\ x.wants = w
  <2> DEFINE x == [r EXCEPT !.wants = w]
  <2>1. x = [type |-> r.type, ttl |-> r.ttl, was |-> r.was, wants |-> w, options |-> r.options]
    BY <1>1
  <2> HIDE DEF x
  <2> QED
    BY <2>1 DEF IsRecord, x
<1>3. ASSUME NEW o
      PROVE  LET x == [r EXCEPT !.options = o] IN
             IsRecord(x) /\ x.type = r.type /\ x.wants = r.wants
  <2> DEFINE x == [r EXCEPT !.options = o]
  <2>1. x = [type |-> r.type, ttl |-> r.ttl, was |-> r.was, wants |-> r.wants, options |-> o]
    BY <1>1
  <2> HIDE DEF x
  <2> QED
    BY <2>1 DEF IsRecord, x
<1>4. ASSUME NEW t \in Nat, r.type = "rr"
      PROVE  LET x == [r EXCEPT !.ttl = t] IN
             IsRecord(x) /\ x.type = r.type /\ x.was = r.was /\ x.ttl = t
  <2> DEFINE x == [r EXCEPT !.ttl = t]
  <2>1. x = [type |-> r.type, ttl |-> t, was |-> r.was, wants |-> r.wants,
             options |-> r.options]
    BY <1>1
  <2> HIDE DEF x
  <2> QED
    BY <2>1, <1>4 DEF IsRecord, x
<1> QED
  BY <1>2, <1>3, <1>4

LEMMA OptIs ==
    ASSUME NEW w, NEW o
    PROVE  /\ IsRecord(Opt(w, o)) /\ Opt(w, o).type = "opt" /\ Opt(w, o).wants = w
           /\ Opt(w, o).ttl = 0 /\ Opt(w, o).was = 0 /\ Opt(w, o).options = o
BY DEF Opt, IsRecord
LEMMA RecordIs ==
    ASSUME NEW t \in Nat
    PROVE  /\ IsRecord(Record(t)) /\ Record(t).type = "rr"
           /\ Record(t).ttl = t /\ Record(t).was = t /\ Record(t).options = <<>>
BY DEF Record, IsRecord

\* A question that may go upstream.
Asking(m) == Formed(m) /\ HasEdns(m) /\ m.records[OptAt(m)].wants

LEMMA AskingIs == ASSUME NEW m, Formed(m) PROVE Asking(AskingDnssec(m))
<1>1. CASE HasEdns(m)
  <2> DEFINE k == OptAt(m)
             r == [m.records[k] EXCEPT !.wants = TRUE]
  <2>1. k \in Opts(m) /\ k \in 1..Len(m.records) /\ m.records[k].type = "opt"
    BY <1>1, OptsOf DEF HasEdns
  <2>r. IsRecord(m.records[k])
    BY <2>1 DEF Formed
  <2>2. IsRecord(r) /\ r.type = "opt" /\ r.wants = TRUE
    <3> HIDE DEF k
    <3> QED
      BY <2>1, <2>r, RecordParts
  <2>3. AskingDnssec(m) = [m EXCEPT !.records[k] = r]
    BY <1>1 DEF AskingDnssec
  <2> HIDE DEF k, r
  <2> DEFINE x == [m EXCEPT !.records[k] = r]
  <2>4. Formed(x) /\ Opts(x) = {k} /\ x.records[k] = r
    BY <2>1, <2>2, SetOpt
  <2> HIDE DEF x
  <2>5. OptAt(x) = k /\ HasEdns(x)
    BY <2>4, OptsOf DEF HasEdns
  <2> QED
    BY <2>2, <2>3, <2>4, <2>5 DEF Asking, x
<1>2. CASE ~HasEdns(m)
  <2> DEFINE r == Opt(TRUE, <<>>)
             x == Append1(m, r)
  <2>1. IsRecord(r) /\ r.type = "opt" /\ r.wants = TRUE
    BY OptIs
  <2> HIDE DEF r
  <2>2. Formed(x) /\ Opts(x) = {Len(x.records)} /\ x.records[Len(x.records)] = r
    BY <1>2, <2>1, AppendOpt
  <2>3. AskingDnssec(m) = x
    BY <1>2 DEF AskingDnssec, r
  <2> HIDE DEF x
  <2>4. OptAt(x) = Len(x.records) /\ HasEdns(x)
    BY <2>2, OptsOf DEF HasEdns
  <2> QED
    BY <2>1, <2>2, <2>3, <2>4 DEF Asking
<1> QED
  BY <1>1, <1>2

LEMMA StrippedAsks == ASSUME NEW m, Asking(m) PROVE Asking(Stripped(m))
<1> DEFINE k == OptAt(m)
           r == [m.records[k] EXCEPT !.options = SelectSeq(@, LAMBDA o : o # "subnet")]
<1>1. k \in Opts(m) /\ k \in 1..Len(m.records) /\ m.records[k].type = "opt" /\ Formed(m)
  BY OptsOf DEF HasEdns, Asking
<1>r. IsRecord(m.records[k])
  BY <1>1 DEF Formed
<1>2. IsRecord(r) /\ r.type = "opt" /\ r.wants = m.records[k].wants
  <2> HIDE DEF k
  <2> QED
    BY <1>1, <1>r, RecordParts
<1>3. Stripped(m) = [m EXCEPT !.records[k] = r]
  BY DEF Stripped, Asking
<1>4. m.records[k].wants
  BY DEF Asking
<1> HIDE DEF k, r
<1> DEFINE x == [m EXCEPT !.records[k] = r]
<1>5. Formed(x) /\ Opts(x) = {k} /\ x.records[k] = r
  BY <1>1, <1>2, SetOpt
<1> HIDE DEF x
<1>6. OptAt(x) = k /\ HasEdns(x)
  BY <1>5, OptsOf DEF HasEdns
<1> QED
  BY <1>2, <1>3, <1>4, <1>5, <1>6 DEF Asking, x

-----------------------------------------------------------------------------
\* x is m with an option added, or cut behind one of its answers.
From(x, m) ==
    /\ Formed(x) /\ x.of = m.of /\ x.an <= m.an
    /\ x.an = m.an \/ Len(x.records) = x.an
    /\ \A i \in 1..Len(x.records) :
          \/ x.records[i].type = "opt"
          \/ i \in 1..Len(m.records) /\ x.records[i] = m.records[i]

LEMMA WithOptionFrom ==
    ASSUME NEW m, Formed(m), NEW o
    PROVE  From(WithOption(m, o), m) /\ WithOption(m, o).an = m.an
<1>n. m.an \in Nat /\ Len(m.records) \in Nat
  BY FormedParts
<1>1. CASE HasEdns(m)
  <2> DEFINE k == OptAt(m)
             r == [m.records[k] EXCEPT !.options = Append(@, o)]
  <2>1. k \in Opts(m) /\ k \in 1..Len(m.records) /\ m.records[k].type = "opt"
    BY <1>1, OptsOf DEF HasEdns
  <2>r. IsRecord(m.records[k])
    BY <2>1 DEF Formed
  <2>2. IsRecord(r) /\ r.type = "opt"
    <3> HIDE DEF k
    <3> QED
      BY <2>1, <2>r, RecordParts
  <2>3. WithOption(m, o) = [m EXCEPT !.records[k] = r]
    BY <1>1 DEF WithOption
  <2> HIDE DEF k, r
  <2> DEFINE x == [m EXCEPT !.records[k] = r]
  <2>4. /\ Formed(x) /\ x.of = m.of /\ x.an = m.an /\ Len(x.records) = Len(m.records)
        /\ x.records[k] = r
        /\ \A i \in 1..Len(m.records) : i # k => x.records[i] = m.records[i]
    BY <2>1, <2>2, SetOpt
  <2> HIDE DEF x
  <2> QED
    BY <1>n, <2>2, <2>3, <2>4 DEF From, x
<1>2. CASE ~HasEdns(m)
  <2> DEFINE r == Opt(FALSE, <<o>>)
             x == Append1(m, r)
  <2>1. IsRecord(r) /\ r.type = "opt"
    <3>1. IsRecord(Opt(FALSE, <<o>>)) /\ Opt(FALSE, <<o>>).type = "opt"
      BY DEF Opt, IsRecord
    <3> QED
      BY <3>1
  <2> HIDE DEF r
  <2>2. /\ Formed(x) /\ x.of = m.of /\ x.an = m.an /\ Len(x.records) = Len(m.records) + 1
        /\ x.records[Len(x.records)] = r
        /\ \A i \in 1..Len(m.records) : x.records[i] = m.records[i]
    BY <1>2, <2>1, AppendOpt
  <2>3. WithOption(m, o) = x
    BY <1>2 DEF WithOption, r
  <2> HIDE DEF x
  <2>4. \A i \in 1..Len(x.records) : i \in 1..Len(m.records) \/ i = Len(x.records)
    BY <1>n, <2>2
  <2> QED
    BY <1>n, <2>1, <2>2, <2>3, <2>4 DEF From
<1> QED
  BY <1>1, <1>2

\* Of some numbers below a bound one is the largest.
LEMMA LargestIs ==
    ASSUME NEW n \in Nat, NEW S, S \subseteq 0..n, S # {}
    PROVE  (CHOOSE k \in S : \A j \in S : j <= k) \in S
<1> DEFINE T == {n - k : k \in S}
<1>1. T \subseteq Nat /\ T # {}
  <2>1. PICK k \in S : TRUE
    OBVIOUS
  <2>2. n - k \in T
    OBVIOUS
  <2>3. \A j \in S : j \in 0..n /\ n - j \in Nat
    OBVIOUS
  <2> QED
    BY <2>2, <2>3
<1>2. PICK x \in T : \A y \in T : ~(<<y, x>> \in OpToRel(<, Nat))
  BY <1>1, WFMin, NatLessThanWellFounded
<1>3. \A y \in T : ~(y < x)
  BY <1>1, <1>2 DEF OpToRel
<1>4. PICK k \in S : x = n - k
  OBVIOUS
<1>5. \A j \in S : j <= k
  <2> TAKE j \in S
  <2>1. n - j \in T /\ ~(n - j < n - k)
    BY <1>3, <1>4
  <2> QED
    BY <2>1
<1> QED
  BY <1>5

LEMMA LengthSame ==
    ASSUME NEW x, NEW y, x.records = y.records PROVE Length(x) = Length(y)
BY DEF Length

LEMMA TruncatedFrom ==
    ASSUME NEW m, Formed(m)
    PROVE  From(Truncated(m), m) /\ Length(Truncated(m)) <= Limit
<1>n. /\ m.an \in Nat /\ m.ns \in Nat /\ m.ar \in Nat /\ Len(m.records) \in Nat
      /\ m.an <= Len(m.records) /\ IsSeq(m.records) /\ Limit \in Nat /\ Limit >= 4
  BY FormedParts, WireAssumption
<1>1. CASE Length(m) <= Limit
  BY <1>1, <1>n DEF Truncated, From
<1>2. CASE ~(Length(m) <= Limit)
  <2> DEFINE fits == {k \in 0..m.an : Length([m EXCEPT !.records = SubSeq(@, 1, k)]) <= Limit}
             kept == CHOOSE k \in fits : \A j \in fits : j <= k
             x == Message(m.of, kept, 0, 0, SubSeq(m.records, 1, kept))
  <2>1. Smaller(m.an, Len(m.records)) = m.an
    BY <1>n DEF Smaller
  <2>2. Truncated(m) = x
    BY <1>2, <2>1 DEF Truncated
  <2>3. \A k : [m EXCEPT !.records = SubSeq(@, 1, k)].records = SubSeq(m.records, 1, k)
    BY FormedParts DEF Message
  <2>4. 0 \in fits
    <3>1. SubSeq(m.records, 1, 0) = <<>>
      BY SubSeqEmpty
    <3>2. Length([m EXCEPT !.records = SubSeq(@, 1, 0)]) = 1
      BY <2>3, <3>1, LengthOfNone
    <3> QED
      BY <1>n, <3>2
  <2>5. kept \in fits
    <3>1. fits \subseteq 0..m.an /\ fits # {}
      BY <2>4
    <3> HIDE DEF fits
    <3> QED
      BY <1>n, <3>1, LargestIs
  <2>6. kept \in 0..m.an /\ Length([m EXCEPT !.records = SubSeq(@, 1, kept)]) <= Limit
    BY <2>5
  <2> HIDE DEF kept, fits
  <2>7. /\ x.of = m.of /\ x.an = kept /\ x.ns = 0 /\ x.ar = 0
        /\ x.records = SubSeq(m.records, 1, kept)
    BY DEF Message
  <2>8. x = Message(x.of, x.an, x.ns, x.ar, x.records)
    BY <2>7
  <2> HIDE DEF x
  <2>9. Length(x) <= Limit
    BY <2>3, <2>6, <2>7, LengthSame
  <2>10. /\ IsSeq(x.records) /\ Len(x.records) = kept
         /\ \A i \in 1..kept : x.records[i] = m.records[i]
    BY <1>n, <2>6, <2>7, PartIs
  <2>11. \A i \in 1..kept : i \in 1..Len(m.records) /\ m.records[i].type # "opt"
    <3> TAKE i \in 1..kept
    <3>1. i \in 1..Len(m.records) /\ ~(i > m.an + m.ns)
      BY <1>n, <2>6
    <3> QED
      BY <3>1 DEF Formed
  <2>12. Formed(x)
    <3>1. x.an \in Nat /\ x.ns \in Nat /\ x.ar \in Nat /\ Len(x.records) = x.an + x.ns + x.ar
      BY <1>n, <2>6, <2>7, <2>10
    <3>2. \A i \in 1..Len(x.records) : IsRecord(x.records[i]) /\ x.records[i].type # "opt"
      BY <2>10, <2>11 DEF Formed
    <3> QED
      BY <2>8, <2>10, <3>1, <3>2 DEF Formed
  <2> QED
    BY <1>n, <2>2, <2>6, <2>7, <2>9, <2>10, <2>11, <2>12 DEF From
<1> QED
  BY <1>1, <1>2

LEMMA SentFrom ==
    ASSUME NEW m, Formed(m), NEW c
    PROVE  From(Sent(c, m), m) /\ (c \in Udp => Length(Sent(c, m)) <= Limit)
<1>n. m.an \in Nat /\ Len(m.records) \in Nat
  BY FormedParts
<1>1. CASE c \notin Udp
  BY <1>1, <1>n DEF Sent, From
<1>2. CASE c \in Udp
  <2> DEFINE y == IF Carries(query[c], "cookie") THEN WithCookie(m) ELSE m
  <2>1. Formed(y) /\ From(y, m) /\ y.an = m.an
    BY <1>n, WithOptionFrom DEF WithCookie, From
  <2>2. Sent(c, m) = Truncated(y)
    BY <1>2 DEF Sent
  <2> HIDE DEF y
  <2> DEFINE x == Truncated(y)
  <2>3. From(x, y) /\ Length(x) <= Limit
    BY <2>1, TruncatedFrom
  <2> HIDE DEF x
  <2>4. From(x, m)
    BY <2>1, <2>3 DEF From
  <2> QED
    BY <2>2, <2>3, <2>4 DEF x
<1> QED
  BY <1>1, <1>2

-----------------------------------------------------------------------------
\* What is kept of an answer: the TTLs are the ones it came with.
Original(m) == Formed(m) /\ \A i \in 1..Len(m.records) : m.records[i].ttl = m.records[i].was

LEMMA FunctionIs ==
    ASSUME NEW n \in Nat, NEW y, y = [i \in 1..n |-> y[i]]
    PROVE  IsSeq(y) /\ Len(y) = n
<1>1. [i \in 1..n |-> y[i]] \in Seq({y[i] : i \in 1..n})
  BY IsASeq
<1>2. IsSeq(y)
  BY <1>1, SeqIs
<1>3. Len([i \in 1..n |-> y[i]]) = n
  OBVIOUS
<1> QED
  BY <1>2, <1>3

LEMMA AgedIs ==
    ASSUME NEW m, Original(m), NEW age \in Nat
    PROVE  LET x == Aged(m, age) IN
           /\ Formed(x) /\ x.of = m.of /\ x.an = m.an /\ Len(x.records) = Len(m.records)
           /\ \A i \in 1..Len(m.records) :
                 /\ x.records[i].was = m.records[i].was
                 /\ \/ x.records[i].ttl + age <= x.records[i].was
                    \/ x.records[i].ttl <= 1 /\ age > 0
                    \/ x.records[i].type = "opt"
<1>n. /\ Formed(m) /\ Len(m.records) \in Nat /\ DOMAIN m.records = 1..Len(m.records)
      /\ \A i \in 1..Len(m.records) : IsRecord(m.records[i]) /\ m.records[i].ttl = m.records[i].was
  BY FormedParts DEF Original, Formed
<1>1. CASE age = 0
  <2>1. Aged(m, age) = m
    BY <1>1 DEF Aged
  <2>2. \A i \in 1..Len(m.records) : m.records[i].ttl + age <= m.records[i].was
    <3> TAKE i \in 1..Len(m.records)
    <3>1. m.records[i].ttl = m.records[i].was /\ m.records[i].ttl \in Nat
      BY <1>n DEF IsRecord
    <3> QED
      BY <1>1, <3>1
  <2> QED
    BY <1>n, <2>1, <2>2
<1>2. CASE age # 0
  <2> DEFINE same(i) == m.records[i].type = "opt" \/ i > m.an + m.ns + m.ar
             y == [i \in 1..Len(m.records) |->
                     IF same(i) THEN m.records[i] ELSE Older(m.records[i], age)]
             x == [m EXCEPT !.records = y]
  <2>1. Aged(m, age) = x
    BY <1>n, <1>2 DEF Aged
  <2>2. IsSeq(y) /\ Len(y) = Len(m.records)
    BY <1>n, FunctionIs
  <2>3. ASSUME NEW i \in 1..Len(m.records)
        PROVE  /\ IsRecord(y[i]) /\ y[i].type = m.records[i].type
               /\ y[i].was = m.records[i].was
               /\ y[i].ttl + age <= y[i].was \/ y[i].ttl <= 1 \/ y[i].type = "opt"
    <3> DEFINE r == m.records[i]
    <3>1. IsRecord(r) /\ r.ttl = r.was /\ r.ttl \in Nat /\ (r.type = "rr" \/ r.type = "opt")
      BY <1>n DEF IsRecord
    <3>2. CASE same(i)
      <4>1. y[i] = r
        BY <3>2
      <4>2. ~(i > m.an + m.ns + m.ar)
        BY <1>n DEF Formed
      <4> QED
        BY <3>1, <3>2, <4>1, <4>2
    <3>3. CASE ~same(i)
      <4> DEFINE t == Larger(IF r.ttl > age THEN r.ttl - age ELSE 0, 1)
      <4>1. t \in Nat /\ (t + age <= r.was \/ t <= 1)
        BY <3>1 DEF Larger
      <4>2. y[i] = [r EXCEPT !.ttl = t]
        BY <3>3 DEF Older
      <4>3. r.type = "rr"
        BY <3>1, <3>3
      <4> HIDE DEF t, r, y
      <4>4. LET z == [r EXCEPT !.ttl = t] IN
            IsRecord(z) /\ z.type = r.type /\ z.was = r.was /\ z.ttl = t
        BY <3>1, <4>1, <4>3, RecordParts
      <4> QED
        BY <4>1, <4>2, <4>4 DEF r
    <3> QED
      BY <3>2, <3>3
  <2> HIDE DEF y
  <2>4. Formed(x) /\ x.of = m.of /\ x.an = m.an /\ x.records = y
    BY <1>n, <2>2, <2>3, SetRecords
  <2> HIDE DEF x
  <2> QED
    BY <1>2, <2>1, <2>2, <2>3, <2>4
<1> QED
  BY <1>1, <1>2

LEMMA CappedIs ==
    ASSUME NEW m, Original(m)
    PROVE  LET x == Capped(m) IN
           /\ Formed(x) /\ x.of = m.of /\ x.an = m.an /\ Len(x.records) = Len(m.records)
           /\ \A i \in 1..Len(m.records) :
                 /\ x.records[i].was = m.records[i].was
                 /\ i <= x.an => x.records[i].ttl <= StaleTtl
<1>n. /\ Formed(m) /\ Len(m.records) \in Nat /\ DOMAIN m.records = 1..Len(m.records)
      /\ m.an \in Nat /\ m.ns \in Nat /\ StaleTtl \in Nat
      /\ \A i \in 1..Len(m.records) : IsRecord(m.records[i])
  BY FormedParts, WireAssumption DEF Original, Formed
<1> DEFINE y == [i \in 1..Len(m.records) |->
                   IF i <= m.an THEN Cut(m.records[i]) ELSE m.records[i]]
           x == [m EXCEPT !.records = y]
<1>1. Capped(m) = x
  BY <1>n DEF Capped
<1>2. IsSeq(y) /\ Len(y) = Len(m.records)
  BY <1>n, FunctionIs
<1>3. ASSUME NEW i \in 1..Len(m.records)
      PROVE  /\ IsRecord(y[i]) /\ y[i].type = m.records[i].type
             /\ y[i].was = m.records[i].was
             /\ i <= m.an => y[i].ttl <= StaleTtl
  <2> DEFINE r == m.records[i]
  <2>1. IsRecord(r) /\ r.ttl \in Nat /\ (r.type = "rr" \/ r.type = "opt")
    BY <1>n DEF IsRecord
  <2>2. CASE ~(i <= m.an)
    BY <2>1, <2>2
  <2>3. CASE i <= m.an
    <3> DEFINE t == Smaller(r.ttl, StaleTtl)
    <3>1. t \in Nat /\ t <= StaleTtl
      BY <1>n, <2>1 DEF Smaller
    <3>2. y[i] = [r EXCEPT !.ttl = t]
      BY <2>3 DEF Cut
    <3>3. ~(i > m.an + m.ns)
      BY <1>n, <2>3
    <3>4. r.type = "rr"
      BY <1>n, <2>1, <3>3 DEF Formed
    <3> HIDE DEF t, r, y
    <3>5. LET z == [r EXCEPT !.ttl = t] IN
          IsRecord(z) /\ z.type = r.type /\ z.was = r.was /\ z.ttl = t
      BY <2>1, <3>1, <3>4, RecordParts
    <3> QED
      BY <3>1, <3>2, <3>5 DEF r
  <2> QED
    BY <2>2, <2>3
<1> HIDE DEF y
<1>4. Formed(x) /\ x.of = m.of /\ x.an = m.an /\ x.records = y
  BY <1>n, <1>2, <1>3, SetRecords
<1> HIDE DEF x
<1> QED
  BY <1>1, <1>2, <1>3, <1>4

LEMMA AddressedIs ==
    ASSUME NEW m, Formed(m), NEW c
    PROVE  LET x == Addressed(m, c) IN
           /\ Formed(x) /\ x.of = c /\ x.an = m.an /\ x.records = m.records
           /\ Length(x) = Length(m)
<1> DEFINE x == Addressed(m, c)
<1>1. x = Message(c, m.an, m.ns, m.ar, m.records)
  BY FormedParts DEF Addressed
<1> HIDE DEF x
<1>2. x.of = c /\ x.an = m.an /\ x.ns = m.ns /\ x.ar = m.ar /\ x.records = m.records
  BY <1>1 DEF Message
<1>3. x = Message(x.of, x.an, x.ns, x.ar, x.records)
  BY <1>1, <1>2
<1>4. Formed(x)
  BY <1>2, <1>3 DEF Formed
<1> QED
  BY <1>2, <1>4, LengthSame DEF x

-----------------------------------------------------------------------------
\* The messages that the model makes.
Parted(an, ns, ar, s) ==
    /\ an \in Nat /\ ns \in Nat /\ ar \in 0..1 /\ IsSeq(s) /\ Len(s) = an + ns + ar
    /\ \A i \in 1..(an + ns) : IsRecord(s[i]) /\ s[i].type = "rr"
    /\ ar = 1 => IsRecord(s[an + ns + 1])

LEMMA FormedNew ==
    ASSUME NEW of, NEW an, NEW ns, NEW ar, NEW s, Parted(an, ns, ar, s)
    PROVE  LET m == Message(of, an, ns, ar, s) IN
           Formed(m) /\ m.of = of /\ m.an = an /\ m.ns = ns /\ m.records = s
<1>s. /\ an \in Nat /\ ns \in Nat /\ ar \in 0..1 /\ IsSeq(s) /\ Len(s) = an + ns + ar
      /\ \A i \in 1..(an + ns) : IsRecord(s[i]) /\ s[i].type = "rr"
      /\ ar = 1 => IsRecord(s[an + ns + 1])
  BY DEF Parted
<1> DEFINE m == Message(of, an, ns, ar, s)
<1>1. m.of = of /\ m.an = an /\ m.ns = ns /\ m.ar = ar /\ m.records = s
  BY DEF Message
<1>2. m = Message(m.of, m.an, m.ns, m.ar, m.records)
  BY <1>1
<1> HIDE DEF m
<1>3. \A i \in 1..Len(s) : i \in 1..(an + ns) \/ (ar = 1 /\ i = an + ns + 1)
  BY <1>s
<1>4. \A i \in 1..Len(s) : IsRecord(s[i])
  BY <1>s, <1>3
<1>5. \A i \in 1..Len(s) : s[i].type = "opt" => ar = 1 /\ i = an + ns + 1
  BY <1>s, <1>3
<1>6. \A i \in 1..Len(s) : s[i].type = "opt" => i > an + ns
  BY <1>s, <1>5
<1>7. \A i, j \in 1..Len(s) : s[i].type = "opt" /\ s[j].type = "opt" => i = j
  BY <1>s, <1>5
<1>8. Formed(m)
  BY <1>s, <1>1, <1>2, <1>4, <1>6, <1>7 DEF Formed
<1> QED
  BY <1>1, <1>8 DEF m

LEMMA NothingIs == Formed(Nothing) /\ Original(Nothing) /\ Length(Nothing) = 1 /\ Nothing.an = 0
<1>1. IsSeq(<<>>) /\ Len(<<>>) = 0
  BY DEF IsSeq
<1>2. Nothing.records = <<>> /\ Nothing.an = 0
  BY DEF Nothing, Message
<1>s. Parted(0, 0, 0, <<>>)
  BY <1>1 DEF Parted
<1>3. Formed(Nothing)
  BY <1>s, FormedNew DEF Nothing
<1> QED
  BY <1>1, <1>2, <1>3, LengthOfNone DEF Original

LEMMA PairIs ==
    ASSUME NEW x, NEW y
    PROVE  /\ IsSeq(<<x, y>>) /\ Len(<<x, y>>) = 2 /\ <<x, y>>[1] = x /\ <<x, y>>[2] = y
           /\ Append(<<x>>, y) = <<x, y>>
<1>1. <<x, y>> \in Seq({x, y})
  OBVIOUS
<1>2. IsSeq(<<x, y>>)
  BY <1>1, SeqIs
<1>3. Append(<<x>>, y) = <<x, y>>
  <2> DEFINE s == Append(<<x>>, y)
             t == <<x, y>>
  <2>1. IsSeq(s) /\ Len(s) = 2 /\ s[1] = x /\ s[2] = y
    <3>1. IsSeq(<<x>>) /\ Len(<<x>>) = 1 /\ <<x>>[1] = x
      BY Singles
    <3> QED
      BY <3>1, AppendIs
  <2>2. IsSeq(t) /\ Len(t) = 2 /\ t[1] = x /\ t[2] = y
    BY <1>2
  <2> HIDE DEF s, t
  <2>3. \A i \in 1..2 : s[i] = t[i]
    <3>1. \A i \in 1..2 : i = 1 \/ i = 2
      OBVIOUS
    <3> QED
      BY <2>1, <2>2, <3>1
  <2>4. s = [i \in 1..2 |-> s[i]] /\ t = [i \in 1..2 |-> t[i]]
    BY <2>1, <2>2 DEF IsSeq
  <2>5. s = t
    BY <2>3, <2>4
  <2> QED
    BY <2>5 DEF s, t
<1> QED
  BY <1>2, <1>3

\* What upstreams answer is well formed, and says its TTLs.
LEMMA SectionsAre ==
    ASSUME NEW s \in Sections
    PROVE  /\ IsSeq(s)
           /\ \A i \in 1..Len(s) : IsRecord(s[i]) /\ s[i].type = "rr" /\ s[i].ttl = s[i].was
<1>n. Declared \subseteq Nat /\ MinFresh \in Nat /\ Limit \in Nat
  BY WireAssumption
<1>1. CASE s \in {<<Record(t)>> : t \in Declared}
  <2>1. PICK t \in Declared : s = <<Record(t)>>
    BY <1>1
  <2>2. IsSeq(s) /\ Len(s) = 1 /\ s[1] = Record(t)
    BY <2>1, Singles
  <2>3. IsRecord(Record(t)) /\ Record(t).type = "rr" /\ Record(t).ttl = Record(t).was
    BY <1>n, RecordIs
  <2> QED
    BY <2>2, <2>3
<1>2. CASE s \in {<<Record(t), Record(u)>> : t, u \in Declared}
  <2>1. PICK t \in Declared, u \in Declared : s = <<Record(t), Record(u)>>
    BY <1>2
  <2>2. IsSeq(s) /\ Len(s) = 2 /\ s[1] = Record(t) /\ s[2] = Record(u)
    BY <2>1, PairIs
  <2>3. \A v \in Declared :
           IsRecord(Record(v)) /\ Record(v).type = "rr" /\ Record(v).ttl = Record(v).was
    BY <1>n, RecordIs
  <2> QED
    BY <2>2, <2>3
<1>3. CASE s = [i \in 1..Limit |-> Record(MinFresh)]
  <2>1. \A i \in 1..Limit : s[i] = Record(MinFresh)
    BY <1>3
  <2>2. s = [i \in 1..Limit |-> s[i]]
    BY <1>3
  <2>3. IsSeq(s) /\ Len(s) = Limit
    BY <1>n, <2>2, FunctionIs
  <2>4. /\ IsRecord(Record(MinFresh)) /\ Record(MinFresh).type = "rr"
        /\ Record(MinFresh).ttl = Record(MinFresh).was
    BY <1>n, RecordIs
  <2> QED
    BY <2>1, <2>3, <2>4
<1> QED
  BY <1>1, <1>2, <1>3 DEF Sections

\* An answer of one section and an OPT record, or none.
LEMMA AnswerIs ==
    ASSUME NEW of, NEW s \in Sections, NEW ar \in 0..1
    PROVE  Original(Message(of, Len(s), 0, ar, s \o SubSeq(<<Opt(TRUE, <<>>)>>, 1, ar)))
<1> DEFINE o == Opt(TRUE, <<>>)
           t == SubSeq(<<o>>, 1, ar)
           z == s \o t
           m == Message(of, Len(s), 0, ar, z)
<1>1. IsRecord(o) /\ o.type = "opt" /\ o.ttl = o.was
  BY DEF Opt, IsRecord
<1> HIDE DEF o
<1>2. IsSeq(<<o>>) /\ Len(<<o>>) = 1 /\ <<o>>[1] = o
  BY Singles
<1>3. IsSeq(t) /\ Len(t) = ar /\ \A i \in 1..ar : t[i] = <<o>>[i]
  BY <1>2, PartIs
<1>4. /\ IsSeq(s) /\ Len(s) \in Nat
      /\ \A i \in 1..Len(s) : IsRecord(s[i]) /\ s[i].type = "rr" /\ s[i].ttl = s[i].was
  BY SectionsAre DEF IsSeq
<1> HIDE DEF t
<1>5. /\ IsSeq(z) /\ Len(z) = Len(s) + ar
      /\ \A i \in 1..Len(s) : z[i] = s[i]
      /\ \A i \in 1..ar : z[Len(s) + i] = t[i]
  BY <1>3, <1>4, ConcatIs
<1>6. ar = 1 => z[Len(s) + 1] = o
  BY <1>2, <1>3, <1>5
<1> HIDE DEF z
<1>7. /\ Len(z) = Len(s) + 0 + ar
      /\ \A i \in 1..(Len(s) + 0) : IsRecord(z[i]) /\ z[i].type = "rr"
      /\ ar = 1 => IsRecord(z[Len(s) + 0 + 1])
  BY <1>1, <1>4, <1>5, <1>6
<1>s. Parted(Len(s), 0, ar, z)
  BY <1>4, <1>5, <1>7 DEF Parted
<1>8. Formed(m) /\ m.records = z
  BY <1>s, FormedNew
<1>9. \A i \in 1..Len(z) : i \in 1..Len(s) \/ (ar = 1 /\ i = Len(s) + 1)
  BY <1>4, <1>5
<1>10. \A i \in 1..Len(z) : z[i].ttl = z[i].was
  BY <1>1, <1>4, <1>5, <1>6, <1>9
<1> HIDE DEF m
<1>11. Original(m)
  BY <1>8, <1>10 DEF Original
<1> QED
  BY <1>11 DEF m, z, t, o

LEMMA NoAnswerIs ==
    ASSUME NEW of, NEW t \in Nat
    PROVE  Original(Message(of, 0, 1, 1, <<Record(t), Opt(TRUE, <<>>)>>))
<1> DEFINE o == Opt(TRUE, <<>>)
           r == Record(t)
           z == <<r, o>>
           m == Message(of, 0, 1, 1, z)
<1>1. IsRecord(o) /\ o.ttl = o.was
  BY DEF Opt, IsRecord
<1>2. IsRecord(r) /\ r.type = "rr" /\ r.ttl = r.was
  BY RecordIs
<1> HIDE DEF o, r
<1>3. IsSeq(z) /\ Len(z) = 2 /\ z[1] = r /\ z[2] = o
  BY PairIs
<1> HIDE DEF z
<1>4. /\ Len(z) = 0 + 1 + 1
      /\ \A i \in 1..(0 + 1) : IsRecord(z[i]) /\ z[i].type = "rr"
      /\ IsRecord(z[0 + 1 + 1])
  BY <1>1, <1>2, <1>3
<1>s. Parted(0, 1, 1, z)
  BY <1>3, <1>4 DEF Parted
<1>5. Formed(m) /\ m.records = z
  BY <1>s, FormedNew
<1>6. \A i \in 1..Len(z) : z[i].ttl = z[i].was
  BY <1>1, <1>2, <1>3
<1> HIDE DEF m
<1>7. Original(m)
  BY <1>5, <1>6 DEF Original
<1> QED
  BY <1>7 DEF m, z, o, r

LEMMA ResponsesAre == ASSUME NEW of, NEW m \in Responses(of) PROVE Original(m)
<1> DEFINE f(s, ar) == Message(of, Len(s), 0, ar, s \o SubSeq(<<Opt(TRUE, <<>>)>>, 1, ar))
           X == {f(s, ar) : s \in Sections, ar \in 0..1}
           Y == {Message(of, 0, 1, 1, <<Record(t), Opt(TRUE, <<>>)>>) : t \in Declared}
<1>1. Responses(of) = X \cup Y
  BY DEF Responses
<1>2. ASSUME m \in X PROVE Original(m)
  <2>1. \A s \in Sections, ar \in 0..1 : Original(f(s, ar))
    BY AnswerIs
  <2> HIDE DEF f
  <2>2. PICK s \in Sections, ar \in 0..1 : m = f(s, ar)
    BY <1>2, SMT
  <2> QED
    BY <2>1, <2>2
<1>3. ASSUME m \in Y PROVE Original(m)
  <2>1. Declared \subseteq Nat
    BY WireAssumption
  <2>2. PICK t \in Declared : m = Message(of, 0, 1, 1, <<Record(t), Opt(TRUE, <<>>)>>)
    BY <1>3
  <2> QED
    BY <2>1, <2>2, NoAnswerIs
<1> HIDE DEF X, Y
<1> QED
  BY <1>1, <1>2, <1>3

LEMMA ReferralIs == ASSUME NEW of PROVE Original(Referral(of))
BY NoAnswerIs DEF Referral

-----------------------------------------------------------------------------
\* Questions, and what the server makes of them itself.
Question(q, c) == Formed(q) /\ q.of = c /\ q.an = 0 /\ q.ns = 0
\* A reply with room for another record and an option.
Roomy(m) == Formed(m) /\ Length(m) <= Limit

LEMMA QueriesAre ==
    ASSUME Notify = FALSE, NEW c, NEW q \in Queries(c) PROVE Question(q, c)
<1> DEFINE g(o) == Message(c, 0, 0, 1, <<Opt(FALSE, o)>>)
<1>1. q = Message(c, 0, 0, 0, <<>>) \/ \E o \in Options : q = g(o)
  <2>1. q \in {Message(c, 0, 0, 0, <<>>)} \cup {g(o) : o \in Options}
    BY Zenon DEF Queries
  <2> HIDE DEF g
  <2> QED
    BY <2>1
<1>2. CASE q = Message(c, 0, 0, 0, <<>>)
  <2>1. Parted(0, 0, 0, <<>>)
    <3>1. IsSeq(<<>>) /\ Len(<<>>) = 0
      BY DEF IsSeq
    <3> QED
      BY <3>1 DEF Parted
  <2> QED
    BY <1>2, <2>1, FormedNew DEF Question
<1>3. ASSUME NEW o \in Options, q = g(o) PROVE Question(q, c)
  <2> DEFINE r == Opt(FALSE, o)
  <2>1. IsRecord(r)
    BY DEF Opt, IsRecord
  <2> HIDE DEF r
  <2>2. IsSeq(<<r>>) /\ Len(<<r>>) = 1 /\ <<r>>[1] = r
    BY Singles
  <2>3. Parted(0, 0, 1, <<r>>)
    BY <2>1, <2>2 DEF Parted
  <2>4. q = Message(c, 0, 0, 1, <<r>>)
    BY <1>3 DEF r
  <2> QED
    BY <2>3, <2>4, FormedNew DEF Question
<1> QED
  BY <1>1, <1>2, <1>3

LEMMA EchoIs == ASSUME NEW q, NEW c, Question(q, c) PROVE Echo(q) = q
BY DEF Question, Formed, Echo

\* A reply of at most one record, with an option put into it or not.
LEMMA LittleIs ==
    ASSUME NEW c, NEW m,
           m \in {Message(c, 1, 0, 0, <<Record(0)>>), Message(c, 0, 0, 0, <<>>)}
    PROVE  Roomy(m) /\ m.of = c /\ Roomy(WithEde(m)) /\ WithEde(m).of = c
<1>l. Limit \in Nat /\ Limit >= 4
  BY WireAssumption
<1> DEFINE r == Record(0)
           o == Opt(FALSE, <<"ede">>)
           x == WithEde(m)
<1>r. IsRecord(r) /\ r.type = "rr" /\ r.options = <<>>
  BY RecordIs
<1>o. IsRecord(o) /\ o.type = "opt" /\ Len(o.options) = 1
  BY DEF Opt, IsRecord
<1>1. CASE m = Message(c, 1, 0, 0, <<r>>)
  <2> HIDE DEF r, o
  <2>1. IsSeq(<<r>>) /\ Len(<<r>>) = 1 /\ <<r>>[1] = r
    BY Singles
  <2>2. Parted(1, 0, 0, <<r>>)
    BY <1>r, <2>1 DEF Parted
  <2>3. Formed(m) /\ m.of = c /\ m.records = <<r>>
    BY <1>1, <2>2, FormedNew
  <2>4. Length(m) = 2
    BY <1>r, <2>3, LengthOfOne
  <2>5. ~HasEdns(m)
    BY <1>r, <2>1, <2>3, OptsOf DEF HasEdns
  <2>6. x = Append1(m, o)
    BY <2>5 DEF WithEde, WithOption, o
  <2> HIDE DEF x
  <2>a. Formed(m)
    BY <2>3
  <2>b. Formed(x) /\ x.of = m.of /\ x.records = Append(m.records, o)
    BY <1>o, <2>a, <2>5, <2>6, AppendOpt
  <2>7. Formed(x) /\ x.of = c /\ x.records = Append(<<r>>, o)
    BY <2>3, <2>b
  <2>8. x.records = <<r, o>>
    BY <2>7, PairIs
  <2>9. Len(r.options) = 0
    BY <1>r
  <2>10. Length(x) = 0 + 1 + 3
    <3>1. Len(r.options) \in Nat /\ Len(o.options) \in Nat
      BY <1>o, <2>9
    <3>2. Length(x) = Len(r.options) + Len(o.options) + 3
      BY <2>8, <3>1, LengthOfTwo
    <3> QED
      BY <1>o, <2>9, <3>2
  <2> QED
    BY <1>l, <2>3, <2>4, <2>7, <2>10 DEF Roomy, x
<1>2. CASE m = Message(c, 0, 0, 0, <<>>)
  <2> HIDE DEF o
  <2>1. IsSeq(<<>>) /\ Len(<<>>) = 0
    BY DEF IsSeq
  <2>2. Parted(0, 0, 0, <<>>)
    BY <2>1 DEF Parted
  <2>3. Formed(m) /\ m.of = c /\ m.records = <<>>
    BY <1>2, <2>2, FormedNew
  <2>4. Length(m) = 1
    BY <2>3, LengthOfNone
  <2>5. ~HasEdns(m)
    BY <2>1, <2>3, OptsOf DEF HasEdns
  <2>6. x = Append1(m, o)
    BY <2>5 DEF WithEde, WithOption, o
  <2> HIDE DEF x
  <2>7. Formed(x) /\ x.of = c /\ x.records = Append(<<>>, o)
    BY <1>o, <2>3, <2>5, <2>6, AppendOpt
  <2>8. x.records = <<o>>
    BY <2>7
  <2>9. Length(x) = 1 + 2
    BY <1>o, <2>8, LengthOfOne
  <2> QED
    BY <1>l, <2>3, <2>4, <2>7, <2>9 DEF Roomy, x
<1> QED
  BY <1>1, <1>2

LEMMA BlockedAre ==
    ASSUME NEW q, NEW m, m \in Blocked(q) \cup {Small(q)}
    PROVE  Roomy(m) /\ m.of = q.of
<1>1. /\ Roomy(Small(q)) /\ Small(q).of = q.of
      /\ Roomy(WithEde(Small(q))) /\ WithEde(Small(q)).of = q.of
  BY LittleIs DEF Small
<1>2. /\ Roomy(NoData(q)) /\ NoData(q).of = q.of
      /\ Roomy(WithEde(NoData(q))) /\ WithEde(NoData(q)).of = q.of
  BY LittleIs DEF NoData
<1>3. \/ m = Small(q) \/ m = WithEde(Small(q))
      \/ m = NoData(q) \/ m = WithEde(NoData(q))
  BY DEF Blocked, EdeIfEdns
<1> QED
  BY <1>1, <1>2, <1>3

LEMMA OwnRepliesAre ==
    ASSUME NEW c, NEW q, Question(q, c), NEW m \in OwnReplies(q)
    PROVE  Formed(m) /\ m.of = c
<1>1. CASE m = Echo(q)
  BY <1>1, EchoIs DEF Question
<1>2. CASE m = WithEde(Echo(q))
  BY <1>2, EchoIs, WithOptionFrom DEF Question, WithEde, From
<1>3. CASE m = WithEde(Small(q))
  BY <1>3, LittleIs DEF Small, Roomy, Question
<1>4. CASE m \in Blocked(q) \cup {Small(q)}
  BY <1>4, BlockedAre DEF Roomy, Question
<1> QED
  BY <1>1, <1>2, <1>3, <1>4 DEF OwnReplies

-----------------------------------------------------------------------------
(* What one step does to a client.                                         *)

LEMMA RepliedIs ==
    ASSUME NEW to, NEW replies, NEW m, Replied(to, replies, m)
    PROVE  /\ outbound' = m
           /\ query' = [d \in Client |-> query'[d]] /\ pc' = [d \in Client |-> pc'[d]]
           /\ \A d \in Client :
                 IF d \in to THEN reply'[d] = replies[d] /\ pc'[d] = "idle"
                 ELSE reply'[d] = NoReply /\ pc'[d] = pc[d] /\ query'[d] = query[d]
<1>1. /\ outbound' = m
      /\ pc' = [c \in Client |-> IF c \in to THEN "idle" ELSE pc[c]]
      /\ query' = [c \in Client |-> IF c \in to THEN Nothing ELSE query[c]]
      /\ reply' = [c \in Client |-> IF c \in to THEN replies[c] ELSE NoReply]
  BY DEF Replied
<1> QED
  BY <1>1

LEMMA ToldIs ==
    ASSUME NEW c, NEW r, Told(c, r)
    PROVE  /\ outbound' = Unsent
           /\ query' = [d \in Client |-> query'[d]] /\ pc' = [d \in Client |-> pc'[d]]
           /\ \A d \in Client :
                 IF d = c THEN reply'[d] = r /\ pc'[d] = "idle"
                 ELSE reply'[d] = NoReply /\ pc'[d] = pc[d] /\ query'[d] = query[d]
<1> DEFINE f == [d \in {c} |-> r]
<1>1. Replied({c}, f, Unsent)
  BY DEF Told
<1>2. f[c] = r
  OBVIOUS
<1> HIDE DEF f
<1> QED
  BY <1>1, <1>2, RepliedIs

LEMMA MovedIs ==
    ASSUME NEW who, NEW where, NEW m, Moved(who, where, m)
    PROVE  /\ outbound' = m /\ query' = query
           /\ pc' = [d \in Client |-> IF d \in who THEN where ELSE pc[d]]
           /\ \A d \in Client : reply'[d] = NoReply
BY DEF Moved, NoReplies

-----------------------------------------------------------------------------
(* The TTLs.                                                               *)

\* An entry lives as long as its message, or the prefetch it is from, allows, at most.
Kept(e) ==
    /\ e = [message |-> e.message, fresh |-> e.fresh, age |-> e.age, by |-> e.by]
    /\ Original(e.message) /\ e.fresh \in Nat /\ e.age \in Nat /\ e.fresh <= Life(e.message, e.by)
\* TtlsBounded, for one reply.
Bounded(x) ==
    \A i \in DOMAIN x.message.records :
        LET r == x.message.records[i]
            life == Larger(r.was, Life(x.message, x.by)) IN
        /\ x.how = "fresh" => r.ttl + x.age <= life
        /\ x.how = "stale" /\ i <= x.message.an => r.ttl + x.age <= life + Grace + StaleTtl

LEMMA OthersBounded ==
    ASSUME NEW x, x.how \in {"none", "local", "miss"} PROVE Bounded(x)
BY DEF Bounded

LEMMA NoneBounded == Bounded(NoReply)
BY OthersBounded DEF NoReply

LEMMA UncachedKept == Kept(Uncached)
<1>1. /\ Uncached = [message |-> Nothing, fresh |-> 0, age |-> 0, by |-> "nobody"]
      /\ Uncached.message = Nothing /\ Uncached.fresh = 0 /\ Uncached.age = 0
      /\ Uncached.by = "nobody"
  BY DEF Uncached
<1>2. Life(Nothing, "nobody") = Unanswered /\ Unanswered \in Nat
  BY NothingIs, WireAssumption DEF Life
<1>3. Original(Nothing)
  BY NothingIs
<1> HIDE DEF Uncached
<1> QED
  BY <1>1, <1>2, <1>3 DEF Kept

LEMMA EntryKept ==
    ASSUME NEW m, Original(m), NEW smart \in Nat PROVE Kept(Entry(m, smart))
<1>n. /\ m.an \in Nat /\ m.ns \in Nat /\ m.ar \in Nat /\ Len(m.records) = m.an + m.ns + m.ar
      /\ Unanswered \in Nat /\ MinFresh \in Nat
  BY FormedParts, WireAssumption DEF Original
<1> DEFINE fresh == IF m.an = 0 THEN Unanswered
                    ELSE Larger(Smaller(AnswerTtl(m), smart), MinFresh)
           e == Entry(m, smart)
<1>1. /\ e = [message |-> m, age |-> 0, fresh |-> fresh, by |-> "question"]
      /\ e.message = m /\ e.age = 0 /\ e.fresh = fresh /\ e.by = "question"
  BY DEF Entry
<1>2. fresh \in Nat /\ fresh <= Life(m, "question")
  <2>1. CASE m.an = 0
    BY <1>n, <2>1 DEF Life
  <2>2. CASE m.an # 0
    <3>1. 1 \in 1..Len(m.records)
      BY <1>n, <2>2
    <3>2. m.records[1].ttl = m.records[1].was /\ m.records[1].was \in Nat
      BY <3>1 DEF Original, Formed, IsRecord
    <3>3. fresh = Larger(Smaller(m.records[1].was, smart), MinFresh)
      BY <2>2, <3>2 DEF AnswerTtl
    <3>4. Life(m, "question") = Larger(m.records[1].was, MinFresh)
      BY <2>2 DEF Life
    <3> HIDE DEF fresh
    <3> QED
      BY <1>n, <3>2, <3>3, <3>4 DEF Larger, Smaller
  <2> QED
    BY <2>1, <2>2
<1> HIDE DEF e, fresh
<1>3. Kept(e)
  BY <1>1, <1>2 DEF Kept
<1> QED
  BY <1>3 DEF e

LEMMA PrefetchedKept ==
    ASSUME NEW m, Original(m) PROVE Kept(Prefetched(m))
<1> DEFINE fresh == Larger(PrefetchLife, MinFresh)
           e == Prefetched(m)
<1>1. /\ e = [message |-> m, age |-> 0, fresh |-> fresh, by |-> "prefetch"]
      /\ e.message = m /\ e.age = 0 /\ e.fresh = fresh /\ e.by = "prefetch"
  BY DEF Prefetched
<1>2. fresh \in Nat /\ fresh = Life(m, "prefetch")
  BY WireAssumption DEF Larger, Life
<1> HIDE DEF e, fresh
<1>3. Kept(e)
  BY <1>1, <1>2 DEF Kept
<1> QED
  BY <1>3 DEF e

\* Whoever has waited for the flight, what is stored is kept.
LEMMA StoredKept ==
    ASSUME NEW m, Original(m), NEW smart \in Nat, NEW e \in Stored(m, smart)
    PROVE  Kept(e) /\ e.message = m /\ e.age = 0
<1>1. e = Entry(m, smart) \/ e = Prefetched(m)
  BY DEF Stored
<1>2. /\ Entry(m, smart).message = m /\ Entry(m, smart).age = 0
      /\ Prefetched(m).message = m /\ Prefetched(m).age = 0
  BY DEF Entry, Prefetched
<1> QED
  BY <1>1, <1>2, EntryKept, PrefetchedKept

LEMMA LifeNat == ASSUME NEW m, Formed(m), NEW by PROVE Life(m, by) \in Nat
<1>n. /\ m.an \in Nat /\ m.ns \in Nat /\ m.ar \in Nat /\ Len(m.records) = m.an + m.ns + m.ar
      /\ Unanswered \in Nat /\ MinFresh \in Nat /\ PrefetchLife \in Nat
  BY FormedParts, WireAssumption
<1>0. CASE by = "prefetch"
  BY <1>n, <1>0 DEF Life, Larger
<1>1. CASE by # "prefetch" /\ m.an = 0
  BY <1>n, <1>1 DEF Life
<1>2. CASE by # "prefetch" /\ m.an # 0
  <2>1. 1 \in 1..Len(m.records)
    BY <1>n, <1>2
  <2>2. m.records[1].was \in Nat
    BY <2>1 DEF Formed, IsRecord
  <2> QED
    BY <1>n, <1>2, <2>2 DEF Life, Larger
<1> QED
  BY <1>0, <1>1, <1>2

\* A message that is kept, z what is told of it, and x what is sent of that.
LEMMA LifeSame ==
    ASSUME NEW m, Formed(m), NEW z, Formed(z), z.an = m.an,
           Len(z.records) = Len(m.records),
           \A i \in 1..Len(m.records) : z.records[i].was = m.records[i].was,
           NEW x, From(x, z), NEW i \in 1..Len(x.records), NEW by
    PROVE  Life(x, by) = Life(m, by)
<1>n. /\ m.an \in Nat /\ m.ns \in Nat /\ m.ar \in Nat /\ Len(m.records) = m.an + m.ns + m.ar
      /\ x.an \in Nat /\ x.ns \in Nat /\ x.ar \in Nat /\ Len(x.records) = x.an + x.ns + x.ar
      /\ x.an <= m.an /\ (x.an = m.an \/ Len(x.records) = x.an) /\ Formed(x)
  <2>1. Formed(x) /\ x.an <= m.an /\ (x.an = m.an \/ Len(x.records) = x.an)
    BY DEF From
  <2> QED
    BY <2>1, FormedParts
<1>1. CASE x.an = 0
  <2>1. m.an = 0
    BY <1>n, <1>1
  <2> QED
    BY <1>1, <2>1 DEF Life
<1>2. CASE x.an # 0
  <2>1. 1 \in 1..Len(x.records) /\ 1 \in 1..Len(m.records) /\ ~(1 > x.an + x.ns) /\ m.an # 0
    BY <1>n, <1>2
  <2>2. x.records[1].type # "opt"
    BY <1>n, <2>1 DEF Formed
  <2>3. x.records[1] = z.records[1]
    BY <2>1, <2>2 DEF From
  <2>4. x.records[1].was = m.records[1].was
    BY <2>1, <2>3
  <2> QED
    BY <1>2, <2>1, <2>4 DEF Life
<1> QED
  BY <1>1, <1>2

LEMMA FreshBounded ==
    ASSUME Kept(cache), IsFresh, NEW c
    PROVE  Bounded(FromCache(c, Addressed(Aged(cache.message, cache.age), c), "fresh"))
<1> DEFINE m == cache.message
           age == cache.age
           by == cache.by
           y == Aged(m, age)
           z == Addressed(y, c)
           x == Sent(c, z)
<1>1. Original(m) /\ Formed(m) /\ age \in Nat /\ age < cache.fresh /\ cache.fresh <= Life(m, by)
      /\ cache.fresh \in Nat
  BY DEF Kept, IsFresh, Original
<1>2. Life(m, by) \in Nat /\ age + 1 <= Life(m, by)
  BY <1>1, LifeNat
<1> HIDE DEF m, age, by
<1>3. /\ Formed(y) /\ y.an = m.an /\ Len(y.records) = Len(m.records)
      /\ \A i \in 1..Len(m.records) :
            /\ y.records[i].was = m.records[i].was
            /\ \/ y.records[i].ttl + age <= y.records[i].was
               \/ y.records[i].ttl <= 1 /\ age > 0
               \/ y.records[i].type = "opt"
  BY <1>1, AgedIs
<1> HIDE DEF y
<1>4. Formed(z) /\ z.an = y.an /\ z.records = y.records
  BY <1>3, AddressedIs
<1> HIDE DEF z
<1>5. From(x, z) /\ Formed(x)
  BY <1>4, SentFrom DEF From
<1> HIDE DEF x
<1>6. ASSUME NEW i \in 1..Len(x.records)
      PROVE  x.records[i].ttl + age <= Larger(x.records[i].was, Life(x, by))
  <2>1. Life(x, by) = Life(m, by)
    BY <1>1, <1>3, <1>4, <1>5, LifeSame
  <2>2. IsRecord(x.records[i])
    BY <1>5 DEF Formed
  <2>3. x.records[i].ttl \in Nat /\ x.records[i].was \in Nat
    BY <2>2 DEF IsRecord
  <2>4. CASE x.records[i].type = "opt"
    <3>1. x.records[i].ttl = 0
      BY <2>2, <2>4 DEF IsRecord
    <3> QED
      BY <1>1, <1>2, <2>1, <2>3, <3>1 DEF Larger
  <2>5. CASE x.records[i].type # "opt"
    <3>1. i \in 1..Len(z.records) /\ x.records[i] = z.records[i]
      BY <1>5, <2>5 DEF From
    <3>2. i \in 1..Len(m.records) /\ x.records[i] = y.records[i]
      BY <1>3, <1>4, <3>1
    <3>3. \/ x.records[i].ttl + age <= x.records[i].was
          \/ x.records[i].ttl <= 1 /\ age > 0
      BY <1>3, <2>5, <3>2
    <3> QED
      BY <1>1, <1>2, <2>1, <2>3, <3>3 DEF Larger
  <2> QED
    BY <2>4, <2>5
<1>7. DOMAIN x.records = 1..Len(x.records)
  BY <1>5, FormedParts
<1> DEFINE r == [message |-> x, how |-> "fresh", age |-> age, by |-> by]
<1>8. r.message = x /\ r.how = "fresh" /\ r.age = age /\ r.by = by /\ "fresh" # "stale"
  OBVIOUS
<1>9. FromCache(c, Addressed(Aged(cache.message, cache.age), c), "fresh") = r
  BY DEF FromCache, x, z, y, m, age, by
<1> HIDE DEF r
<1>10. Bounded(r)
  BY <1>6, <1>7, <1>8 DEF Bounded
<1> QED
  BY <1>9, <1>10

LEMMA StaleBounded ==
    ASSUME Kept(cache), IsStale, NEW c
    PROVE  Bounded(FromCache(c, Addressed(Capped(cache.message), c), "stale"))
<1> DEFINE m == cache.message
           age == cache.age
           by == cache.by
           y == Capped(m)
           z == Addressed(y, c)
           x == Sent(c, z)
<1>1. /\ Original(m) /\ Formed(m) /\ age \in Nat /\ age < cache.fresh + Grace
      /\ cache.fresh <= Life(m, by) /\ cache.fresh \in Nat /\ Grace \in Nat /\ StaleTtl \in Nat
  BY WireAssumption DEF Kept, IsStale, Original
<1>2. Life(m, by) \in Nat /\ age <= Life(m, by) + Grace
  BY <1>1, LifeNat
<1> HIDE DEF m, age, by
<1>3. /\ Formed(y) /\ y.an = m.an /\ Len(y.records) = Len(m.records)
      /\ \A i \in 1..Len(m.records) :
            /\ y.records[i].was = m.records[i].was
            /\ i <= y.an => y.records[i].ttl <= StaleTtl
  BY <1>1, CappedIs
<1> HIDE DEF y
<1>4. Formed(z) /\ z.an = y.an /\ z.records = y.records
  BY <1>3, AddressedIs
<1> HIDE DEF z
<1>5. From(x, z) /\ Formed(x)
  BY <1>4, SentFrom DEF From
<1> HIDE DEF x
<1>n. x.an \in Nat /\ x.ns \in Nat /\ x.an <= z.an /\ z.an \in Nat
  BY <1>4, <1>5, FormedParts DEF From
<1>6. ASSUME NEW i \in 1..Len(x.records), i <= x.an
      PROVE  x.records[i].ttl + age <= Larger(x.records[i].was, Life(x, by)) + Grace + StaleTtl
  <2>1. Life(x, by) = Life(m, by)
    BY <1>1, <1>3, <1>4, <1>5, LifeSame
  <2>2. IsRecord(x.records[i])
    BY <1>5 DEF Formed
  <2>3. x.records[i].ttl \in Nat /\ x.records[i].was \in Nat
    BY <2>2 DEF IsRecord
  <2>4. ~(i > x.an + x.ns) /\ i <= z.an
    BY <1>n, <1>6
  <2>5. x.records[i].type # "opt"
    BY <1>5, <2>4 DEF Formed
  <2>6. i \in 1..Len(z.records) /\ x.records[i] = z.records[i]
    BY <1>5, <2>5 DEF From
  <2>7. i \in 1..Len(m.records) /\ x.records[i] = y.records[i]
    BY <1>3, <1>4, <2>6
  <2>8. x.records[i].ttl <= StaleTtl
    BY <1>3, <1>4, <2>4, <2>7
  <2> DEFINE l == Larger(x.records[i].was, Life(x, by))
             t == x.records[i].ttl
  <2>9. l \in Nat /\ Life(m, by) <= l
    BY <1>2, <2>1, <2>3 DEF Larger
  <2>10. t \in Nat /\ t <= StaleTtl
    BY <2>3, <2>8
  <2> HIDE DEF l, t
  <2>11. t + age <= l + Grace + StaleTtl
    BY <1>1, <1>2, <2>9, <2>10
  <2> QED
    BY <2>11 DEF l, t
<1>7. DOMAIN x.records = 1..Len(x.records)
  BY <1>5, FormedParts
<1> DEFINE r == [message |-> x, how |-> "stale", age |-> age, by |-> by]
<1>8. r.message = x /\ r.how = "stale" /\ r.age = age /\ r.by = by /\ "fresh" # "stale"
  OBVIOUS
<1>9. FromCache(c, Addressed(Capped(cache.message), c), "stale") = r
  BY DEF FromCache, x, z, y, m, age, by
<1> HIDE DEF r
<1>10. Bounded(r)
  BY <1>6, <1>7, <1>8 DEF Bounded
<1> QED
  BY <1>9, <1>10

LEMMA ReplyBounded ==
    ASSUME NEW c, NEW m, NEW how, how \in {"local", "miss"}
    PROVE  Bounded(ReplyTo(c, m, how)) /\ Bounded(Plainly(m))
<1>1. ReplyTo(c, m, how).how = how /\ Plainly(m).how = "local"
  BY DEF ReplyTo, Plainly
<1> QED
  BY <1>1, OthersBounded

TtlInv == Kept(cache) /\ \A c \in Client : Bounded(reply[c])

LEMMA TtlStart == WireInit => TtlInv
BY UncachedKept, NoneBounded DEF WireInit, TtlInv, NoReplies

LEMMA TtlStep == TtlInv /\ [WireNext]_wireVars => TtlInv'
<1> SUFFICES ASSUME TtlInv, [WireNext]_wireVars PROVE TtlInv'
  OBVIOUS
<1>k. Kept(cache)
  BY DEF TtlInv
<1>s. Smart \subseteq Nat
  BY WireAssumption
<1> DEFINE Goal == Kept(cache') /\ \A d \in Client : Bounded(reply'[d])
<1>g. Goal => TtlInv'
  BY DEF TtlInv
<1>1. ASSUME NEW c \in Client, Ask(c) PROVE Goal
  BY <1>1, <1>k, NoneBounded DEF Ask, NoReplies
<1>2. ASSUME NEW c \in Client, AnswerLocally(c) PROVE Goal
  <2>1. PICK m : Told(c, ReplyTo(c, m, "local"))
    BY <1>2 DEF AnswerLocally
  <2>2. Bounded(ReplyTo(c, m, "local")) /\ cache' = cache
    BY <1>2, ReplyBounded DEF AnswerLocally
  <2> QED
    BY <1>k, <2>1, <2>2, ToldIs, NoneBounded
<1>3. ASSUME NEW c \in Client, AnswerFast(c) PROVE Goal
  <2>1. PICK m : Told(c, Plainly(m))
    BY <1>3 DEF AnswerFast
  <2>2. Bounded(Plainly(m)) /\ cache' = cache
    BY <1>3, ReplyBounded DEF AnswerFast
  <2> QED
    BY <1>k, <2>1, <2>2, ToldIs, NoneBounded
<1>4. ASSUME NEW c \in Client, AnswerInstantly(c) PROVE Goal
  <2>1. Told(c, Plainly(Addressed(instant', c)))
    BY <1>4 DEF AnswerInstantly
  <2>2. Bounded(Plainly(Addressed(instant', c))) /\ cache' = cache
    BY <1>4, ReplyBounded DEF AnswerInstantly
  <2> QED
    BY <1>k, <2>1, <2>2, ToldIs, NoneBounded
<1>5. ASSUME NEW c \in Client, AnswerFresh(c) PROVE Goal
  <2> DEFINE r == FromCache(c, Addressed(Aged(cache.message, cache.age), c), "fresh")
  <2>1. Told(c, r) /\ IsFresh /\ cache' = cache
    BY <1>5 DEF AnswerFresh
  <2>2. Bounded(r)
    BY <1>k, <2>1, FreshBounded
  <2> HIDE DEF r
  <2> QED
    BY <1>k, <2>1, <2>2, ToldIs, NoneBounded
<1>6. ASSUME NEW c \in Client, AnswerStale(c) PROVE Goal
  <2> DEFINE r == FromCache(c, Addressed(Capped(cache.message), c), "stale")
             f == [d \in {c} |-> r]
  <2>1. Replied({c}, f, Outgoing(query[c])) /\ IsStale /\ cache' = cache
    BY <1>6 DEF AnswerStale
  <2>2. Bounded(r)
    BY <1>k, <2>1, StaleBounded
  <2> HIDE DEF r
  <2>3. f[c] = r
    OBVIOUS
  <2> HIDE DEF f
  <2> QED
    BY <1>k, <2>1, <2>2, <2>3, RepliedIs, NoneBounded
<1>7. ASSUME NEW c \in Client, AskUpstreams(c) PROVE Goal
  <2>1. cache' = Uncached /\ \E m : Moved({c}, "wait", m)
    BY <1>7 DEF AskUpstreams
  <2> QED
    BY <2>1, MovedIs, NoneBounded, UncachedKept
<1>8. ASSUME NEW c \in Client, Race(c) PROVE Goal
  <2>1. cache' = cache /\ \E m : Moved({c}, "racing", m)
    BY <1>8 DEF Race
  <2> QED
    BY <1>k, <2>1, MovedIs, NoneBounded
<1>9. ASSUME NEW c \in Client, RaceAnswers(c) PROVE Goal
  <2>1. PICK m \in Responses(c), smart \in Smart :
           cache' = Entry(m, smart) /\ Told(c, Delivered(c, m))
    BY <1>9 DEF RaceAnswers
  <2>2. Kept(cache') /\ Bounded(Delivered(c, m))
    BY <1>s, <2>1, ResponsesAre, EntryKept, ReplyBounded DEF Delivered
  <2> QED
    BY <2>1, <2>2, ToldIs, NoneBounded
<1>10. ASSUME NEW c \in Client, RaceFails(c) PROVE Goal
  <2>1. cache' = cache /\ \E m : Moved({c}, "root", m)
    BY <1>10 DEF RaceFails
  <2> QED
    BY <1>k, <2>1, MovedIs, NoneBounded
<1>11. ASSUME NEW c \in Client, RootAnswers(c) PROVE Goal
  <2>1. Told(c, Delivered(c, Referral(c))) /\ \E smart \in Smart : cache' = Entry(Referral(c), smart)
    BY <1>11 DEF RootAnswers
  <2>2. Kept(cache') /\ Bounded(Delivered(c, Referral(c)))
    BY <1>s, <2>1, ReferralIs, EntryKept, ReplyBounded DEF Delivered
  <2> QED
    BY <2>1, <2>2, ToldIs, NoneBounded
<1>12. ASSUME NEW c \in Client, RootFails(c) PROVE Goal
  <2> DEFINE r == ReplyTo(c, WithEde(Echo(query[c])), "local")
  <2>1. Told(c, r) /\ cache' = cache
    BY <1>12 DEF RootFails
  <2>2. Bounded(r)
    BY ReplyBounded
  <2> HIDE DEF r
  <2> QED
    BY <1>k, <2>1, <2>2, ToldIs, NoneBounded
<1>13. ASSUME ForgetInstant PROVE Goal
  <2>1. cache' = cache /\ Moved({}, "idle", Unsent)
    BY <1>13 DEF ForgetInstant
  <2> QED
    BY <1>k, <2>1, MovedIs, NoneBounded
<1>14. ASSUME FlightAnswers PROVE Goal
  <2>1. PICK m \in Responses(flight.of), smart \in Smart :
           cache' \in Stored(m, smart) /\ Replied(Waiting, [c \in Waiting |-> Delivered(c, m)], Unsent)
    BY <1>14 DEF FlightAnswers
  <2>2. Kept(cache')
    BY <1>s, <2>1, ResponsesAre, StoredKept
  <2> DEFINE f == [c \in Waiting |-> Delivered(c, m)]
  <2>3. \A c \in Waiting : Bounded(f[c])
    BY ReplyBounded DEF Delivered
  <2> HIDE DEF f
  <2>4. Replied(Waiting, f, Unsent)
    BY <2>1 DEF f
  <2> QED
    BY <2>2, <2>3, <2>4, RepliedIs, NoneBounded
<1>15. ASSUME FlightFails PROVE Goal
  <2>1. cache' = cache /\ Moved(Waiting, "race", Unsent)
    BY <1>15 DEF FlightFails
  <2> QED
    BY <1>k, <2>1, MovedIs, NoneBounded
<1>16. ASSUME SecondPasses PROVE Goal
  <2>1. cache' = [cache EXCEPT !.age = @ + 1] /\ Moved({}, "idle", Unsent)
    BY <1>16 DEF SecondPasses
  <2>2. /\ cache' = [message |-> cache.message, fresh |-> cache.fresh, age |-> cache.age + 1,
                     by |-> cache.by]
        /\ cache'.message = cache.message /\ cache'.fresh = cache.fresh
        /\ cache'.age = cache.age + 1 /\ cache'.by = cache.by /\ cache.age \in Nat
    BY <1>k, <2>1 DEF Kept
  <2>3. Kept(cache')
    BY <1>k, <2>2 DEF Kept
  <2> QED
    BY <2>1, <2>3, MovedIs, NoneBounded
<1>17. ASSUME LookAhead PROVE Goal
  BY <1>17, <1>k, NoneBounded DEF LookAhead, NoReplies
<1>18. ASSUME Evict PROVE Goal
  <2>1. cache' = Uncached /\ Moved({}, "idle", Unsent)
    BY <1>18 DEF Evict
  <2> QED
    BY <2>1, MovedIs, NoneBounded, UncachedKept
<1>19. ASSUME UNCHANGED wireVars PROVE Goal
  BY <1>19 DEF wireVars, TtlInv
<1> HIDE DEF Goal
<1> QED
  BY <1>1, <1>2, <1>3, <1>4, <1>5, <1>6, <1>7, <1>8, <1>9, <1>10, <1>11, <1>12,
     <1>13, <1>14, <1>15, <1>16, <1>17, <1>18, <1>19, <1>g DEF WireNext

\* decrement_response_ttl and cap_response_ttl (src/src/dns/cache.rs) after extract_answer_ttl
\* and the learner, or after a prefetch's insert: whatever TTLs upstream declares, the learner
\* comes to and a datagram cuts off, and whoever stored the entry, no client is told a record
\* lives longer than upstream's word, or the entry's life (300 s when a prefetch stored it,
\* however short upstream's word is), or, stale, the grace and the cap on top of it.
THEOREM TtlsStayBounded == WireSpec => []TtlsBounded
<1>1. TtlInv => TtlsBounded
  BY DEF TtlInv, Bounded, TtlsBounded
<1> QED
  BY <1>1, TtlStart, TtlStep, PTL DEF WireSpec

-----------------------------------------------------------------------------
(* The types.                                                              *)

ClientStep == {"idle", "asked", "wait", "race", "racing", "root"}

\* Who is past "idle" has asked something, without which a leader's question could be nothing.
ClientsTyped ==
    /\ query = [c \in Client |-> query[c]] /\ pc \in [Client -> ClientStep]
    /\ \A c \in Client : query[c] \in Queries(c) \cup {Nothing}
    /\ \A c \in Client : pc[c] # "idle" => query[c] \in Queries(c)
    /\ asks \in 0..MaxAsks
WireTyped ==
    /\ TtlInv /\ ClientsTyped
    /\ awaiting \subseteq {"prefetch", "renewal"}
    /\ flight # Nothing <=> (\E c \in Client : pc[c] = "wait") \/ awaiting # {}
    /\ cache.age <= cache.fresh + Grace

LEMMA QueryIsNone == ASSUME NEW c \in Client, NEW q \in Queries(c) PROVE q # Nothing
<1> DEFINE g(o) == Message(c, 0, 0, 1, <<Opt(FALSE, o)>>)
<1>1. \/ q = Message(c, 0, 0, 0, <<>>) \/ \E o \in Options : q = g(o)
      \/ q = Message(c, 1, 0, 1, <<Record(1), Opt(FALSE, <<>>)>>)
  <2>1. q \in {Message(c, 0, 0, 0, <<>>)} \cup {g(o) : o \in Options}
              \cup (IF Notify THEN {Message(c, 1, 0, 1, <<Record(1), Opt(FALSE, <<>>)>>)} ELSE {})
    BY Zenon DEF Queries
  <2> HIDE DEF g
  <2> QED
    BY <2>1
<1>2. \A an, ns, ar, s : Message(c, an, ns, ar, s).of = c
  BY DEF Message
<1>3. q.of = c
  BY <1>1, <1>2
<1>4. Nothing.of = "nobody" /\ c # "nobody"
  BY WireAssumption DEF Nothing, Message
<1> QED
  BY <1>3, <1>4

\* Some clients have their reply.
LEMMA RepliedTyped ==
    ASSUME ClientsTyped, NEW to, NEW replies, NEW m, Replied(to, replies, m)
    PROVE  /\ ClientsTyped'
           /\ \A c \in Client : pc'[c] = "wait" <=> pc[c] = "wait" /\ c \notin to
<1>1. /\ pc' = [c \in Client |-> IF c \in to THEN "idle" ELSE pc[c]]
      /\ query' = [c \in Client |-> IF c \in to THEN Nothing ELSE query[c]]
      /\ asks' = asks
  BY DEF Replied
<1>2. pc' \in [Client -> ClientStep] /\ query' = [c \in Client |-> query'[c]]
  BY <1>1 DEF ClientsTyped, ClientStep
<1>3. \A c \in Client : /\ pc'[c] = IF c \in to THEN "idle" ELSE pc[c]
                        /\ query'[c] = IF c \in to THEN Nothing ELSE query[c]
  BY <1>1
<1>4. \A c \in Client : /\ query'[c] \in Queries(c) \cup {Nothing}
                        /\ pc'[c] # "idle" => query'[c] \in Queries(c)
  BY <1>3 DEF ClientsTyped
<1> QED
  BY <1>1, <1>2, <1>3, <1>4 DEF ClientsTyped

LEMMA ToldTyped ==
    ASSUME ClientsTyped, NEW c \in Client, pc[c] # "wait", NEW r, Told(c, r)
    PROVE  ClientsTyped' /\ \A d \in Client : pc'[d] = "wait" <=> pc[d] = "wait"
<1> DEFINE f == [d \in {c} |-> r]
<1>1. Replied({c}, f, Unsent)
  BY DEF Told
<1> HIDE DEF f
<1> QED
  BY <1>1, RepliedTyped

\* Some clients that have asked go on.
LEMMA MovedTyped ==
    ASSUME ClientsTyped, NEW who, NEW where \in ClientStep, NEW m, Moved(who, where, m),
           \A c \in who \cap Client : pc[c] # "idle"
    PROVE  /\ ClientsTyped'
           /\ \A c \in Client : pc'[c] = IF c \in who THEN where ELSE pc[c]
<1>1. /\ pc' = [c \in Client |-> IF c \in who THEN where ELSE pc[c]]
      /\ query' = query /\ asks' = asks
  BY DEF Moved
<1>2. pc' \in [Client -> ClientStep]
  BY <1>1 DEF ClientsTyped
<1>3. \A c \in Client : pc'[c] = IF c \in who THEN where ELSE pc[c]
  BY <1>1
<1> QED
  BY <1>1, <1>2, <1>3 DEF ClientsTyped

LEMMA WireTypedStart == WireInit => WireTyped
<1> SUFFICES ASSUME WireInit PROVE WireTyped
  OBVIOUS
<1>1. /\ query = [c \in Client |-> Nothing] /\ pc = [c \in Client |-> "idle"]
      /\ cache = Uncached /\ flight = Nothing /\ awaiting = {} /\ asks = 0
  BY DEF WireInit
<1>2. ClientsTyped
  BY <1>1, WireAssumption DEF ClientsTyped, ClientStep
<1>3. cache.age = 0 /\ cache.fresh = 0
  BY <1>1 DEF Uncached
<1>4. cache.age <= cache.fresh + Grace
  BY <1>3, WireAssumption
<1> QED
  BY <1>1, <1>2, <1>4, TtlStart DEF WireTyped

\* The entry is replaced, or is as it was.
LEMMA AgeTyped ==
    ASSUME WireTyped, TtlInv',
           \/ cache' = cache \/ cache'.age = 0
           \/ cache' = [cache EXCEPT !.age = @ + 1] /\ cache.age < cache.fresh + Grace
    PROVE  cache'.age <= cache'.fresh + Grace
<1>1. /\ cache = [message |-> cache.message, fresh |-> cache.fresh, age |-> cache.age, by |-> cache.by]
      /\ cache.age \in Nat /\ cache.fresh \in Nat /\ cache.age <= cache.fresh + Grace
      /\ cache'.age \in Nat /\ cache'.fresh \in Nat /\ Grace \in Nat
  BY WireAssumption DEF WireTyped, TtlInv, Kept
<1>2. CASE cache' = cache
  BY <1>1, <1>2
<1>3. CASE cache'.age = 0
  BY <1>1, <1>3
<1>4. CASE cache' = [cache EXCEPT !.age = @ + 1] /\ cache.age < cache.fresh + Grace
  <2>1. cache' = [message |-> cache.message, fresh |-> cache.fresh, age |-> cache.age + 1, by |-> cache.by]
    BY <1>1, <1>4
  <2>2. cache'.age = cache.age + 1 /\ cache'.fresh = cache.fresh
    BY <2>1
  <2> QED
    BY <1>1, <1>4, <2>2
<1> QED
  BY <1>2, <1>3, <1>4

LEMMA WireTypedStep == WireTyped /\ [WireNext]_wireVars => WireTyped'
<1> SUFFICES ASSUME WireTyped, [WireNext]_wireVars PROVE WireTyped'
  OBVIOUS
<1>i. TtlInv /\ TtlInv' /\ ClientsTyped
  BY TtlStep DEF WireTyped
<1>w. /\ flight # Nothing <=> (\E c \in Client : pc[c] = "wait") \/ awaiting # {}
      /\ awaiting \subseteq {"prefetch", "renewal"}
  BY DEF WireTyped
<1>z. Uncached.age = 0 /\ \A m, smart : Entry(m, smart).age = 0 /\ Prefetched(m).age = 0
  BY DEF Uncached, Entry, Prefetched
<1> DEFINE Clients == /\ ClientsTyped' /\ awaiting' \subseteq {"prefetch", "renewal"}
                      /\ flight' # Nothing <=> (\E d \in Client : pc'[d] = "wait") \/ awaiting' # {}
           Entries == \/ cache' = cache \/ cache'.age = 0
                      \/ cache' = [cache EXCEPT !.age = @ + 1] /\ cache.age < cache.fresh + Grace
           Goal == Clients /\ Entries
<1>g. ASSUME Goal PROVE WireTyped'
  BY <1>g, <1>i, AgeTyped DEF WireTyped
<1>t. ASSUME NEW c \in Client, pc[c] # "wait", NEW r, Told(c, r), UNCHANGED <<flight, awaiting>> PROVE Clients
  BY <1>t, <1>i, <1>w, ToldTyped
<1>m. ASSUME NEW c \in Client, pc[c] \notin {"idle", "wait"}, NEW where \in ClientStep \ {"wait"}, NEW m,
             Moved({c}, where, m), UNCHANGED <<flight, awaiting>> PROVE Clients
  <2>1. \A d \in {c} \cap Client : pc[d] # "idle"
    BY <1>m
  <2> QED
    BY <1>m, <1>i, <1>w, <2>1, MovedTyped
<1>n. ASSUME Moved({}, "idle", Unsent), UNCHANGED <<flight, awaiting>> PROVE Clients
  <2>1. "idle" \in ClientStep
    BY DEF ClientStep
  <2> QED
    BY <1>n, <1>i, <1>w, <2>1, MovedTyped
<1>1. ASSUME NEW c \in Client, Ask(c) PROVE Goal
  <2>1. PICK q \in Queries(c) : query' = [query EXCEPT ![c] = q]
    BY <1>1 DEF Ask
  <2>2. /\ pc[c] = "idle" /\ pc' = [pc EXCEPT ![c] = "asked"] /\ asks < MaxAsks /\ asks' = asks + 1
        /\ UNCHANGED <<flight, awaiting>> /\ cache' = cache
    BY <1>1 DEF Ask
  <2>3. /\ query' = [d \in Client |-> IF d = c THEN q ELSE query[d]]
        /\ pc' = [d \in Client |-> IF d = c THEN "asked" ELSE pc[d]]
    BY <1>i, <2>1, <2>2 DEF ClientsTyped
  <2>4. query' = [d \in Client |-> query'[d]] /\ pc' \in [Client -> ClientStep]
    BY <1>i, <2>3 DEF ClientsTyped, ClientStep
  <2>5. \A d \in Client : /\ query'[d] \in Queries(d) \cup {Nothing}
                          /\ pc'[d] # "idle" => query'[d] \in Queries(d)
    BY <1>i, <2>3 DEF ClientsTyped
  <2>6. asks' \in 0..MaxAsks
    BY <1>i, <2>2, WireAssumption DEF ClientsTyped
  <2>7. \A d \in Client : pc'[d] = "wait" <=> pc[d] = "wait"
    BY <2>2, <2>3
  <2> QED
    BY <1>w, <2>2, <2>4, <2>5, <2>6, <2>7 DEF ClientsTyped
<1>2. ASSUME NEW c \in Client, AnswerLocally(c) PROVE Goal
  <2>1. pc[c] = "asked" /\ UNCHANGED <<flight, awaiting>> /\ cache' = cache /\ \E r : Told(c, r)
    BY <1>2 DEF AnswerLocally
  <2> QED
    BY <1>t, <2>1
<1>3. ASSUME NEW c \in Client, AnswerFast(c) PROVE Goal
  <2>1. pc[c] = "asked" /\ UNCHANGED <<flight, awaiting>> /\ cache' = cache /\ \E r : Told(c, r)
    BY <1>3 DEF AnswerFast
  <2> QED
    BY <1>t, <2>1
<1>4. ASSUME NEW c \in Client, AnswerInstantly(c) PROVE Goal
  <2>1. pc[c] = "asked" /\ UNCHANGED <<flight, awaiting>> /\ cache' = cache /\ \E r : Told(c, r)
    BY <1>4 DEF AnswerInstantly
  <2> QED
    BY <1>t, <2>1
<1>5. ASSUME NEW c \in Client, AnswerFresh(c) PROVE Goal
  <2>1. pc[c] = "asked" /\ UNCHANGED <<flight, awaiting>> /\ cache' = cache /\ \E r : Told(c, r)
    BY <1>5 DEF AnswerFresh
  <2> QED
    BY <1>t, <2>1
<1>16. ASSUME NEW c \in Client, AnswerStale(c) PROVE Goal
  <2>1. /\ pc[c] = "asked" /\ cache' = cache /\ \E f, m : Replied({c}, f, m)
        /\ awaiting' = awaiting \cup {"renewal"}
        /\ flight' = IF flight = Nothing THEN query[c] ELSE flight
    BY <1>16 DEF AnswerStale, Joins
  <2>2. query[c] # Nothing
    BY <1>i, <2>1, QueryIsNone DEF ClientsTyped
  <2>3. ClientsTyped'
    BY <1>i, <2>1, RepliedTyped
  <2> QED
    BY <1>w, <2>1, <2>2, <2>3
<1>6. ASSUME NEW c \in Client, AskUpstreams(c) PROVE Goal
  <2>1. /\ pc[c] = "asked" /\ cache' = Uncached /\ \E m : Moved({c}, "wait", m)
        /\ flight' = IF flight = Nothing THEN query[c] ELSE flight
        /\ awaiting' = awaiting
    BY <1>6 DEF AskUpstreams, Joins
  <2>2. query[c] # Nothing
    BY <1>i, <2>1, QueryIsNone DEF ClientsTyped
  <2>3. "wait" \in ClientStep /\ \A d \in {c} \cap Client : pc[d] # "idle"
    BY <2>1 DEF ClientStep
  <2>4. /\ ClientsTyped'
        /\ \A d \in Client : pc'[d] = IF d \in {c} THEN "wait" ELSE pc[d]
    BY <1>i, <2>1, <2>3, MovedTyped
  <2> QED
    BY <1>w, <1>z, <2>1, <2>2, <2>4
<1>7. ASSUME NEW c \in Client, Race(c) \/ RaceFails(c) PROVE Goal
  <2>1. /\ pc[c] \in {"race", "racing"} /\ UNCHANGED <<flight, awaiting>> /\ cache' = cache
        /\ \E where \in {"racing", "root"} : \E m : Moved({c}, where, m)
    BY <1>7 DEF Race, RaceFails
  <2>2. {"racing", "root"} \subseteq ClientStep \ {"wait"}
    BY DEF ClientStep
  <2> QED
    BY <1>m, <2>1, <2>2
<1>8. ASSUME NEW c \in Client, RaceAnswers(c) PROVE Goal
  <2>1. pc[c] = "racing" /\ UNCHANGED <<flight, awaiting>> /\ \E m, smart : cache' = Entry(m, smart) /\ Told(c, Delivered(c, m))
    BY <1>8 DEF RaceAnswers
  <2> QED
    BY <1>t, <1>z, <2>1
<1>9. ASSUME NEW c \in Client, RootAnswers(c) PROVE Goal
  <2>1. /\ pc[c] = "root" /\ UNCHANGED <<flight, awaiting>> /\ Told(c, Delivered(c, Referral(c)))
        /\ \E m, smart : cache' = Entry(m, smart)
    BY <1>9 DEF RootAnswers
  <2> QED
    BY <1>t, <1>z, <2>1
<1>10. ASSUME NEW c \in Client, RootFails(c) PROVE Goal
  <2>1. pc[c] = "root" /\ UNCHANGED <<flight, awaiting>> /\ cache' = cache /\ \E r : Told(c, r)
    BY <1>10 DEF RootFails
  <2> QED
    BY <1>t, <2>1
<1>11. ASSUME ForgetInstant PROVE Goal
  <2>1. UNCHANGED <<flight, awaiting>> /\ cache' = cache /\ Moved({}, "idle", Unsent)
    BY <1>11 DEF ForgetInstant
  <2> QED
    BY <1>n, <2>1
<1>12. ASSUME FlightAnswers PROVE Goal
  <2>1. /\ flight' = Nothing /\ awaiting' = {} /\ \E m, smart : cache' \in Stored(m, smart)
        /\ \E f : Replied(Waiting, f, Unsent)
    BY <1>12 DEF FlightAnswers
  <2>0. cache'.age = 0
    BY <1>z, <2>1 DEF Stored
  <2>2. /\ ClientsTyped'
        /\ \A c \in Client : pc'[c] = "wait" <=> pc[c] = "wait" /\ c \notin Waiting
    BY <1>i, <2>1, RepliedTyped
  <2> QED
    BY <2>0, <2>1, <2>2 DEF Waiting
<1>13. ASSUME FlightFails PROVE Goal
  <2>1. flight' = Nothing /\ awaiting' = {} /\ cache' = cache /\ Moved(Waiting, "race", Unsent)
    BY <1>13 DEF FlightFails
  <2>2. "race" \in ClientStep /\ \A c \in Waiting \cap Client : pc[c] # "idle"
    BY DEF ClientStep, Waiting
  <2>3. /\ ClientsTyped'
        /\ \A c \in Client : pc'[c] = IF c \in Waiting THEN "race" ELSE pc[c]
    BY <1>i, <2>1, <2>2, MovedTyped
  <2> QED
    BY <2>1, <2>3 DEF Waiting
<1>14. ASSUME SecondPasses PROVE Goal
  <2>1. /\ UNCHANGED <<flight, awaiting>> /\ Moved({}, "idle", Unsent)
        /\ cache' = [cache EXCEPT !.age = @ + 1] /\ cache.age < cache.fresh + Grace
    BY <1>14 DEF SecondPasses
  <2> QED
    BY <1>n, <2>1
<1>17. ASSUME LookAhead PROVE Goal
  <2>1. /\ asks < MaxAsks /\ asks' = asks + 1 /\ query' = query /\ pc' = pc /\ cache' = cache
        /\ awaiting' = awaiting \cup {"prefetch"}
        /\ flight' = IF flight = Nothing THEN Forethought ELSE flight
    BY <1>17 DEF LookAhead, Joins
  <2>2. Forethought # Nothing
    BY DEF Forethought, Nothing, Message
  <2>3. ClientsTyped'
    BY <1>i, <2>1, WireAssumption DEF ClientsTyped
  <2> QED
    BY <1>w, <2>1, <2>2, <2>3
<1>18. ASSUME Evict PROVE Goal
  <2>1. UNCHANGED <<flight, awaiting>> /\ Moved({}, "idle", Unsent) /\ cache' = Uncached
    BY <1>18 DEF Evict
  <2> QED
    BY <1>n, <1>z, <2>1
<1>15. ASSUME UNCHANGED wireVars PROVE Goal
  BY <1>15, <1>i, <1>w DEF wireVars, ClientsTyped
<1> HIDE DEF Goal
<1> QED
  BY <1>1, <1>2, <1>3, <1>4, <1>5, <1>6, <1>7, <1>8, <1>9, <1>10, <1>11, <1>12,
     <1>13, <1>14, <1>15, <1>16, <1>17, <1>18, <1>g DEF WireNext

LEMMA WireTyping == WireTyped => WireTypeOK
BY DEF WireTyped, ClientsTyped, WireTypeOK, Waiting, ClientStep

\* The clients are where process_dns_wire_packet_full may be, somebody waits for a lookup as
\* long as one is under way and no longer, and no entry outlives its grace; with whatever
\* questions (Notify).
THEOREM WireTypeCorrect == WireSpec => []WireTypeOK
<1> QED
  BY WireTyping, WireTypedStart, WireTypedStep, PTL DEF WireSpec

-----------------------------------------------------------------------------
(* The messages.                                                           *)

\* MessagesWhole, for one reply.
Good(c, x) ==
    x # NoReply => /\ Whole(x.message) /\ x.message.of = c
                   /\ c \in Udp => Length(x.message) <= Limit

LEMMA NoneGood == ASSUME NEW c PROVE Good(c, NoReply)
BY DEF Good

LEMMA ReplyGood ==
    ASSUME NEW c, NEW m, Formed(m), m.of = c, NEW how
    PROVE  Good(c, ReplyTo(c, m, how)) /\ Good(c, FromCache(c, m, how))
<1> DEFINE x == Sent(c, m)
           r == ReplyTo(c, m, how)
           k == FromCache(c, m, how)
<1>1. From(x, m) /\ (c \in Udp => Length(x) <= Limit)
  BY SentFrom
<1>2. r.message = x /\ k.message = x
  BY DEF ReplyTo, FromCache
<1> HIDE DEF x, r, k
<1>3. Whole(x) /\ x.of = c
  BY <1>1, FormedIsWhole DEF From
<1>4. Good(c, r) /\ Good(c, k)
  BY <1>1, <1>2, <1>3 DEF Good
<1> QED
  BY <1>4 DEF r, k

LEMMA PlainlyGood ==
    ASSUME NEW c, NEW m, Roomy(m), m.of = c PROVE Good(c, Plainly(m))
<1> DEFINE r == Plainly(m)
<1>1. r.message = m
  BY DEF Plainly
<1>2. Whole(m) /\ Length(m) <= Limit
  BY FormedIsWhole DEF Roomy
<1> HIDE DEF r
<1>3. Good(c, r)
  BY <1>1, <1>2 DEF Good
<1> QED
  BY <1>3 DEF r

LEMMA DeliveredGood ==
    ASSUME NEW c, NEW m, Formed(m) PROVE Good(c, Delivered(c, m))
<1>1. Formed(Addressed(m, c)) /\ Addressed(m, c).of = c
  BY AddressedIs
<1> QED
  BY <1>1, ReplyGood DEF Delivered

\* Where a client is it has asked, what is kept for all is well formed, what is kept by
\* the instant shield fits into a datagram, and so do the replies of this step.
WholeInv ==
    /\ query = [c \in Client |-> query[c]] /\ pc = [c \in Client |-> pc[c]]
    /\ \A c \in Client : pc[c] # "idle" => Question(query[c], c)
    /\ Original(cache.message) /\ cache.age \in Nat /\ Roomy(instant)
    /\ \A c \in Client : Good(c, reply[c])
    /\ outbound.route # "none" => Asking(outbound.message)

LEMMA WholeStart == WireInit => WholeInv
<1> SUFFICES ASSUME WireInit PROVE WholeInv
  OBVIOUS
<1>1. /\ query = [c \in Client |-> Nothing] /\ pc = [c \in Client |-> "idle"]
      /\ cache = Uncached /\ instant = Nothing /\ outbound = Unsent
      /\ reply = [c \in Client |-> NoReply]
  BY DEF WireInit, NoReplies
<1>2. Unsent.route = "none"
  BY DEF Unsent
<1>3. Uncached.message = Nothing /\ Uncached.age = 0
  BY DEF Uncached
<1>4. Roomy(Nothing) /\ Original(Nothing)
  BY NothingIs, WireAssumption DEF Roomy
<1>5. \A c \in Client : reply[c] = NoReply /\ pc[c] = "idle"
  BY <1>1
<1> QED
  BY <1>1, <1>2, <1>3, <1>4, <1>5, NoneGood DEF WholeInv

\* What a step has to show for a client that is told something, and for the others.
ClientsOK ==
    /\ query' = [c \in Client |-> query'[c]] /\ pc' = [c \in Client |-> pc'[c]]
    /\ \A c \in Client : pc'[c] # "idle" => Question(query'[c], c)
    /\ \A c \in Client : Good(c, reply'[c])
    /\ outbound'.route # "none" => Asking(outbound'.message)
KeptOK == Original(cache'.message) /\ cache'.age \in Nat /\ Roomy(instant')

LEMMA ToldOK ==
    ASSUME WholeInv, NEW c \in Client, NEW r, Told(c, r), Good(c, r) PROVE ClientsOK
<1>1. \A d \in Client : pc[d] # "idle" => Question(query[d], d)
  BY DEF WholeInv
<1>2. Unsent.route = "none"
  BY DEF Unsent
<1> QED
  BY <1>1, <1>2, ToldIs, NoneGood DEF ClientsOK

LEMMA RepliedOK ==
    ASSUME WholeInv, NEW to, NEW replies, NEW m, Replied(to, replies, m),
           m.route # "none" => Asking(m.message), \A c \in to : Good(c, replies[c])
    PROVE  ClientsOK
<1>1. \A d \in Client : pc[d] # "idle" => Question(query[d], d)
  BY DEF WholeInv
<1> QED
  BY <1>1, RepliedIs, NoneGood DEF ClientsOK

LEMMA MovedOK ==
    ASSUME WholeInv, NEW who, \A c \in who \cap Client : pc[c] # "idle",
           NEW where, NEW m, Moved(who, where, m), m.route # "none" => Asking(m.message)
    PROVE  ClientsOK
<1>1. /\ \A d \in Client : pc[d] # "idle" => Question(query[d], d)
      /\ query = [d \in Client |-> query[d]]
  BY DEF WholeInv
<1>2. /\ outbound' = m /\ query' = query
      /\ pc' = [d \in Client |-> IF d \in who THEN where ELSE pc[d]]
      /\ \A d \in Client : reply'[d] = NoReply
  BY MovedIs
<1>3. \A d \in Client : pc'[d] = IF d \in who THEN where ELSE pc[d]
  BY <1>2
<1>4. pc' = [d \in Client |-> pc'[d]]
  BY <1>2
<1>5. \A d \in Client : pc'[d] # "idle" => Question(query'[d], d)
  BY <1>1, <1>2, <1>3
<1> QED
  BY <1>1, <1>2, <1>4, <1>5, NoneGood DEF ClientsOK

LEMMA QuestionAsks ==
    ASSUME NEW q, NEW c, Question(q, c)
    PROVE  /\ Asking(AskingDnssec(q)) /\ Asking(Stripped(AskingDnssec(q)))
           /\ Formed(WithEde(Echo(q))) /\ WithEde(Echo(q)).of = c
<1>1. Formed(q) /\ q.of = c
  BY DEF Question
<1>2. Echo(q) = q
  BY EchoIs
<1>3. From(WithEde(q), q)
  BY <1>1, WithOptionFrom DEF WithEde
<1> QED
  BY <1>1, <1>2, <1>3, AskingIs, StrippedAsks DEF From

\* What goes upstream when a question leads, or follows, a lookup.
LEMMA OutgoingAsks ==
    ASSUME NEW q, NEW c, Question(q, c), Outgoing(q).route # "none"
    PROVE  Asking(Outgoing(q).message)
<1> DEFINE o == [route |-> "hedged", message |-> Stripped(AskingDnssec(q))]
<1>1. Outgoing(q) \in {o, Unsent} /\ Unsent.route = "none"
  BY DEF Outgoing, Unsent
<1>2. Asking(o.message)
  BY QuestionAsks
<1> QED
  BY <1>1, <1>2

LEMMA ForethoughtIs == Question(Forethought, "brain")
<1>1. /\ Forethought = Message("brain", 0, 0, 0, <<>>)
      /\ Forethought.of = "brain" /\ Forethought.an = 0 /\ Forethought.ns = 0
  BY DEF Forethought, Message
<1>2. Formed(Nothing)
  BY NothingIs
<1>3. Formed(Forethought)
  <2>1. Formed(Addressed(Nothing, "brain"))
    BY <1>2, AddressedIs
  <2>2. Addressed(Nothing, "brain") = Forethought
    BY DEF Addressed, Forethought, Nothing, Message
  <2> QED
    BY <2>1, <2>2
<1> QED
  BY <1>1, <1>3 DEF Question

LEMMA WholeStep ==
    ASSUME Notify = FALSE PROVE WholeInv /\ [WireNext]_wireVars => WholeInv'
<1> SUFFICES ASSUME WholeInv, [WireNext]_wireVars PROVE WholeInv'
  OBVIOUS
<1>k. /\ query = [c \in Client |-> query[c]] /\ pc = [c \in Client |-> pc[c]]
      /\ \A c \in Client : pc[c] # "idle" => Question(query[c], c)
      /\ Original(cache.message) /\ cache.age \in Nat /\ Roomy(instant)
  BY DEF WholeInv
<1>f. Formed(cache.message)
  BY <1>k DEF Original
<1>u. Unsent.route = "none" /\ Uncached.message = Nothing /\ Uncached.age = 0
  BY DEF Unsent, Uncached
<1>s. Smart \subseteq Nat
  BY WireAssumption
<1>e. \A m, smart : Entry(m, smart).message = m /\ Entry(m, smart).age = 0
  BY DEF Entry
<1> DEFINE Goal == ClientsOK /\ KeptOK
<1>g. Goal => WholeInv'
  BY DEF WholeInv, ClientsOK, KeptOK
<1>c. ASSUME cache' = cache, instant' = instant PROVE KeptOK
  BY <1>c, <1>k DEF KeptOK
<1>1. ASSUME NEW c \in Client, Ask(c) PROVE Goal
  <2>1. PICK q \in Queries(c) : query' = [query EXCEPT ![c] = q]
    BY <1>1 DEF Ask
  <2>2. /\ pc' = [pc EXCEPT ![c] = "asked"] /\ outbound' = Unsent
        /\ reply' = [d \in Client |-> NoReply] /\ cache' = cache /\ instant' = instant
    BY <1>1 DEF Ask, NoReplies
  <2>3. Question(q, c)
    BY QueriesAre
  <2>4. /\ query' = [d \in Client |-> IF d = c THEN q ELSE query[d]]
        /\ pc' = [d \in Client |-> IF d = c THEN "asked" ELSE pc[d]]
    BY <1>k, <2>1, <2>2
  <2>5. /\ query' = [d \in Client |-> query'[d]] /\ pc' = [d \in Client |-> pc'[d]]
        /\ \A d \in Client : reply'[d] = NoReply
    BY <2>2, <2>4
  <2>6. \A d \in Client : pc'[d] # "idle" => Question(query'[d], d)
    BY <1>k, <2>3, <2>4
  <2> QED
    BY <1>c, <1>u, <2>2, <2>5, <2>6, NoneGood DEF ClientsOK
<1>2. ASSUME NEW c \in Client, AnswerLocally(c) PROVE Goal
  <2>1. PICK m \in OwnReplies(query[c]) : Told(c, ReplyTo(c, m, "local"))
    BY <1>2 DEF AnswerLocally
  <2>2. pc[c] # "idle" /\ cache' = cache /\ instant' = instant
    BY <1>2 DEF AnswerLocally
  <2>3. Question(query[c], c)
    BY <1>k, <2>2
  <2>4. Formed(m) /\ m.of = c
    BY <2>3, OwnRepliesAre
  <2> DEFINE r == ReplyTo(c, m, "local")
  <2>5. Good(c, r)
    BY <2>4, ReplyGood
  <2> HIDE DEF r
  <2>6. Told(c, r)
    BY <2>1 DEF r
  <2> QED
    BY <1>c, <2>2, <2>5, <2>6, ToldOK
<1>3. ASSUME NEW c \in Client, AnswerFast(c) PROVE Goal
  <2>1. PICK m \in Blocked(query[c]) \cup {Small(query[c])} : Told(c, Plainly(m))
    BY <1>3 DEF AnswerFast
  <2>2. pc[c] # "idle" /\ cache' = cache /\ instant' = instant
    BY <1>3 DEF AnswerFast
  <2>3. query[c].of = c
    BY <1>k, <2>2 DEF Question
  <2>4. Roomy(m) /\ m.of = c
    BY <2>3, BlockedAre
  <2>5. Good(c, Plainly(m))
    BY <2>4, PlainlyGood
  <2> QED
    BY <1>c, <2>1, <2>2, <2>5, ToldOK
<1>4. ASSUME NEW c \in Client, AnswerInstantly(c) PROVE Goal
  <2>1. PICK fresh \in Blocked(query[c]) :
          /\ instant' = IF instant = Nothing THEN fresh ELSE instant
          /\ Told(c, Plainly(Addressed(instant', c)))
    BY <1>4 DEF AnswerInstantly
  <2>2. cache' = cache
    BY <1>4 DEF AnswerInstantly
  <2>3. Roomy(fresh)
    BY BlockedAre
  <2>4. Roomy(instant')
    BY <1>k, <2>1, <2>3
  <2> DEFINE m == Addressed(instant', c)
  <2>5. Roomy(m) /\ m.of = c
    BY <2>4, AddressedIs DEF Roomy
  <2> HIDE DEF m
  <2>6. Good(c, Plainly(m)) /\ Told(c, Plainly(m))
    BY <2>1, <2>5, PlainlyGood DEF m
  <2> QED
    BY <1>k, <2>2, <2>4, <2>6, ToldOK DEF KeptOK
<1>5. ASSUME NEW c \in Client, AnswerFresh(c) PROVE Goal
  <2> DEFINE m == Addressed(Aged(cache.message, cache.age), c)
             r == FromCache(c, m, "fresh")
  <2>1. Told(c, r) /\ cache' = cache /\ instant' = instant
    BY <1>5 DEF AnswerFresh
  <2>2. Formed(m) /\ m.of = c
    BY <1>k, AgedIs, AddressedIs
  <2> HIDE DEF m
  <2>3. Good(c, r)
    BY <2>2, ReplyGood
  <2> HIDE DEF r
  <2> QED
    BY <1>c, <2>1, <2>3, ToldOK
<1>6. ASSUME NEW c \in Client, AnswerStale(c) PROVE Goal
  <2> DEFINE m == Addressed(Capped(cache.message), c)
             r == FromCache(c, m, "stale")
             f == [d \in {c} |-> r]
  <2>1. /\ Replied({c}, f, Outgoing(query[c])) /\ cache' = cache /\ instant' = instant
        /\ pc[c] # "idle"
    BY <1>6 DEF AnswerStale
  <2>2. Formed(m) /\ m.of = c
    BY <1>k, CappedIs, AddressedIs
  <2> HIDE DEF m
  <2>3. Good(c, r)
    BY <2>2, ReplyGood
  <2> HIDE DEF r
  <2>4. f[c] = r
    OBVIOUS
  <2> HIDE DEF f
  <2>5. Outgoing(query[c]).route # "none" => Asking(Outgoing(query[c]).message)
    BY <1>k, <2>1, OutgoingAsks
  <2> QED
    BY <1>c, <2>1, <2>3, <2>4, <2>5, RepliedOK
<1>7. ASSUME NEW c \in Client, AskUpstreams(c) PROVE Goal
  <2> DEFINE o == Outgoing(query[c])
  <2>1. /\ pc[c] # "idle" /\ cache' = Uncached /\ instant' = instant
        /\ Moved({c}, "wait", o)
    BY <1>7 DEF AskUpstreams
  <2>2. Question(query[c], c)
    BY <1>k, <2>1
  <2>3. o.route # "none" => Asking(o.message)
    BY <2>2, OutgoingAsks
  <2>4. KeptOK
    BY <1>k, <1>u, <2>1, NothingIs DEF KeptOK
  <2> HIDE DEF o
  <2>5. \A d \in {c} \cap Client : pc[d] # "idle"
    BY <2>1
  <2> QED
    BY <1>u, <2>1, <2>3, <2>4, <2>5, MovedOK
<1>8. ASSUME NEW c \in Client, Race(c) PROVE Goal
  <2> DEFINE o == [route |-> "race", message |-> AskingDnssec(query[c])]
  <2>1. pc[c] # "idle" /\ cache' = cache /\ instant' = instant /\ Moved({c}, "racing", o)
    BY <1>8 DEF Race
  <2>2. Question(query[c], c)
    BY <1>k, <2>1
  <2>3. Asking(o.message)
    BY <2>2, QuestionAsks
  <2> HIDE DEF o
  <2>4. \A d \in {c} \cap Client : pc[d] # "idle"
    BY <2>1
  <2> QED
    BY <1>c, <2>1, <2>3, <2>4, MovedOK
<1>9. ASSUME NEW c \in Client, RaceAnswers(c) PROVE Goal
  <2>1. PICK m \in Responses(c), smart \in Smart :
           cache' = Entry(m, smart) /\ Told(c, Delivered(c, m))
    BY <1>9 DEF RaceAnswers
  <2>2. Original(m) /\ Formed(m)
    BY ResponsesAre DEF Original
  <2>3. Good(c, Delivered(c, m))
    BY <2>2, DeliveredGood
  <2>4. KeptOK
    BY <1>9, <1>k, <1>e, <2>1, <2>2 DEF KeptOK, RaceAnswers
  <2> QED
    BY <2>1, <2>3, <2>4, ToldOK
<1>10. ASSUME NEW c \in Client, RaceFails(c) PROVE Goal
  <2> DEFINE o == [route |-> "root", message |-> Stripped(AskingDnssec(query[c]))]
  <2>1. pc[c] # "idle" /\ cache' = cache /\ instant' = instant /\ Moved({c}, "root", o)
    BY <1>10 DEF RaceFails
  <2>2. Question(query[c], c)
    BY <1>k, <2>1
  <2>3. Asking(o.message)
    BY <2>2, QuestionAsks
  <2> HIDE DEF o
  <2>4. \A d \in {c} \cap Client : pc[d] # "idle"
    BY <2>1
  <2> QED
    BY <1>c, <2>1, <2>3, <2>4, MovedOK
<1>11. ASSUME NEW c \in Client, RootAnswers(c) PROVE Goal
  <2>1. PICK smart \in Smart : cache' = Entry(Referral(c), smart)
    BY <1>11 DEF RootAnswers
  <2>2. Told(c, Delivered(c, Referral(c))) /\ instant' = instant
    BY <1>11 DEF RootAnswers
  <2>3. Original(Referral(c)) /\ Formed(Referral(c))
    BY ReferralIs DEF Original
  <2>4. Good(c, Delivered(c, Referral(c)))
    BY <2>3, DeliveredGood
  <2>5. KeptOK
    BY <1>k, <1>e, <2>1, <2>2, <2>3 DEF KeptOK
  <2> QED
    BY <2>2, <2>4, <2>5, ToldOK
<1>12. ASSUME NEW c \in Client, RootFails(c) PROVE Goal
  <2> DEFINE m == WithEde(Echo(query[c]))
             r == ReplyTo(c, m, "local")
  <2>1. pc[c] # "idle" /\ Told(c, r) /\ cache' = cache /\ instant' = instant
    BY <1>12 DEF RootFails
  <2>2. Question(query[c], c)
    BY <1>k, <2>1
  <2>3. Formed(m) /\ m.of = c
    BY <2>2, QuestionAsks
  <2> HIDE DEF m
  <2>4. Good(c, r)
    BY <2>3, ReplyGood
  <2> HIDE DEF r
  <2> QED
    BY <1>c, <2>1, <2>4, ToldOK
<1>13. ASSUME ForgetInstant PROVE Goal
  <2>1. cache' = cache /\ instant' = Nothing /\ Moved({}, "idle", Unsent)
    BY <1>13 DEF ForgetInstant
  <2>2. KeptOK
    BY <1>k, <2>1, NothingIs, WireAssumption DEF KeptOK, Roomy
  <2> QED
    BY <1>u, <2>1, <2>2, MovedOK
<1>14. ASSUME FlightAnswers PROVE Goal
  <2>1. PICK m \in Responses(flight.of), smart \in Smart :
           cache' \in Stored(m, smart) /\ Replied(Waiting, [c \in Waiting |-> Delivered(c, m)], Unsent)
    BY <1>14 DEF FlightAnswers
  <2>2. Original(m) /\ Formed(m)
    BY ResponsesAre DEF Original
  <2>3. KeptOK
    <3>1. cache'.message = m /\ cache'.age = 0
      BY <1>s, <2>1, <2>2, StoredKept
    <3> QED
      BY <1>14, <1>k, <2>2, <3>1 DEF KeptOK, FlightAnswers
  <2> DEFINE f == [c \in Waiting |-> Delivered(c, m)]
  <2>4. \A c \in Waiting : Good(c, f[c])
    BY <2>2, DeliveredGood
  <2> HIDE DEF f
  <2>5. Replied(Waiting, f, Unsent)
    BY <2>1 DEF f
  <2> QED
    BY <1>u, <2>3, <2>4, <2>5, RepliedOK
<1>15. ASSUME FlightFails PROVE Goal
  <2>1. cache' = cache /\ instant' = instant /\ Moved(Waiting, "race", Unsent)
    BY <1>15 DEF FlightFails
  <2>2. \A c \in Waiting \cap Client : pc[c] # "idle"
    BY DEF Waiting
  <2> QED
    BY <1>c, <1>u, <2>1, <2>2, MovedOK
<1>16. ASSUME SecondPasses PROVE Goal
  <2>1. /\ cache # Uncached /\ cache' = [cache EXCEPT !.age = @ + 1]
        /\ instant' = instant /\ Moved({}, "idle", Unsent)
    BY <1>16 DEF SecondPasses
  <2>2. cache'.message = cache.message /\ cache'.age \in Nat
    BY <1>k, <2>1
  <2>3. KeptOK
    BY <1>k, <2>1, <2>2 DEF KeptOK
  <2> QED
    BY <1>u, <2>1, <2>3, MovedOK
<1>17. ASSUME LookAhead PROVE Goal
  <2> DEFINE o == Outgoing(Forethought)
  <2>1. /\ query' = query /\ pc' = pc /\ cache' = cache /\ instant' = instant
        /\ outbound' = o /\ reply' = NoReplies
    BY <1>17 DEF LookAhead
  <2>2. o.route # "none" => Asking(o.message)
    BY ForethoughtIs, OutgoingAsks
  <2>3. \A c \in Client : reply'[c] = NoReply
    BY <2>1 DEF NoReplies
  <2> HIDE DEF o
  <2> QED
    BY <1>c, <1>k, <2>1, <2>2, <2>3, NoneGood DEF ClientsOK
<1>18. ASSUME Evict PROVE Goal
  <2>1. cache' = Uncached /\ instant' = instant /\ Moved({}, "idle", Unsent)
    BY <1>18 DEF Evict
  <2>2. KeptOK
    BY <1>k, <1>u, <2>1, NothingIs DEF KeptOK
  <2> QED
    BY <1>u, <2>1, <2>2, MovedOK
<1>19. ASSUME UNCHANGED wireVars PROVE WholeInv'
  BY <1>19 DEF wireVars, WholeInv
<1> HIDE DEF Goal
<1> QED
  BY <1>1, <1>2, <1>3, <1>4, <1>5, <1>6, <1>7, <1>8, <1>9, <1>10, <1>11, <1>12,
     <1>13, <1>14, <1>15, <1>16, <1>17, <1>18, <1>19, <1>g DEF WireNext

\* process_dns_wire_packet_full (src/src/server/doh.rs) and the workers of plain.rs: whatever
\* was appended, truncated, cached, shared between clients and readdressed, what a client gets
\* is whole and its own and fits, and what goes upstream asks for DNSSEC records once, as
\* long as clients send ordinary questions (one with a record of its own is echoed with it:
\* the run that lets them shows the reply is not whole).
THEOREM MessagesStayWhole == ASSUME Notify = FALSE PROVE WireSpec => []MessagesWhole
<1>1. WholeInv => MessagesWhole
  <2> SUFFICES ASSUME WholeInv PROVE MessagesWhole
    OBVIOUS
  <2>1. outbound.route # "none" => Asking(outbound.message) /\ Whole(outbound.message)
    BY FormedIsWhole DEF WholeInv, Asking
  <2> QED
    BY <2>1 DEF WholeInv, Good, MessagesWhole, Asking
<1> QED
  BY <1>1, WholeStart, WholeStep, PTL DEF WireSpec

---------------------------------------------------------------------------
(* The canonical order.                                                    *)

LEMMA CanonParts ==
    /\ Len(Canon) \in Nat /\ Len(Canon) > 0 /\ DOMAIN Canon = 1..Len(Canon)
    /\ \A i \in DOMAIN Canon : Canon[i] \in Seq(Nat) /\ Canon[i] \in Name
    /\ Name \subseteq Seq(Nat) /\ Apex \in Name
    /\ \A n \in Name : \A i \in 0..Len(n) : Suffix(n, i) \in Name
    /\ \A i, j \in DOMAIN Canon : i < j => Precedes(Canon[i], Canon[j])
<1>1. /\ Canon \in Seq(Seq(Nat)) /\ Canon # <<>> /\ Canon[1] = Apex
      /\ \A i, j \in DOMAIN Canon : i < j => Precedes(Canon[i], Canon[j])
      /\ \A n \in Name : \A i \in 0..Len(n) : Suffix(n, i) \in Name
  BY DenialAssumption
<1>2. Len(Canon) \in Nat /\ Len(Canon) > 0 /\ DOMAIN Canon = 1..Len(Canon)
  BY <1>1
<1>3. \A i \in DOMAIN Canon : Canon[i] \in Seq(Nat) /\ Canon[i] \in Name
  <2> TAKE i \in DOMAIN Canon
  <2>1. Canon[i] \in Seq(Nat)
    BY <1>1, <1>2
  <2>2. Canon[i] \in Name
    BY DEF Name
  <2> QED
    BY <2>1, <2>2
<1>4. Name \subseteq Seq(Nat) /\ Apex \in Name
  <2>1. Canon[1] \in Name /\ Canon[1] = Apex
    BY <1>1, <1>2, <1>3
  <2>2. \A n \in Name : n \in Seq(Nat)
    BY <1>3 DEF Name
  <2> QED
    BY <2>1, <2>2
<1> QED
  BY <1>1, <1>2, <1>3, <1>4

\* Two names that end alike have the labels of the end in common, counted from the right.
LEMMA EndsAlike ==
    ASSUME NEW a \in Seq(Nat), NEW b \in Seq(Nat), NEW k \in Nat, k <= Len(a), k <= Len(b),
           Suffix(a, Len(a) - k) = Suffix(b, Len(b) - k), NEW i \in 1..k
    PROVE  LabelAt(a, i) = LabelAt(b, i)
<1>1. /\ Len(a) \in Nat /\ Len(b) \in Nat /\ DOMAIN a = 1..Len(a) /\ DOMAIN b = 1..Len(b)
  OBVIOUS
<1>2. SubSeq(a, Len(a) - k + 1, Len(a))[k + 1 - i] = a[Len(a) + 1 - i]
  BY <1>1
<1>3. SubSeq(b, Len(b) - k + 1, Len(b))[k + 1 - i] = b[Len(b) + 1 - i]
  BY <1>1
<1> QED
  BY <1>2, <1>3 DEF Suffix, LabelAt

\* The code's comparison agrees with the canonical order.
LEMMA LessIfPrecedes ==
    ASSUME NEW a \in Seq(Nat), NEW b \in Seq(Nat), Precedes(a, b)
    PROVE  CanonicalLess(a, b)
<1> DEFINE short == IF Len(a) < Len(b) THEN Len(a) ELSE Len(b)
           differ == {i \in 1..short : LabelAt(a, i) # LabelAt(b, i)}
           first == CHOOSE i \in differ : \A j \in differ : i <= j
<1>0. /\ Len(a) \in Nat /\ Len(b) \in Nat
  OBVIOUS
<1>1. PICK k \in 0..Len(a) :
         /\ k <= Len(b) /\ Suffix(a, Len(a) - k) = Suffix(b, Len(b) - k)
         /\ k < Len(b) /\ (k = Len(a) \/ a[Len(a) - k] < b[Len(b) - k])
  BY DEF Precedes
<1>2. \A i \in 1..k : LabelAt(a, i) = LabelAt(b, i)
  BY <1>0, <1>1, EndsAlike
<1>3. CanonicalLess(a, b) <=> IF differ = {} THEN Len(a) < Len(b)
                              ELSE LabelAt(a, first) < LabelAt(b, first)
  BY DEF CanonicalLess
<1>4. CASE k = Len(a)
  <2>1. short = k
    BY <1>0, <1>1, <1>4
  <2>2. differ = {}
    BY <1>2, <2>1
  <2> QED
    BY <1>0, <1>1, <1>3, <1>4, <2>2
<1>5. CASE k < Len(a)
  <2>1. short \in Nat /\ k + 1 \in 1..short
    BY <1>0, <1>1, <1>5
  <2>2. LabelAt(a, k + 1) = a[Len(a) - k] /\ LabelAt(b, k + 1) = b[Len(b) - k]
    <3>1. Len(a) + 1 - (k + 1) = Len(a) - k /\ Len(b) + 1 - (k + 1) = Len(b) - k
      BY <1>0, <1>1
    <3> QED
      BY <3>1 DEF LabelAt
  <2>3. LabelAt(a, k + 1) < LabelAt(b, k + 1)
    BY <1>1, <1>5, <2>2, <1>0
  <2>4. a[Len(a) - k] \in Nat /\ b[Len(b) - k] \in Nat
    BY <1>0, <1>1, <1>5
  <2>5. k + 1 \in differ
    BY <2>1, <2>2, <2>3, <2>4
  <2>6. \A j \in differ : k + 1 <= j
    BY <1>1, <1>2, <2>1
  <2> HIDE DEF differ
  <2>7. first \in differ /\ first <= k + 1
    BY <2>5, <2>6
  <2>8. first \in Nat
    BY <2>7, <2>1 DEF differ
  <2>9. first = k + 1
    BY <1>1, <2>6, <2>7, <2>8
  <2> QED
    BY <1>3, <2>3, <2>5, <2>9
<1> QED
  BY <1>0, <1>1, <1>4, <1>5

LEMMA LessOneWay ==
    ASSUME NEW a \in Seq(Nat), NEW b \in Seq(Nat), CanonicalLess(a, b)
    PROVE  ~CanonicalLess(b, a)
<1> DEFINE short(x, y) == IF Len(x) < Len(y) THEN Len(x) ELSE Len(y)
           differ(x, y) == {i \in 1..short(x, y) : LabelAt(x, i) # LabelAt(y, i)}
           first(x, y) == CHOOSE i \in differ(x, y) : \A j \in differ(x, y) : i <= j
<1>0. /\ Len(a) \in Nat /\ Len(b) \in Nat /\ short(a, b) \in Nat
      /\ short(a, b) <= Len(a) /\ short(a, b) <= Len(b)
  OBVIOUS
<1>1. differ(a, b) = differ(b, a)
  <2>1. short(a, b) = short(b, a)
    BY <1>0
  <2> QED
    BY <2>1
<1>2. /\ CanonicalLess(a, b) <=> IF differ(a, b) = {} THEN Len(a) < Len(b)
                                 ELSE LabelAt(a, first(a, b)) < LabelAt(b, first(a, b))
      /\ CanonicalLess(b, a) <=> IF differ(b, a) = {} THEN Len(b) < Len(a)
                                 ELSE LabelAt(b, first(b, a)) < LabelAt(a, first(b, a))
  BY DEF CanonicalLess
<1>3. CASE differ(a, b) = {}
  BY <1>0, <1>1, <1>2, <1>3
<1>4. CASE differ(a, b) # {}
  <2>1. first(a, b) = first(b, a)
    BY <1>1
  <2>2. \E i \in differ(a, b) : \A j \in differ(a, b) : ~(<<j, i>> \in OpToRel(<, Nat))
    <3>1. differ(a, b) \subseteq Nat
      BY <1>0
    <3> HIDE DEF differ
    <3> QED
      BY <1>4, <3>1, WFMin, NatLessThanWellFounded
  <2>3. \E i \in differ(a, b) : \A j \in differ(a, b) : i <= j
    <3>1. differ(a, b) \subseteq Nat
      BY <1>0
    <3> HIDE DEF differ
    <3>2. PICK i \in differ(a, b) : \A j \in differ(a, b) : ~(<<j, i>> \in OpToRel(<, Nat))
      BY <2>2
    <3>3. \A j \in differ(a, b) : ~(j < i)
      BY <3>1, <3>2 DEF OpToRel
    <3>4. \A j \in differ(a, b) : i <= j
      BY <3>1, <3>3
    <3> QED
      BY <3>4
  <2>4. first(a, b) \in differ(a, b)
    <3> HIDE DEF differ
    <3> QED
      BY <2>3
  <2>5. first(a, b) \in 1..short(a, b)
    BY <2>4
  <2> DEFINE f == first(a, b)
  <2>6. f \in 1..short(a, b) /\ f = first(a, b)
    BY <2>5
  <2> HIDE DEF f, first, short
  <2>7. LabelAt(a, f) \in Nat /\ LabelAt(b, f) \in Nat
    <3>1. Len(a) + 1 - f \in 1..Len(a) /\ Len(b) + 1 - f \in 1..Len(b)
      BY <1>0, <2>6 DEF short
    <3>2. a[Len(a) + 1 - f] \in Nat /\ b[Len(b) + 1 - f] \in Nat
      BY <3>1
    <3> QED
      BY <3>2 DEF LabelAt
  <2>8. ~(LabelAt(a, f) < LabelAt(b, f) /\ LabelAt(b, f) < LabelAt(a, f))
    BY <2>7
  <2> QED
    BY <1>1, <1>2, <1>4, <2>1, <2>6, <2>8
<1> QED
  BY <1>3, <1>4

\* The names are listed in the order the code compares them by.
LEMMA ListedInOrder ==
    ASSUME NEW i \in DOMAIN Canon, NEW j \in DOMAIN Canon
    PROVE  CanonicalLess(Canon[i], Canon[j]) <=> i < j
<1>1. Canon[i] \in Seq(Nat) /\ Canon[j] \in Seq(Nat) /\ i \in Nat /\ j \in Nat
  BY CanonParts
<1>2. i < j => CanonicalLess(Canon[i], Canon[j])
  BY <1>1, CanonParts, LessIfPrecedes
<1>3. j < i => CanonicalLess(Canon[j], Canon[i])
  BY <1>1, CanonParts, LessIfPrecedes
<1>4. CASE i = j
  BY <1>1, <1>4, LessOneWay
<1> QED
  BY <1>1, <1>2, <1>3, <1>4, LessOneWay

---------------------------------------------------------------------------
(* The ring that the records of a zone make.                               *)

\* The zone as it is built.
ZoneOK ==
    /\ zone \in [Name -> SUBSET Type] /\ zone[Apex] = {"A"}
    /\ hash \in [Name -> DOMAIN Canon]
    /\ \A a, b \in Name : a # b => hash[a] # hash[b]
    /\ nsec3 \in BOOLEAN /\ unhashed \in BOOLEAN /\ (unhashed => nsec3)
    /\ nsec3 \/ \A i \in DOMAIN Canon : hash[Canon[i]] = i

LEMMA Hashed ==
    ASSUME ZoneOK, NEW n \in Name
    PROVE  hash[n] \in 1..Len(Canon) /\ hash[n] \in Nat
BY CanonParts DEF ZoneOK

LEMMA RankIsHash ==
    ASSUME ZoneOK, NEW n \in Name
    PROVE  Rank(n) = hash[n]
<1>1. CASE nsec3
  BY <1>1 DEF Rank
<1>2. CASE ~nsec3
  <2>1. PICK i \in DOMAIN Canon : Canon[i] = n
    BY DEF Name
  <2>2. \A j \in DOMAIN Canon : hash[Canon[j]] = j
    BY <1>2 DEF ZoneOK
  <2>3. \A j \in DOMAIN Canon : Canon[j] = n => j = hash[n]
    BY <2>2
  <2>4. (CHOOSE j \in DOMAIN Canon : Canon[j] = n) = hash[n]
    BY <2>1, <2>3
  <2> QED
    BY <1>2, <2>4 DEF Rank
<1> QED
  BY <1>1, <1>2

LEMMA LessIsRank ==
    ASSUME ZoneOK, ~nsec3, NEW a \in Name, NEW b \in Name
    PROVE  CanonicalLess(a, b) <=> hash[a] < hash[b]
<1>1. PICK i \in DOMAIN Canon : Canon[i] = a
  BY DEF Name
<1>2. PICK j \in DOMAIN Canon : Canon[j] = b
  BY DEF Name
<1>3. hash[a] = i /\ hash[b] = j
  BY <1>1, <1>2 DEF ZoneOK
<1> QED
  BY <1>1, <1>2, <1>3, ListedInOrder

LEMMA OwnersAre ==
    ASSUME ZoneOK
    PROVE  /\ Owner \subseteq Name /\ Apex \in Owner
           /\ \A n \in Name : HasData(n) => \A i \in 0..Len(n) : Exists(Suffix(n, i))
           /\ \A n \in Name : HasData(n) => n \in Owner
           /\ \A n \in Name : HasData(n) => Exists(n)
<1>1. \A n \in Name : HasData(n) => \A i \in 0..Len(n) : Exists(Suffix(n, i))
  BY DEF Exists
<1>2. \A n \in Name : Suffix(n, 0) = n /\ 0 \in 0..Len(n)
  <2> TAKE n \in Name
  <2>1. n \in Seq(Nat)
    BY CanonParts
  <2> QED
    BY <2>1 DEF Suffix
<1>3. \A n \in Name : HasData(n) => Exists(n)
  BY <1>1, <1>2
<1>4. HasData(Apex) /\ Apex \in Name
  BY CanonParts DEF HasData, ZoneOK
<1> QED
  BY <1>1, <1>3, <1>4 DEF Owner

LEMMA FirstIs ==
    ASSUME ZoneOK, NEW S, S \subseteq Name, S # {}
    PROVE  FirstOf(S) \in S /\ \A m \in S : hash[FirstOf(S)] <= hash[m]
<1> DEFINE T == {hash[m] : m \in S}
<1>1. T \subseteq Nat /\ T # {}
  <2>1. PICK m \in S : TRUE
    OBVIOUS
  <2>2. hash[m] \in T
    OBVIOUS
  <2> QED
    BY <2>2, Hashed
<1>2. PICK x \in T : \A y \in T : ~(<<y, x>> \in OpToRel(<, Nat))
  <2> HIDE DEF T
  <2> QED
    BY <1>1, WFMin, NatLessThanWellFounded
<1>3. \A y \in T : x <= y
  <2> HIDE DEF T
  <2>1. \A y \in T : y \in Nat /\ x \in Nat
    BY <1>1, <1>2
  <2>2. \A y \in T : ~(y < x)
    BY <1>2, <2>1 DEF OpToRel
  <2> QED
    BY <2>1, <2>2
<1>4. PICK n \in S : hash[n] = x
  OBVIOUS
<1>5. \A m \in S : Rank(m) = hash[m]
  BY RankIsHash
<1>6. \A m \in S : Rank(n) <= Rank(m)
  BY <1>3, <1>4, <1>5
<1>7. FirstOf(S) \in S /\ \A m \in S : Rank(FirstOf(S)) <= Rank(m)
  BY <1>6 DEF FirstOf
<1> QED
  BY <1>5, <1>7

LEMMA LastIs ==
    ASSUME ZoneOK, NEW S, S \subseteq Name, S # {}
    PROVE  \E n \in S : \A m \in S : hash[m] <= hash[n]
<1> DEFINE T == {Len(Canon) - hash[m] : m \in S}
<1>1. T \subseteq Nat /\ T # {}
  <2>1. PICK m \in S : TRUE
    OBVIOUS
  <2>2. Len(Canon) - hash[m] \in T
    OBVIOUS
  <2>3. \A n \in S : Len(Canon) - hash[n] \in Nat
    BY Hashed, CanonParts
  <2> QED
    BY <2>2, <2>3
<1>2. PICK x \in T : \A y \in T : ~(<<y, x>> \in OpToRel(<, Nat))
  <2> HIDE DEF T
  <2> QED
    BY <1>1, WFMin, NatLessThanWellFounded
<1>3. \A y \in T : x <= y
  <2> HIDE DEF T
  <2>1. \A y \in T : y \in Nat /\ x \in Nat
    BY <1>1, <1>2
  <2>2. \A y \in T : ~(y < x)
    BY <1>2, <2>1 DEF OpToRel
  <2> QED
    BY <2>1, <2>2
<1>4. PICK n \in S : x = Len(Canon) - hash[n]
  OBVIOUS
<1>5. \A m \in S : hash[m] <= hash[n]
  <2> TAKE m \in S
  <2>1. Len(Canon) - hash[n] <= Len(Canon) - hash[m]
    BY <1>3, <1>4
  <2>2. hash[n] \in Nat /\ hash[m] \in Nat /\ Len(Canon) \in Nat
    BY Hashed, CanonParts
  <2> QED
    BY <2>1, <2>2
<1> QED
  BY <1>5

\* The next record is the next owner's, or the first owner's after the last.
LEMMA AfterIs ==
    ASSUME ZoneOK, NEW n \in Owner
    PROVE  /\ After(n) \in Owner
           /\ \/ /\ hash[n] < hash[After(n)]
                 /\ \A m \in Owner : hash[n] < hash[m] => hash[After(n)] <= hash[m]
              \/ \A m \in Owner : hash[m] <= hash[n] /\ hash[After(n)] <= hash[m]
<1>0. Owner \subseteq Name /\ n \in Name
  BY OwnersAre
<1>1. \A m \in Owner : Rank(m) = hash[m] /\ hash[m] \in Nat
  BY <1>0, RankIsHash, Hashed
<1> DEFINE later == {m \in Owner : Rank(m) > Rank(n)}
<1>2. \A m \in Owner : m \in later <=> hash[n] < hash[m]
  BY <1>1
<1>3. After(n) = FirstOf(IF later = {} THEN Owner ELSE later)
  BY DEF After
<1>4. later \subseteq Owner
  OBVIOUS
<1> HIDE DEF later
<1>5. CASE later = {}
  <2>1. After(n) \in Owner /\ \A m \in Owner : hash[After(n)] <= hash[m]
    BY <1>0, <1>3, <1>5, FirstIs
  <2>2. \A m \in Owner : hash[m] <= hash[n]
    BY <1>1, <1>2, <1>5
  <2> QED
    BY <2>1, <2>2
<1>6. CASE later # {}
  <2>1. After(n) \in later /\ \A m \in later : hash[After(n)] <= hash[m]
    BY <1>0, <1>3, <1>4, <1>6, FirstIs
  <2> QED
    BY <1>2, <1>4, <2>1
<1> QED
  BY <1>5, <1>6

LEMMA InChain ==
    ASSUME ZoneOK, NEW r \in Chain
    PROVE  /\ r.owner \in Owner /\ r.next = After(r.owner) /\ r.next \in Owner
           /\ r.types = zone[r.owner] /\ r = DenialRecord(r.owner)
<1>1. PICK n \in Owner : r = DenialRecord(n)
  BY DEF Chain
<1>2. r.owner = n /\ r.next = After(n) /\ r.types = zone[n]
  BY <1>1 DEF DenialRecord
<1> QED
  BY <1>1, <1>2, AfterIs

\* CoversHash and MatchesHash in a zone whose hash the code takes.
Between(r, q) ==
    IF hash[r.owner] < hash[r.next] THEN hash[r.owner] < hash[q] /\ hash[q] < hash[r.next]
    ELSE hash[q] > hash[r.owner] \/ hash[q] < hash[r.next]

LEMMA HashesAre ==
    ASSUME NEW r, NEW q
    PROVE  /\ CoversHash(r, q) <=> ~unhashed /\ Between(r, q)
           /\ MatchesHash(r, q) <=> ~unhashed /\ hash[r.owner] = hash[q]
<1>1. HashOf(q) = IF unhashed THEN {} ELSE {hash[q]}
  BY DEF HashOf
<1> QED
  BY <1>1 DEF CoversHash, MatchesHash, Between

\* In an NSEC zone the two ways to cover are one.
LEMMA CoverAlike ==
    ASSUME ZoneOK, ~nsec3, NEW r \in Chain, NEW q \in Name
    PROVE  Covers(r, q) <=> r.owner # r.next /\ Between(r, q)
<1>1. r.owner \in Name /\ r.next \in Name
  BY InChain, OwnersAre
<1>2. /\ CanonicalLess(r.owner, r.next) <=> hash[r.owner] < hash[r.next]
      /\ CanonicalLess(r.owner, q) <=> hash[r.owner] < hash[q]
      /\ CanonicalLess(q, r.next) <=> hash[q] < hash[r.next]
  BY <1>1, LessIsRank
<1>3. hash[q] \in Nat /\ hash[r.owner] \in Nat /\ hash[r.next] \in Nat
  BY <1>1, Hashed
<1> QED
  BY <1>2, <1>3 DEF Covers, Between

\* No record covers an owner.
LEMMA OwnersUncovered ==
    ASSUME ZoneOK, NEW r \in Chain, NEW q \in Owner
    PROVE  ~CoversHash(r, q) /\ ~Between(r, q) /\ (~nsec3 => ~Covers(r, q))
<1>0. Owner \subseteq Name /\ q \in Name
  BY OwnersAre
<1>1. r.owner \in Owner /\ r.next = After(r.owner) /\ r.next \in Owner
  BY InChain
<1>2. \/ /\ hash[r.owner] < hash[r.next]
         /\ \A m \in Owner : hash[r.owner] < hash[m] => hash[r.next] <= hash[m]
      \/ \A m \in Owner : hash[m] <= hash[r.owner] /\ hash[r.next] <= hash[m]
  BY <1>1, AfterIs
<1>3. hash[q] \in Nat /\ hash[r.owner] \in Nat /\ hash[r.next] \in Nat
  BY <1>0, <1>1, Hashed
<1>4. ~Between(r, q)
  BY <1>1, <1>2, <1>3 DEF Between
<1> QED
  BY <1>0, <1>4, CoverAlike, HashesAre

\* The record around a name that is no owner covers it.
LEMMA AroundCovers ==
    ASSUME ZoneOK, NEW m \in Name, m \notin Owner
    PROVE  /\ Around(m) \in Chain /\ Between(Around(m), m)
           /\ ~unhashed => CoversHash(Around(m), m)
           /\ ~nsec3 /\ Owner # {Apex} => Covers(Around(m), m)
<1>0. Owner \subseteq Name /\ Apex \in Owner
  BY OwnersAre
<1>1. \A o \in Owner : Rank(o) = hash[o] /\ hash[o] \in Nat /\ hash[o] # hash[m]
  BY <1>0, RankIsHash, Hashed DEF ZoneOK
<1>2. Rank(m) = hash[m] /\ hash[m] \in Nat
  BY RankIsHash, Hashed
<1> DEFINE before == {o \in Owner : Rank(o) < Rank(m)}
           fits(r) == IF before = {} THEN \A o \in Owner : Rank(o) <= Rank(r.owner)
                      ELSE r.owner \in before /\ \A o \in before : Rank(o) <= Rank(r.owner)
<1>3. \A o \in Owner : o \in before <=> hash[o] < hash[m]
  BY <1>1, <1>2
<1>4. Around(m) = CHOOSE r \in Chain : fits(r)
  BY DEF Around
<1>5. before \subseteq Owner
  OBVIOUS
<1>6. \A o \in Owner : DenialRecord(o) \in Chain /\ DenialRecord(o).owner = o
  BY DEF Chain, DenialRecord
<1> HIDE DEF before
<1>7. \E r \in Chain : fits(r)
  <2>1. CASE before = {}
    <3>1. PICK o \in Owner : \A p \in Owner : hash[p] <= hash[o]
      BY <1>0, LastIs
    <3>2. fits(DenialRecord(o))
      BY <1>1, <1>6, <2>1, <3>1
    <3> QED
      BY <1>6, <3>2
  <2>2. CASE before # {}
    <3>1. PICK o \in before : \A p \in before : hash[p] <= hash[o]
      BY <1>0, <1>5, <2>2, LastIs
    <3>2. fits(DenialRecord(o))
      BY <1>1, <1>5, <1>6, <2>2, <3>1
    <3> QED
      BY <1>5, <1>6, <3>2
  <2> QED
    BY <2>1, <2>2
<1> DEFINE r == Around(m)
<1>8. r \in Chain /\ fits(r)
  BY <1>4, <1>7
<1> HIDE DEF r
<1>9. /\ r.owner \in Owner /\ r.next = After(r.owner) /\ r.next \in Owner
  BY <1>8, InChain
<1>10. \/ /\ hash[r.owner] < hash[r.next]
          /\ \A o \in Owner : hash[r.owner] < hash[o] => hash[r.next] <= hash[o]
       \/ \A o \in Owner : hash[o] <= hash[r.owner] /\ hash[r.next] <= hash[o]
  BY <1>9, AfterIs
<1>11. /\ hash[r.owner] \in Nat /\ hash[r.next] \in Nat
       /\ hash[r.owner] # hash[m] /\ hash[r.next] # hash[m]
  BY <1>1, <1>9
<1>12. Between(r, m)
  <2>1. CASE before = {}
    <3>1. \A o \in Owner : hash[o] <= hash[r.owner] /\ hash[m] < hash[o]
      BY <1>1, <1>2, <1>3, <1>8, <1>9, <2>1
    <3>2. hash[r.next] <= hash[r.owner] /\ hash[m] < hash[r.next]
      BY <1>9, <3>1
    <3> QED
      BY <1>2, <1>11, <3>2 DEF Between
  <2>2. CASE before # {}
    <3>1. r.owner \in before /\ \A o \in before : hash[o] <= hash[r.owner]
      BY <1>1, <1>5, <1>8, <2>2
    <3>2. hash[r.owner] < hash[m]
      BY <1>3, <1>9, <3>1
    <3>3. CASE hash[r.next] < hash[m]
      <4>1. hash[r.next] <= hash[r.owner]
        BY <1>3, <1>9, <3>1, <3>3
      <4> QED
        BY <1>2, <1>11, <3>2, <4>1 DEF Between
    <3>4. CASE hash[m] < hash[r.next]
      BY <1>2, <1>11, <3>2, <3>4 DEF Between
    <3> QED
      BY <1>2, <1>11, <3>3, <3>4
  <2> QED
    BY <2>1, <2>2
<1>13. r.owner = r.next => Owner = {Apex}
  <2> SUFFICES ASSUME r.owner = r.next PROVE Owner = {Apex}
    OBVIOUS
  <2>1. \A o \in Owner : hash[o] <= hash[r.owner] /\ hash[r.owner] <= hash[o]
    BY <1>10, <1>11
  <2>2. \A o \in Owner : hash[o] = hash[r.owner]
    BY <1>1, <1>11, <2>1
  <2>3. \A o \in Owner : o = r.owner
    BY <1>0, <1>9, <2>2 DEF ZoneOK
  <2> QED
    BY <1>0, <2>3
<1>14. ~nsec3 /\ Owner # {Apex} => Covers(r, m)
  BY <1>8, <1>12, <1>13, CoverAlike
<1> QED
  BY <1>8, <1>12, <1>14, HashesAre DEF r

---------------------------------------------------------------------------
(* What the zone's own server sends.                                       *)

LEMMA EncloserIs ==
    ASSUME ZoneOK, NEW n \in Name, ~Exists(n)
    PROVE  /\ Encloser(n) \in 1..Len(n) /\ Exists(Suffix(n, Encloser(n)))
           /\ Suffix(n, Encloser(n)) \in Name /\ Suffix(n, Encloser(n) - 1) \in Name
           /\ ~Exists(Suffix(n, Encloser(n) - 1))
<1> DEFINE above == {i \in 1..Len(n) : Exists(Suffix(n, i))}
<1>0. n \in Seq(Nat) /\ Len(n) \in Nat /\ n # Apex /\ Exists(Apex)
  <2>1. HasData(Apex) /\ Apex \in Name
    BY CanonParts DEF ZoneOK, HasData
  <2>2. Exists(Apex)
    BY <2>1, OwnersAre
  <2> QED
    BY <2>2, CanonParts
<1>1. Len(n) \in above
  <2>1. Len(n) > 0
    BY <1>0 DEF Apex
  <2>2. Suffix(n, Len(n)) = Apex
    BY <1>0 DEF Suffix, Apex
  <2> QED
    BY <1>0, <2>1, <2>2
<1>2. above \subseteq Nat
  OBVIOUS
<1>3. \A i \in 1..Len(n) : i \in above <=> Exists(Suffix(n, i))
  OBVIOUS
<1>4. above \subseteq 1..Len(n)
  OBVIOUS
<1> HIDE DEF above
<1>5. PICK e \in above : \A j \in above : ~(<<j, e>> \in OpToRel(<, Nat))
  BY <1>1, <1>2, WFMin, NatLessThanWellFounded
<1>6. \A j \in above : ~(j < e)
  BY <1>2, <1>5 DEF OpToRel
<1>7. \A j \in 1..(e - 1) : ~Exists(Suffix(n, j))
  <2> TAKE j \in 1..(e - 1)
  <2>1. e \in 1..Len(n)
    BY <1>4
  <2>2. j \in 1..Len(n) /\ j < e
    BY <1>0, <2>1
  <2> QED
    BY <1>3, <1>6, <2>2
<1>8. /\ Encloser(n) \in 1..Len(n) /\ Exists(Suffix(n, Encloser(n)))
      /\ \A j \in 1..(Encloser(n) - 1) : ~Exists(Suffix(n, j))
  BY <1>3, <1>4, <1>7 DEF Encloser
<1> DEFINE c == Encloser(n)
<1>9. c \in 1..Len(n) /\ \A j \in 1..(c - 1) : ~Exists(Suffix(n, j))
  BY <1>8
<1> HIDE DEF c
<1>10. ~Exists(Suffix(n, c - 1))
  <2>1. CASE c = 1
    <3>1. Suffix(n, c - 1) = n
      BY <1>0, <2>1 DEF Suffix
    <3> QED
      BY <3>1
  <2>2. CASE c # 1
    <3>1. c - 1 \in 1..(c - 1)
      BY <1>0, <1>9, <2>2
    <3> QED
      BY <1>9, <3>1
  <2> QED
    BY <2>1, <2>2
<1>11. c \in 0..Len(n) /\ c - 1 \in 0..Len(n)
  BY <1>0, <1>9
<1> QED
  BY <1>8, <1>10, <1>11, CanonParts DEF c

LEMMA AboutIs ==
    ASSUME ZoneOK, NEW n \in Name
    PROVE  About(n) \in Chain /\ (n \in Owner => About(n) = DenialRecord(n))
<1>1. CASE n \in Owner
  BY <1>1 DEF About, Chain
<1>2. CASE n \notin Owner
  BY <1>2, AroundCovers DEF About
<1> QED
  BY <1>1, <1>2

\* The record that shows a name is not there itself covers it, or the name above it that
\* lies just below one that is there.
LEMMA AbsenceIs ==
    ASSUME ZoneOK, NEW n \in Name, ~Exists(n)
    PROVE  /\ Absence(n) \in Chain
           /\ nsec3 /\ ~unhashed => CoversHash(Absence(n), Suffix(n, Encloser(n) - 1))
           /\ ~nsec3 /\ Owner # {Apex} => Covers(Absence(n), n)
<1>1. CASE nsec3
  <2>1. Suffix(n, Encloser(n) - 1) \in Name /\ Suffix(n, Encloser(n) - 1) \notin Owner
    BY <1>1, EncloserIs DEF Owner
  <2> DEFINE above == Suffix(n, Encloser(n) - 1)
  <2>2. above \in Name /\ above \notin Owner /\ Absence(n) = Around(above)
    BY <1>1, <2>1 DEF Absence
  <2> HIDE DEF above
  <2>3. Absence(n) \in Chain /\ (~unhashed => CoversHash(Absence(n), above))
    BY <2>2, AroundCovers
  <2> QED
    BY <1>1, <2>3 DEF above
<1>2. CASE ~nsec3
  <2>1. n \notin Owner
    BY <1>2, OwnersAre DEF Owner
  <2> QED
    BY <1>2, <2>1, AroundCovers DEF Absence
<1> QED
  BY <1>1, <1>2

LEMMA ProofIsOfZone ==
    ASSUME ZoneOK, NEW n \in Name
    PROVE  ProofFor(n) \subseteq Chain /\ ProofFor(n) # {}
<1>1. CASE Exists(n)
  BY <1>1, AboutIs DEF ProofFor
<1>2. CASE ~Exists(n)
  <2> DEFINE d == DenialRecord(Suffix(n, Encloser(n)))
             ws == {About(w) : w \in {Wildcard(n)} \cap Name}
  <2>1. ws \subseteq Chain
    BY AboutIs
  <2>2. nsec3 => d \in Chain
    BY <1>2, EncloserIs DEF Owner, Chain
  <2>3. Absence(n) \in Chain
    BY <1>2, AbsenceIs
  <2>4. ProofFor(n) = {Absence(n)} \cup ws \cup (IF nsec3 THEN {d} ELSE {})
    BY <1>2 DEF ProofFor
  <2> HIDE DEF d, ws
  <2> QED
    BY <2>1, <2>2, <2>3, <2>4
<1> QED
  BY <1>1, <1>2

LEMMA DenialOf ==
    ASSUME NEW q, NEW r, r.rcode = 3
    PROVE  Denies(q, r) <=> IF nsec3 THEN Nsec3Nxdomain(q.name, r.proof)
                            ELSE NsecNxdomain(q.name, r.proof)
BY DEF Denies

\* The zone's own proof that a name or a type is absent convinces the validator, when no
\* wildcard has a part in it and the hash is one it takes.
LEMMA ProofConvinces ==
    ASSUME ZoneOK, NEW q \in [name : Name, type : Type], NEW r, ~unhashed,
           q.type \notin zone[q.name], "CNAME" \notin zone[q.name],
           r.rcode = (IF Exists(q.name) THEN 0 ELSE 3), r.proof = ProofFor(q.name),
           nsec3 \/ (Owner # {Apex} /\ (Exists(q.name) => HasData(q.name)))
    PROVE  Denies(q, r)
<1> DEFINE n == q.name
<1>n. n \in Name
  OBVIOUS
<1>1. CASE Exists(n)
  <2>1. n \in Owner
    BY <1>1 DEF Owner
  <2>2. r.rcode = 0 /\ r.proof = {DenialRecord(n)}
    BY <1>1, <2>1, AboutIs DEF ProofFor
  <2>3. DenialRecord(n).owner = n /\ Lacks(DenialRecord(n), q.type)
    BY DEF DenialRecord, Lacks
  <2>4. MatchesHash(DenialRecord(n), n)
    BY <2>3, HashesAre
  <2>5. Nsec3Nodata(n, q.type, r.proof) /\ NsecNodata(n, q.type, r.proof)
    BY <2>2, <2>3, <2>4 DEF Nsec3Nodata, NsecNodata
  <2>6. r.rcode # 3 /\ r.rcode = 0
    BY <2>2
  <2> QED
    BY <2>5, <2>6 DEF Denies
<1>2. CASE ~Exists(n) /\ nsec3
  <2> DEFINE e == Encloser(n)
             a == Absence(n)
             d == DenialRecord(Suffix(n, Encloser(n)))
  <2>1. CoversHash(a, Suffix(n, e - 1)) /\ e \in 1..Len(n)
    BY <1>2, AbsenceIs, EncloserIs
  <2>2. d.owner = Suffix(n, e)
    BY DEF DenialRecord
  <2>3. a \in r.proof /\ d \in r.proof /\ r.rcode = 3
    BY <1>2 DEF ProofFor
  <2> HIDE DEF e, a, d
  <2>4. MatchesHash(d, Suffix(n, e))
    BY <2>2, HashesAre
  <2>5. Nsec3Nxdomain(n, r.proof)
    BY <2>1, <2>3, <2>4 DEF Nsec3Nxdomain
  <2> QED
    BY <1>2, <2>3, <2>5, DenialOf
<1>3. CASE ~Exists(n) /\ ~nsec3
  <2>1. r.rcode = 3 /\ Absence(n) \in r.proof
    BY <1>3 DEF ProofFor
  <2>2. Covers(Absence(n), n)
    BY <1>3, AbsenceIs
  <2>3. NsecNxdomain(n, r.proof)
    BY <2>1, <2>2 DEF NsecNxdomain
  <2> QED
    BY <1>3, <2>1, <2>3, DenialOf
<1> QED
  BY <1>1, <1>2, <1>3

\* No records of the zone convince the validator that data is absent that a name has itself,
\* and none that a name is there without a type which a wildcard gives it.
LEMMA ConvincedIsRight ==
    ASSUME ZoneOK, NEW q \in [name : Name, type : Type], NEW r, r.proof \subseteq Chain,
           r.rcode \in {0, 3}, Denies(q, r)
    PROVE  /\ r.rcode = 3 => ~HasData(q.name)
           /\ r.rcode = 0 => /\ q.type \notin zone[q.name] /\ Exists(q.name)
                             /\ q.type # "CNAME" => "CNAME" \notin zone[q.name]
<1> DEFINE n == q.name
<1>n. n \in Name /\ Owner \subseteq Name
  BY OwnersAre
<1>1. CASE r.rcode = 3
  <2> SUFFICES ASSUME HasData(n) PROVE FALSE
    BY <1>1
  <2>1. n \in Owner
    BY <1>n, OwnersAre
  <2>2. CASE nsec3
    <3>1. Nsec3Nxdomain(n, r.proof)
      BY <1>1, <2>2 DEF Denies
    <3>2. \A c \in r.proof : ~CoversHash(c, n)
      BY <2>1, OwnersUncovered
    <3>3. PICK i \in 1..Len(n) : \E c \in r.proof : CoversHash(c, Suffix(n, i - 1))
      BY <3>1, <3>2 DEF Nsec3Nxdomain
    <3>4. n \in Seq(Nat) /\ i - 1 \in 0..Len(n)
      BY <1>n, CanonParts
    <3>5. Exists(Suffix(n, i - 1)) /\ Suffix(n, i - 1) \in Name
      BY <1>n, <3>4, OwnersAre, CanonParts
    <3>6. Suffix(n, i - 1) \in Owner
      BY <2>2, <3>5 DEF Owner
    <3> QED
      BY <3>3, <3>6, OwnersUncovered
  <2>3. CASE ~nsec3
    <3>1. NsecNxdomain(n, r.proof)
      BY <1>1, <2>3 DEF Denies
    <3> QED
      BY <2>1, <2>3, <3>1, OwnersUncovered DEF NsecNxdomain
  <2> QED
    BY <2>2, <2>3
<1>2. CASE r.rcode = 0
  <2>1. r.rcode # 3
    BY <1>2
  <2>2. \E c \in r.proof : hash[c.owner] = hash[n] /\ Lacks(c, q.type)
    <3>1. CASE nsec3
      BY <1>2, <2>1, <3>1, HashesAre DEF Denies, Nsec3Nodata
    <3>2. CASE ~nsec3
      BY <1>2, <2>1, <3>2 DEF Denies, NsecNodata
    <3> QED
      BY <3>1, <3>2
  <2>3. PICK c \in r.proof : hash[c.owner] = hash[n] /\ Lacks(c, q.type)
    BY <2>2
  <2>4. c.owner \in Name /\ c.types = zone[c.owner] /\ Exists(c.owner)
    BY <1>n, InChain, OwnersAre DEF Owner
  <2>5. c.owner = n
    BY <1>n, <2>3, <2>4 DEF ZoneOK
  <2>6. q.type \notin zone[n] /\ (q.type = "CNAME" \/ "CNAME" \notin zone[n])
    BY <2>3, <2>4, <2>5 DEF Lacks
  <2> QED
    BY <2>1, <2>4, <2>5, <2>6
<1> QED
  BY <1>1, <1>2

---------------------------------------------------------------------------
(* The invariant.                                                          *)

HonestDenial ==
    /\ ~response.answers
    /\ response.rcode = (IF Exists(question.name) \/ Synthesised(question.name) THEN 0 ELSE 3)
    /\ response.proof = ProofFor(question.name)
    /\ question.type \notin Given(question.name) /\ "CNAME" \notin Given(question.name)

\* An alias to a missing name.
HonestDangling == response.answers /\ response.rcode = 3

\* The keys are those of the zone, and each signature is by one of them.
HonestAnswer ==
    /\ response.answers /\ response.rcode = 0
    /\ response.keys = <<>> \/ response.keys = <<Key(1), Key(2)>>
    /\ \A i \in DOMAIN response.sigs :
          response.sigs[i].valid
          /\ \E id \in {1, 2} : response.sigs[i].by = id /\ response.sigs[i].tag = Tag(id)
    /\ \E k \in Nat : DOMAIN response.sigs = 1..k

DenialInv ==
    /\ ZoneOK
    /\ question \in [name : Name, type : Type]
    /\ response.rcode \in {0, 2, 3} /\ response.proof \subseteq Chain
    /\ honest => HonestDenial \/ HonestDangling \/ HonestAnswer

LEMMA DenialInitInv == DenialInit => DenialInv
<1> SUFFICES ASSUME DenialInit PROVE DenialInv
  OBVIOUS
<1>1. ZoneOK
  <2>1. zone \in [Name -> SUBSET Type]
    BY DEF DenialInit, Type
  <2> QED
    BY <2>1 DEF DenialInit, ZoneOK
<1>2. question \in [name : Name, type : Type]
  BY CanonParts DEF DenialInit, Type
<1>3. response.rcode = 0 /\ response.proof = {} /\ ~honest
  BY DEF DenialInit, NoResponse
<1> QED
  BY <1>1, <1>2, <1>3 DEF DenialInv

\* The zone never changes, and so neither does what is made of it.
LEMMA ZoneKept ==
    ASSUME UNCHANGED <<zone, hash, nsec3, unhashed>>, ZoneOK
    PROVE  /\ ZoneOK' /\ Chain' = Chain
           /\ \A n \in Name : /\ Exists(n)' = Exists(n) /\ ProofFor(n)' = ProofFor(n)
                              /\ Synthesised(n)' = Synthesised(n) /\ Given(n)' = Given(n)
<1>0. zone' = zone /\ hash' = hash /\ nsec3' = nsec3 /\ unhashed' = unhashed
  OBVIOUS
<1>1. \A n \in Name : HasData(n)' = HasData(n)
  BY <1>0 DEF HasData
<1>2. ASSUME NEW n PROVE Exists(n)' = Exists(n)
  BY <1>1 DEF Exists
<1>3. Owner' = Owner
  BY <1>0, <1>1, <1>2 DEF Owner
<1>4. ASSUME NEW n PROVE Rank(n)' = Rank(n)
  BY <1>0 DEF Rank
<1>5. ASSUME NEW S PROVE FirstOf(S)' = FirstOf(S)
  BY <1>4 DEF FirstOf
<1>6. ASSUME NEW n PROVE After(n)' = After(n)
  BY <1>3, <1>4, <1>5 DEF After
<1>7. ASSUME NEW n PROVE DenialRecord(n)' = DenialRecord(n)
  BY <1>0, <1>6 DEF DenialRecord
<1>8. Chain' = Chain
  BY <1>3, <1>7 DEF Chain
<1>9. ASSUME NEW n PROVE Around(n)' = Around(n)
  BY <1>3, <1>4, <1>8 DEF Around
<1>10. ASSUME NEW n PROVE Encloser(n)' = Encloser(n)
  BY <1>2 DEF Encloser
<1>13. ASSUME NEW n PROVE Wildcard(n)' = Wildcard(n)
  BY <1>10 DEF Wildcard
<1>14. ASSUME NEW n PROVE Synthesised(n)' = Synthesised(n)
  BY <1>2, <1>13 DEF Synthesised
<1>15. ASSUME NEW n PROVE Given(n)' = Given(n)
  BY <1>0, <1>13, <1>14 DEF Given
<1>16. ASSUME NEW n PROVE About(n)' = About(n)
  BY <1>3, <1>7, <1>9 DEF About
<1>17. ASSUME NEW n PROVE Absence(n)' = Absence(n)
  BY <1>0, <1>9, <1>10 DEF Absence
<1>11. ASSUME NEW n PROVE ProofFor(n)' = ProofFor(n)
  BY <1>0, <1>2, <1>7, <1>10, <1>13, <1>16, <1>17 DEF ProofFor
<1>12. ZoneOK'
  BY <1>0 DEF ZoneOK
<1> QED
  BY <1>2, <1>8, <1>11, <1>12, <1>14, <1>15

\* What a step asks and what comes.
LEMMA AskedKeeps ==
    ASSUME DenialInv, NEW q \in [name : Name, type : Type], NEW r, NEW b, Asked(q, r, b),
           r.rcode \in {0, 2, 3}, r.proof \subseteq Chain,
           b => HonestDenial' \/ HonestDangling' \/ HonestAnswer'
    PROVE  DenialInv'
<1>1. UNCHANGED <<zone, hash, nsec3, unhashed>> /\ question' = q /\ response' = r /\ honest' = b
  BY DEF Asked
<1>2. ZoneOK' /\ Chain' = Chain
  BY <1>1, ZoneKept DEF DenialInv
<1> QED
  BY <1>1, <1>2 DEF DenialInv

LEMMA DenyKeeps ==
    ASSUME DenialInv, NEW q \in [name : Name, type : Type], Deny(q)
    PROVE  DenialInv'
<1> DEFINE code == IF Exists(q.name) \/ Synthesised(q.name) THEN 0 ELSE 3
           r == [NoResponse EXCEPT !.rcode = code, !.proof = ProofFor(q.name)]
<1>1. r.rcode = code /\ r.proof = ProofFor(q.name) /\ r.answers = FALSE
  BY DEF NoResponse
<1>2. Asked(q, r, TRUE) /\ q.type \notin Given(q.name) /\ "CNAME" \notin Given(q.name)
  BY DEF Deny
<1>3. question' = q /\ response' = r /\ UNCHANGED <<zone, hash, nsec3, unhashed>>
  BY <1>2 DEF Asked
<1>n. q.name \in Name /\ ZoneOK
  BY DEF DenialInv
<1>c. code \in {0, 3} /\ code = (IF Exists(q.name) \/ Synthesised(q.name) THEN 0 ELSE 3)
  OBVIOUS
<1> HIDE DEF r, code
<1>4. PICK c \in Name : c = q.name
  BY <1>n
<1>5. /\ Exists(c)' = Exists(c) /\ ProofFor(c)' = ProofFor(c)
      /\ Synthesised(c)' = Synthesised(c) /\ Given(c)' = Given(c)
  BY <1>3, <1>n, ZoneKept
<1>6. c = question'.name
  BY <1>3, <1>4
<1>7. HonestDenial'
  BY <1>1, <1>2, <1>3, <1>4, <1>5, <1>6, <1>c DEF HonestDenial
<1>8. r.rcode \in {0, 2, 3} /\ r.proof \subseteq Chain
  BY <1>1, <1>c, <1>n, ProofIsOfZone
<1> QED
  BY <1>2, <1>7, <1>8, AskedKeeps

\* What shows of a name that a wildcard answers for it.
LEMMA AbsencesAre ==
    ASSUME ZoneOK, NEW n \in Name
    PROVE  {Absence(m) : m \in {k \in {n} : Synthesised(k)}} \subseteq Chain
BY AbsenceIs DEF Synthesised

LEMMA DangleKeeps ==
    ASSUME DenialInv, NEW q \in [name : Name, type : Type], NEW target \in Name, Dangle(q, target)
    PROVE  DenialInv'
<1> DEFINE proof == ProofFor(target) \cup {Absence(n) : n \in {m \in {q.name} : Synthesised(m)}}
           r == [NoResponse EXCEPT !.rcode = 3, !.answers = TRUE, !.proof = proof]
<1>1. r.rcode = 3 /\ r.proof = proof /\ r.answers = TRUE
  BY DEF NoResponse
<1>2. Asked(q, r, TRUE)
  BY DEF Dangle
<1>3. proof \subseteq Chain
  BY ProofIsOfZone, AbsencesAre DEF DenialInv
<1> HIDE DEF r, proof
<1>4. HonestDangling'
  BY <1>1, <1>2 DEF HonestDangling, Asked
<1> QED
  BY <1>1, <1>2, <1>3, <1>4, AskedKeeps

LEMMA MistakeKeeps ==
    ASSUME DenialInv, NEW q \in [name : Name, type : Type], NEW rcode \in {0, 3},
           NEW proof \in Some(Chain), Mistake(q, rcode, proof)
    PROVE  DenialInv'
<1> DEFINE r == [NoResponse EXCEPT !.rcode = rcode, !.proof = proof]
<1>1. r.rcode = rcode /\ r.proof = proof
  BY DEF NoResponse
<1>2. Asked(q, r, FALSE)
  BY DEF Mistake
<1>3. proof \subseteq Chain
  BY DEF Some
<1> HIDE DEF r
<1> QED
  BY <1>1, <1>2, <1>3, AskedKeeps

LEMMA FailKeeps ==
    ASSUME DenialInv, NEW q \in [name : Name, type : Type], Fail(q)
    PROVE  DenialInv'
<1> DEFINE r == [NoResponse EXCEPT !.rcode = 2]
<1>1. r.rcode = 2 /\ r.proof = {}
  BY DEF NoResponse
<1>2. Asked(q, r, FALSE)
  BY DEF Fail
<1> HIDE DEF r
<1> QED
  BY <1>1, <1>2, AskedKeeps

Signatures(valid, form) ==
    {<<>>, <<Sig(2, valid, form)>>, <<Sig(1, TRUE, Beside(form)), Sig(2, valid, form)>>}

LEMMA SignaturesAre ==
    ASSUME NEW valid \in BOOLEAN, NEW form \in Form, NEW sigs \in Signatures(valid, form)
    PROVE  /\ \E k \in Nat : DOMAIN sigs = 1..k
           /\ \A i \in DOMAIN sigs :
                 \E id \in {1, 2} : sigs[i].by = id /\ sigs[i].tag = Tag(id)
<1>1. ASSUME NEW id, NEW v, NEW f PROVE Sig(id, v, f).by = id /\ Sig(id, v, f).tag = Tag(id)
  BY DEF Sig
<1>2. CASE sigs = <<>>
  BY <1>2
<1>3. CASE sigs = <<Sig(2, valid, form)>>
  <2>1. DOMAIN sigs = 1..1 /\ sigs[1] = Sig(2, valid, form)
    BY <1>3
  <2> QED
    BY <1>1, <2>1
<1>4. CASE sigs = <<Sig(1, TRUE, Beside(form)), Sig(2, valid, form)>>
  <2> DEFINE first == Sig(1, TRUE, Beside(form))
  <2>1. DOMAIN sigs = 1..2 /\ sigs[1] = first /\ sigs[2] = Sig(2, valid, form)
    BY <1>4
  <2>2. first.by = 1 /\ first.tag = Tag(1)
    BY DEF Sig
  <2> HIDE DEF first
  <2>3. sigs[1].by = 1 /\ sigs[1].tag = Tag(1) /\ sigs[2].by = 2 /\ sigs[2].tag = Tag(2)
    BY <1>1, <2>1, <2>2
  <2>4. \A i \in 1..2 : i = 1 \/ i = 2
    OBVIOUS
  <2>5. \A i \in 1..2 : \E id \in {1, 2} : sigs[i].by = id /\ sigs[i].tag = Tag(id)
    BY <2>3, <2>4
  <2> QED
    BY <2>1, <2>5
<1> QED
  BY <1>2, <1>3, <1>4 DEF Signatures

LEMMA AnswerKeeps ==
    ASSUME DenialInv, NEW q \in [name : Name, type : Type],
           NEW keys \in {<<>>, <<Key(1), Key(2)>>}, NEW ad \in BOOLEAN,
           NEW valid \in BOOLEAN, NEW form \in Form, NEW sigs \in Signatures(valid, form),
           Answer(q, sigs, keys, ad)
    PROVE  DenialInv'
<1> DEFINE proof == {Absence(n) : n \in {m \in {q.name} : Synthesised(m)}}
           r == [NoResponse EXCEPT !.answers = TRUE, !.sigs = sigs, !.keys = keys, !.ad = ad,
                    !.proof = proof]
           b == \A i \in DOMAIN sigs : sigs[i].valid
<1>1. /\ r.rcode = 0 /\ r.proof = proof /\ r.answers = TRUE /\ r.sigs = sigs /\ r.keys = keys
  BY DEF NoResponse
<1>2. Asked(q, r, b)
  BY DEF Answer
<1>3. response' = r
  BY <1>2 DEF Asked
<1>p. proof \subseteq Chain
  BY AbsencesAre DEF DenialInv
<1> HIDE DEF r, proof
<1>4. ASSUME b PROVE HonestAnswer'
  <2>1. /\ \E k \in Nat : DOMAIN sigs = 1..k
        /\ \A i \in DOMAIN sigs :
              \E id \in {1, 2} : sigs[i].by = id /\ sigs[i].tag = Tag(id)
    BY SignaturesAre
  <2>2. /\ response'.rcode = 0 /\ response'.answers /\ response'.sigs = sigs
        /\ response'.keys = keys
    BY <1>1, <1>3
  <2> QED
    BY <1>4, <2>1, <2>2 DEF HonestAnswer
<1>5. r.rcode \in {0, 2, 3} /\ r.proof \subseteq Chain
  BY <1>1, <1>p
<1> HIDE DEF b
<1> QED
  BY <1>2, <1>4, <1>5, AskedKeeps

LEMMA DenialStep ==
    DenialInv /\ [DenialNext]_denialVars => DenialInv'
<1> SUFFICES ASSUME DenialInv, [DenialNext]_denialVars PROVE DenialInv'
  OBVIOUS
<1>1. CASE UNCHANGED denialVars
  <2>1. /\ UNCHANGED <<zone, hash, nsec3, unhashed>> /\ question' = question /\ response' = response
        /\ honest' = honest
    BY <1>1 DEF denialVars
  <2>2. ZoneOK /\ question \in [name : Name, type : Type]
    BY DEF DenialInv
  <2>3. ZoneOK' /\ Chain' = Chain
    BY <2>1, <2>2, ZoneKept
  <2> DEFINE n == question.name
  <2>4. PICK c \in Name : c = question.name
    BY <2>2
  <2>5. /\ Exists(c)' = Exists(c) /\ ProofFor(c)' = ProofFor(c)
        /\ Synthesised(c)' = Synthesised(c) /\ Given(c)' = Given(c)
    BY <2>1, <2>2, ZoneKept
  <2>6. c = question'.name
    BY <2>1, <2>4
  <2>7. HonestDenial => HonestDenial'
    BY <2>1, <2>4, <2>5, <2>6 DEF HonestDenial
  <2>8. HonestAnswer => HonestAnswer'
    BY <2>1 DEF HonestAnswer
  <2>9. HonestDangling => HonestDangling'
    BY <2>1 DEF HonestDangling
  <2> QED
    BY <2>1, <2>3, <2>7, <2>8, <2>9 DEF DenialInv
<1>2. CASE DenialNext
  <2>1. PICK n \in Name, t \in Type :
          LET q == [name |-> n, type |-> t]
          IN  \/ Deny(q) \/ Fail(q) \/ \E target \in Name : Dangle(q, target)
              \/ \E rcode \in {0, 3}, proof \in Some(Chain) : Mistake(q, rcode, proof)
              \/ \E keys \in {<<>>, <<Key(1), Key(2)>>}, ad, valid \in BOOLEAN, form \in Form :
                    \E sigs \in Signatures(valid, form) : Answer(q, sigs, keys, ad)
    BY <1>2 DEF DenialNext, Signatures
  <2> DEFINE q == [name |-> n, type |-> t]
  <2>2. q \in [name : Name, type : Type]
    OBVIOUS
  <2> HIDE DEF q
  <2>3. CASE Deny(q)
    BY <2>2, <2>3, DenyKeeps
  <2>4. CASE Fail(q)
    BY <2>2, <2>4, FailKeeps
  <2>5. CASE \E rcode \in {0, 3}, proof \in Some(Chain) : Mistake(q, rcode, proof)
    BY <2>2, <2>5, MistakeKeeps
  <2>6. CASE \E keys \in {<<>>, <<Key(1), Key(2)>>}, ad, valid \in BOOLEAN, form \in Form :
                \E sigs \in Signatures(valid, form) : Answer(q, sigs, keys, ad)
    BY <2>2, <2>6, AnswerKeeps
  <2>7. CASE \E target \in Name : Dangle(q, target)
    BY <2>2, <2>7, DangleKeeps
  <2> QED
    BY <2>1, <2>3, <2>4, <2>5, <2>6, <2>7 DEF q
<1> QED
  BY <1>1, <1>2

---------------------------------------------------------------------------
(* The judgement.                                                          *)

LEMMA InvIsSound == DenialInv => DenialSound
<1> SUFFICES ASSUME DenialInv, Validate(question, response) = "denied" PROVE DenialSound
  BY DEF DenialSound
<1>1. response.rcode # 2 /\ Denies(question, response)
  <2>1. CASE response.rcode = 2
    BY <2>1 DEF Validate, Judged
  <2>2. CASE Judged(response) /\ response.proof # {}
    BY <2>2 DEF Validate, Judged
  <2> DEFINE other == response.rcode # 2 /\ ~(Judged(response) /\ response.proof # {})
  <2>3. CASE other /\ response.sigs # <<>>
    <3>1. Validate(question, response) = SignedVerdict(response)
      BY <2>3 DEF Validate
    <3>2. SignedVerdict(response) # "denied"
      BY DEF SignedVerdict
    <3> QED
      BY <3>1, <3>2
  <2>4. CASE other /\ response.sigs = <<>>
    <3>1. Validate(question, response) = IF response.ad THEN "secure" ELSE "insecure"
      BY <2>4 DEF Validate
    <3> QED
      BY <3>1
  <2> QED
    BY <2>1, <2>2, <2>3, <2>4
<1>2. /\ ZoneOK /\ question \in [name : Name, type : Type]
      /\ response.rcode \in {0, 3} /\ response.proof \subseteq Chain
  BY <1>1 DEF DenialInv
<1>3. /\ response.rcode = 3 => zone[question.name] = {}
      /\ response.rcode = 0 => /\ question.type \notin zone[question.name] /\ Exists(question.name)
                               /\ question.type # "CNAME" => "CNAME" \notin zone[question.name]
  BY <1>1, <1>2, ConvincedIsRight DEF HasData
<1>4. /\ Exists(question.name) => ~Synthesised(question.name)
      /\ ~Synthesised(question.name) => Given(question.name) = zone[question.name]
  BY DEF Synthesised, Given
<1> QED
  BY <1>3, <1>4 DEF DenialSound

\* With the keys beside it, a usual signature of the zone is good.
LEMMA HonestSigned ==
    ASSUME Collide = FALSE, HonestAnswer,
           response.keys = <<>> \/ \A i \in DOMAIN response.sigs : response.sigs[i].form = "usual"
    PROVE  SignedVerdict(response) = "secure"
<1> DEFINE ends == {i \in DOMAIN response.sigs :
                      ~response.sigs[i].valid \/ KeyFor(response.sigs[i], response) # {}}
           i0 == CHOOSE k \in ends : \A j \in ends : k <= j
<1>1. SignedVerdict(response) =
        IF ends = {} THEN "secure"
        ELSE IF ~response.sigs[i0].valid \/ Broken(response.sigs[i0], response)
             THEN "bogus" ELSE "secure"
  BY DEF SignedVerdict
<1>2. \A i \in DOMAIN response.sigs : ~Broken(response.sigs[i], response)
  <2> SUFFICES ASSUME NEW i \in DOMAIN response.sigs, Broken(response.sigs[i], response)
               PROVE  FALSE
    OBVIOUS
  <2>1. PICK k \in KeyFor(response.sigs[i], response) :
              ~Verified(response.sigs[i], response.keys[k])
    BY DEF Broken
  <2>2. k \in DOMAIN response.keys /\ response.keys[k].tag = response.sigs[i].tag
    BY <2>1 DEF KeyFor
  <2>3. response.keys = <<Key(1), Key(2)>>
    BY <2>2 DEF HonestAnswer
  <2>4. response.sigs[i].form = "usual"
    BY <2>2, <2>3
  <2>5. PICK id \in {1, 2} : response.sigs[i].by = id /\ response.sigs[i].tag = Tag(id)
    BY DEF HonestAnswer
  <2>6. Tag(id) = id
    BY DEF Tag
  <2>7. \A m \in {1, 2} : Key(m).id = m /\ Key(m).tag = m
    BY DEF Key, Tag
  <2>8. k \in {1, 2} /\ response.keys[k] = Key(k)
    BY <2>2, <2>3
  <2>9. k = id
    BY <2>2, <2>5, <2>6, <2>7, <2>8
  <2>10. response.sigs[i].by = response.keys[k].id
    BY <2>5, <2>7, <2>8, <2>9
  <2>11. Verified(response.sigs[i], response.keys[k])
    BY <2>4, <2>10 DEF Verified, Rebuilt
  <2> QED
    BY <2>1, <2>11
<1>3. \A i \in DOMAIN response.sigs : response.sigs[i].valid
  BY DEF HonestAnswer
<1>4. CASE ends # {}
  <2>1. ends \subseteq Nat
    BY DEF HonestAnswer
  <2>2. ends \subseteq DOMAIN response.sigs
    OBVIOUS
  <2> HIDE DEF ends
  <2>3. PICK i \in ends : \A j \in ends : ~(<<j, i>> \in OpToRel(<, Nat))
    BY <1>4, <2>1, WFMin, NatLessThanWellFounded
  <2>4. \A j \in ends : ~(j < i)
    BY <2>1, <2>3 DEF OpToRel
  <2>5. \A j \in ends : i <= j
    BY <2>1, <2>4
  <2>6. i0 \in ends
    BY <2>5
  <2> HIDE DEF i0
  <2> QED
    BY <1>1, <1>2, <1>3, <1>4, <2>2, <2>6
<1>5. CASE ends = {}
  BY <1>1, <1>5
<1> QED
  BY <1>4, <1>5

LEMMA InvIsBelieved == Collide = FALSE /\ DenialInv => HonestAccepted
<1> SUFFICES ASSUME Collide = FALSE, DenialInv, honest, ~Excepted
             PROVE  Validate(question, response) # "bogus"
  BY DEF HonestAccepted
<1>n. ZoneOK /\ question \in [name : Name, type : Type]
  BY DEF DenialInv
<1>1. CASE HonestDenial
  <2>1. /\ ~response.answers
        /\ response.rcode = (IF Exists(question.name) \/ Synthesised(question.name) THEN 0 ELSE 3)
        /\ response.proof = ProofFor(question.name)
        /\ question.type \notin Given(question.name) /\ "CNAME" \notin Given(question.name)
    BY <1>1 DEF HonestDenial
  <2>2. response.proof # {}
    BY <1>n, <2>1, ProofIsOfZone
  <2>3. Judged(response)
    BY <2>1 DEF Judged
  <2>4. /\ nsec3 \/ (Owner # {Apex} /\ (Exists(question.name) => HasData(question.name)))
        /\ ~unhashed /\ ~Synthesised(question.name)
    BY <2>1, <2>3 DEF Excepted
  <2>5. Given(question.name) = zone[question.name]
    BY <2>4 DEF Given
  <2>6. Denies(question, response)
    BY <1>n, <2>1, <2>4, <2>5, ProofConvinces
  <2>7. response.rcode # 2
    BY <2>1
  <2> QED
    BY <2>2, <2>3, <2>6, <2>7 DEF Validate
<1>3. CASE HonestDangling
  BY <1>3 DEF HonestDangling, Excepted
<1>2. CASE HonestAnswer
  <2>1. ~Judged(response) /\ response.rcode # 2
    BY <1>2 DEF HonestAnswer, Judged
  <2>2. CASE response.sigs # <<>>
    <3>1. Validate(question, response) = SignedVerdict(response)
      BY <2>1, <2>2 DEF Validate
    <3>2. response.keys = <<>> \/ \A i \in DOMAIN response.sigs : response.sigs[i].form = "usual"
      BY DEF Excepted
    <3>3. SignedVerdict(response) = "secure"
      BY <1>2, <3>2, HonestSigned
    <3> QED
      BY <3>1, <3>3
  <2>3. CASE response.sigs = <<>>
    <3>1. Validate(question, response) = IF response.ad THEN "secure" ELSE "insecure"
      BY <2>1, <2>3 DEF Validate
    <3> QED
      BY <3>1
  <2> QED
    BY <2>2, <2>3
<1> QED
  BY <1>1, <1>2, <1>3 DEF DenialInv

\* In every signed zone without delegations, of any names, wildcards among them, and with any
\* hashes, no set of its NSEC or NSEC3 records makes validate_dnssec (dnssec.rs:1500-1601) take
\* for absent what a name of the zone has itself, even when two of its keys share a tag.  What
\* a wildcard gives a name is excepted for NXDOMAIN: a name that is covered is taken for missing
\* (1292, 1360).  It is not for NODATA.
THEOREM DenialsSound == DenialSpec => []DenialSound
<1>1. DenialInit => DenialInv
  BY DenialInitInv
<1>2. DenialInv /\ [DenialNext]_denialVars => DenialInv'
  BY DenialStep
<1>3. DenialInv => DenialSound
  BY InvIsSound
<1> QED
  BY <1>1, <1>2, <1>3, PTL DEF DenialSpec

LEMMA DenialTyping == DenialInv => DenialTypeOK
<1> SUFFICES ASSUME DenialInv PROVE DenialTypeOK
  OBVIOUS
<1>1. response.rcode \in {0, 2, 3} /\ response.proof \subseteq Chain
  BY DEF DenialInv
<1>2. SignedVerdict(response) \in {"secure", "bogus"}
  BY DEF SignedVerdict
<1>3. Validate(question, response) \in {"bogus", "denied", "secure", "insecure"}
  BY <1>2 DEF Validate
<1> QED
  BY <1>1, <1>3 DEF DenialTypeOK

\* Whatever the zone's server, a wrong one or none replies, validate_dnssec comes to one of its
\* four judgements, and a denial consists of records of the zone.
THEOREM DenialTypeCorrect == DenialSpec => []DenialTypeOK
<1> QED
  BY DenialTyping, DenialInitInv, DenialStep, PTL DEF DenialSpec

\* If the zone's keys have different tags, what its own server replies is also never
\* judged bogus, but for the replies that Excepted names (dnssec.rs:1500-1663): denials of a
\* zone whose hash is refused, aliases to missing names, wildcards without the type, the two
\* cases of NSEC, and peculiar signatures.
THEOREM DenialsAreJudged == Collide = FALSE => (DenialSpec => []DenialsJudged)
<1> SUFFICES ASSUME Collide = FALSE PROVE DenialSpec => []DenialsJudged
  OBVIOUS
<1>1. DenialInit => DenialInv
  BY DenialInitInv
<1>2. DenialInv /\ [DenialNext]_denialVars => DenialInv'
  BY DenialStep
<1>3. DenialInv => DenialsJudged
  BY InvIsSound, InvIsBelieved DEF DenialsJudged
<1> QED
  BY <1>1, <1>2, <1>3, PTL DEF DenialSpec

---------------------------------------------------------------------------
(* Induction and recursion over the natural numbers, of sets.              *)

LEMMA Induct ==
    ASSUME NEW S, 0 \in S, \A n \in Nat : n \in S => n + 1 \in S
    PROVE  \A n \in Nat : n \in S
<1> SUFFICES ASSUME NEW n \in Nat, n \notin S PROVE FALSE
  OBVIOUS
<1> DEFINE T == {m \in Nat : m \notin S}
<1>1. T \subseteq Nat /\ T # {}
  OBVIOUS
<1>2. PICK x \in T : \A y \in T : ~(<<y, x>> \in OpToRel(<, Nat))
  <2> HIDE DEF T
  <2> QED
    BY <1>1, WFMin, NatLessThanWellFounded
<1>3. \A y \in T : ~(y < x)
  BY <1>1, <1>2 DEF OpToRel
<1>4. x \in Nat /\ x # 0 /\ x \notin S
  OBVIOUS
<1>5. x - 1 \in Nat /\ x - 1 < x /\ x - 1 + 1 = x
  BY <1>4
<1>6. x - 1 \in S
  BY <1>3, <1>5
<1> QED
  BY <1>4, <1>5, <1>6

\* f is what comes of base in n turns of the functions in step.
Turns(S, n) == [1..n -> [S -> S]]
ComesOf(f, S, base, n, step) ==
    f \in [0..n -> S] /\ f[0] = base /\ \A i \in 1..n : f[i] = step[i][f[i - 1]]

LEMMA Recursion ==
    ASSUME NEW S, NEW base \in S, NEW n \in Nat, NEW step \in Turns(S, n)
    PROVE  \E f : ComesOf(f, S, base, n, step)
<1> DEFINE Upto(f, m) == f \in [0..m -> S] /\ f[0] = base
                         /\ \A i \in 1..m : f[i] = step[i][f[i - 1]]
           Reached == {m \in Nat : m <= n => \E f : Upto(f, m)}
<1>0. step \in [1..n -> [S -> S]]
  BY DEF Turns
<1>1. 0 \in Reached
  <2>1. Upto([i \in 0..0 |-> base], 0)
    OBVIOUS
  <2> HIDE DEF Upto
  <2> QED
    BY <2>1
<1>2. ASSUME NEW m \in Nat, m \in Reached PROVE m + 1 \in Reached
  <2> SUFFICES ASSUME m + 1 <= n PROVE \E f : Upto(f, m + 1)
    OBVIOUS
  <2>1. PICK f : Upto(f, m)
    BY <1>2
  <2>2. m + 1 \in 1..n /\ m \in 0..m /\ m + 1 \notin 0..m /\ 0 \in 0..m
    OBVIOUS
  <2>3. step[m + 1][f[m]] \in S
    BY <1>0, <2>1, <2>2
  <2> DEFINE g == [i \in 0..(m + 1) |-> IF i <= m THEN f[i] ELSE step[m + 1][f[m]]]
  <2>4. g \in [0..(m + 1) -> S]
    <3>1. \A i \in 0..(m + 1) : i <= m => i \in 0..m
      OBVIOUS
    <3> QED
      BY <2>1, <2>3, <3>1
  <2>5. g[0] = base
    BY <2>1
  <2>6. ASSUME NEW i \in 1..(m + 1) PROVE g[i] = step[i][g[i - 1]]
    <3>1. CASE i <= m
      <4>1. i \in 1..m /\ i - 1 <= m /\ i - 1 \in 0..(m + 1) /\ i \in 0..(m + 1)
        BY <3>1
      <4> QED
        BY <2>1, <3>1, <4>1
    <3>2. CASE i = m + 1
      <4>1. g[m + 1] = step[m + 1][f[m]] /\ g[m] = f[m] /\ i - 1 = m
        BY <3>2
      <4> QED
        BY <3>2, <4>1
    <3> QED
      BY <3>1, <3>2
  <2>7. Upto(g, m + 1)
    BY <2>4, <2>5, <2>6
  <2> QED
    BY <2>7
<1>3. \A m \in Nat : m \in Reached
  <2> HIDE DEF Reached
  <2> QED
    BY <1>1, <1>2, Induct
<1>4. n \in Nat /\ n <= n
  OBVIOUS
<1>5. \E f : Upto(f, n)
  <2> HIDE DEF Upto
  <2> QED
    BY <1>3, <1>4
<1> QED
  BY <1>5 DEF ComesOf

\* What satisfies a recursion keeps its type.
Obeys(g, S, base, n, step) ==
    /\ g = [i \in 0..n |-> g[i]] /\ g[0] = base
    /\ \A i \in 1..n : g[i - 1] \in S => g[i] = step[i][g[i - 1]]
LEMMA RecursionTyped ==
    ASSUME NEW S, NEW base \in S, NEW n \in Nat, NEW step \in Turns(S, n),
           NEW g, Obeys(g, S, base, n, step)
    PROVE  ComesOf(g, S, base, n, step)
<1>0. /\ step \in [1..n -> [S -> S]] /\ g = [i \in 0..n |-> g[i]] /\ g[0] = base
      /\ \A i \in 1..n : g[i - 1] \in S => g[i] = step[i][g[i - 1]]
  BY DEF Turns, Obeys
<1>r. \A i \in 1..n : g[i - 1] \in S => g[i] = step[i][g[i - 1]]
  BY <1>0
<1> DEFINE T == {i \in Nat : i <= n => g[i] \in S}
<1>1. 0 \in T
  BY <1>0
<1>2. ASSUME NEW i \in Nat, i \in T PROVE i + 1 \in T
  <2> SUFFICES ASSUME i + 1 <= n PROVE g[i + 1] \in S
    OBVIOUS
  <2>1. i + 1 \in 1..n /\ i + 1 - 1 = i /\ g[i] \in S
    BY <1>2
  <2>2. g[i + 1] = step[i + 1][g[i]]
    <3>1. g[i + 1 - 1] \in S => g[i + 1] = step[i + 1][g[i + 1 - 1]]
      BY <1>r, <2>1
    <3> QED
      BY <2>1, <3>1
  <2>3. step[i + 1] \in [S -> S]
    BY <1>0, <2>1
  <2> QED
    BY <2>1, <2>2, <2>3
<1>3. \A i \in Nat : i \in T
  <2> HIDE DEF T
  <2> QED
    BY <1>1, <1>2, Induct
<1>4. \A i \in 0..n : g[i] \in S
  BY <1>3
<1>5. g \in [0..n -> S]
  BY <1>0, <1>4
<1>6. \A i \in 1..n : i - 1 \in 0..n
  OBVIOUS
<1> QED
  BY <1>0, <1>4, <1>5, <1>6 DEF ComesOf

---------------------------------------------------------------------------
(* The octets of a name.                                                   *)

Wording == Seq(Seq(Octet))

LEMMA WordingIs ==
    ASSUME NEW n \in Wording
    PROVE  /\ Len(n) \in Nat /\ DOMAIN n = 1..Len(n)
           /\ \A k \in 1..Len(n) : n[k] \in Seq(Octet) /\ Len(n[k]) \in Nat
BY DEF Wording

LEMMA SizesIs ==
    ASSUME NEW n \in Wording
    PROVE  /\ Sizes(n) \in [0..Len(n) -> Nat] /\ Sizes(n)[0] = 0
           /\ \A k \in 1..Len(n) : Sizes(n)[k] = Sizes(n)[k - 1] + Len(n[k]) + 1
<1> DEFINE m == Len(n)
           Go(x, k) == x + Len(n[k]) + 1
           P(f) == f = [k \in 0..m |-> IF k = 0 THEN 0 ELSE Go(f[k - 1], k)]
<1>0. m \in Nat
  BY WordingIs
<1>1. ASSUME NEW k \in 1..m, NEW x \in Nat PROVE Go(x, k) \in Nat
  <2>1. Len(n[k]) \in Nat
    BY WordingIs
  <2> QED
    BY <2>1
<1>2. 0 \in Nat
  OBVIOUS
<1>3. Sizes(n) = CHOOSE f : P(f)
  BY DEF Sizes
<1>4. \A k \in 1..m : Go(Sizes(n)[k - 1], k) = Sizes(n)[k - 1] + Len(n[k]) + 1
  OBVIOUS
<1> HIDE DEF m, Go
<1> DEFINE turn(k) == [x \in Nat |-> Go(x, k)]
           step == [k \in 1..m |-> turn(k)]
<1>5. step \in Turns(Nat, m)
  <2>1. \A k \in 1..m : turn(k) \in [Nat -> Nat]
    BY <1>1
  <2> HIDE DEF turn
  <2> QED
    BY <2>1 DEF Turns
<1>6. \A k \in 1..m : \A x \in Nat : step[k][x] = Go(x, k)
  OBVIOUS
<1> HIDE DEF turn, step
<1>7. PICK f : ComesOf(f, Nat, 0, m, step)
  BY <1>0, <1>2, <1>5, Recursion
<1>8. P(f)
  <2>1. f \in [0..m -> Nat] /\ f[0] = 0 /\ \A k \in 1..m : f[k] = step[k][f[k - 1]]
    BY <1>7 DEF ComesOf
  <2>2. \A k \in 1..m : k - 1 \in 0..m /\ f[k - 1] \in Nat
    BY <1>0, <2>1
  <2>3. \A k \in 1..m : f[k] = Go(f[k - 1], k)
    BY <1>6, <2>1, <2>2
  <2>4. \A k \in 0..m : k # 0 => k \in 1..m
    BY <1>0
  <2> QED
    BY <2>1, <2>3, <2>4
<1>9. P(Sizes(n))
  <2> HIDE DEF P
  <2> QED
    BY <1>3, <1>8
<1> DEFINE g == Sizes(n)
<1>10. Obeys(g, Nat, 0, m, step)
  <2> HIDE DEF g
  <2>1. P(g)
    BY <1>9 DEF g
  <2>2. \A k \in 1..m : k \in 0..m /\ k # 0
    BY <1>0
  <2>3. \A k \in 1..m : g[k] = Go(g[k - 1], k)
    BY <2>1, <2>2
  <2>4. g[0] = 0 /\ g = [k \in 0..m |-> g[k]]
    BY <1>0, <2>1
  <2> QED
    BY <1>6, <2>3, <2>4 DEF Obeys
<1> HIDE DEF g, P
<1>11. ComesOf(g, Nat, 0, m, step)
  BY <1>0, <1>2, <1>5, <1>10, RecursionTyped
<1>12. g \in [0..m -> Nat] /\ g[0] = 0 /\ \A k \in 1..m : g[k] = step[k][g[k - 1]]
  BY <1>11 DEF ComesOf
<1>13. \A k \in 1..m : k - 1 \in 0..m /\ g[k - 1] \in Nat
  BY <1>0, <1>12
<1>14. \A k \in 1..m : g[k] = Go(g[k - 1], k)
  BY <1>6, <1>12, <1>13
<1> QED
  BY <1>4, <1>12, <1>14 DEF g, m

\* More labels take more octets.
LEMMA SizesRise ==
    ASSUME NEW n \in Wording, NEW k \in 0..Len(n)
    PROVE  Sizes(n)[k] <= Sizes(n)[Len(n)]
<1>n. Len(n) \in Nat /\ \A i \in 1..Len(n) : Len(n[i]) \in Nat
  BY DEF Wording
<1> DEFINE T == {i \in Nat : k + i <= Len(n) => Sizes(n)[k] <= Sizes(n)[k + i]}
<1>1. 0 \in T
  BY SizesIs, <1>n
<1>2. ASSUME NEW i \in Nat, i \in T PROVE i + 1 \in T
  <2> SUFFICES ASSUME k + (i + 1) <= Len(n) PROVE Sizes(n)[k] <= Sizes(n)[k + (i + 1)]
    OBVIOUS
  <2>1. k + (i + 1) \in 1..Len(n) /\ k + (i + 1) - 1 = k + i /\ k + i \in 0..Len(n)
    BY <1>n
  <2>2. Sizes(n)[k + (i + 1)] = Sizes(n)[k + i] + Len(n[k + (i + 1)]) + 1
    BY <2>1, SizesIs
  <2>3. Sizes(n)[k] \in Nat /\ Sizes(n)[k + i] \in Nat /\ Len(n[k + (i + 1)]) \in Nat
    BY <1>n, <2>1, SizesIs
  <2>4. Sizes(n)[k] <= Sizes(n)[k + i]
    BY <1>2, <2>1
  <2> QED
    BY <2>2, <2>3, <2>4
<1>3. \A i \in Nat : i \in T
  <2> HIDE DEF T
  <2> QED
    BY <1>1, <1>2, Induct
<1>4. Len(n) - k \in Nat /\ k + (Len(n) - k) = Len(n)
  BY <1>n
<1>5. Len(n) - k \in T
  BY <1>3, <1>4
<1>6. Sizes(n)[k] <= Sizes(n)[k + (Len(n) - k)]
  BY <1>4, <1>5
<1> QED
  BY <1>4, <1>6

\* What is left of a name once k labels are gone takes the octets that those did not.
LEMMA SizesOfEnding ==
    ASSUME NEW n \in Wording, NEW k \in 0..Len(n)
    PROVE  /\ Ending(n, k) \in Wording /\ Len(Ending(n, k)) = Len(n) - k
           /\ \A i \in 1..(Len(n) - k) : Ending(n, k)[i] = n[k + i]
           /\ \A i \in 0..(Len(n) - k) : Sizes(n)[k + i] = Sizes(n)[k] + Sizes(Ending(n, k))[i]
<1>n. Len(n) \in Nat /\ \A i \in 1..Len(n) : n[i] \in Seq(Octet) /\ Len(n[i]) \in Nat
  BY DEF Wording
<1> DEFINE e == Ending(n, k)
<1>1. /\ e \in Wording /\ Len(e) = Len(n) - k
      /\ \A i \in 1..(Len(n) - k) : e[i] = n[k + i]
  <2>1. /\ SubSeq(n, k + 1, Len(n)) \in Seq(Seq(Octet))
        /\ Len(SubSeq(n, k + 1, Len(n))) = IF k + 1 <= Len(n) THEN Len(n) - (k + 1) + 1 ELSE 0
        /\ \A i \in 1..(Len(n) - (k + 1) + 1) : SubSeq(n, k + 1, Len(n))[i] = n[k + 1 + i - 1]
    BY <1>n, SubSeqProperties DEF Wording
  <2>2. \A i \in 1..(Len(n) - k) : k + 1 + i - 1 = k + i
    OBVIOUS
  <2> QED
    BY <1>n, <2>1, <2>2 DEF Ending, Wording
<1> HIDE DEF e
<1>s. /\ Sizes(e) \in [0..Len(e) -> Nat] /\ Sizes(e)[0] = 0 /\ Sizes(n) \in [0..Len(n) -> Nat]
      /\ \A i \in 1..Len(e) : Sizes(e)[i] = Sizes(e)[i - 1] + Len(e[i]) + 1
  BY <1>1, SizesIs
<1> DEFINE T == {i \in Nat : i <= Len(e) => Sizes(n)[k + i] = Sizes(n)[k] + Sizes(e)[i]}
<1>2. 0 \in T
  <2>1. Sizes(n)[k] \in Nat /\ Sizes(e)[0] = 0
    BY <1>1, SizesIs, <1>n
  <2> QED
    BY <2>1
<1>3. ASSUME NEW i \in Nat, i \in T PROVE i + 1 \in T
  <2> SUFFICES ASSUME i + 1 <= Len(e) PROVE Sizes(n)[k + (i + 1)] = Sizes(n)[k] + Sizes(e)[i + 1]
    OBVIOUS
  <2>1. /\ k + (i + 1) \in 1..Len(n) /\ k + (i + 1) - 1 = k + i /\ k + i \in 0..Len(n)
        /\ i + 1 \in 1..Len(e) /\ i + 1 - 1 = i /\ i \in 0..Len(e)
    BY <1>n, <1>1
  <2>2. Sizes(n)[k + (i + 1)] = Sizes(n)[k + i] + Len(n[k + (i + 1)]) + 1
    BY <2>1, SizesIs
  <2>3. Sizes(e)[i + 1] = Sizes(e)[i] + Len(e[i + 1]) + 1
    BY <1>s, <2>1
  <2>4. e[i + 1] = n[k + (i + 1)] /\ Len(n[k + (i + 1)]) \in Nat
    BY <1>n, <1>1, <2>1
  <2>5. Sizes(n)[k] \in Nat /\ Sizes(e)[i] \in Nat /\ Sizes(n)[k + i] = Sizes(n)[k] + Sizes(e)[i]
    BY <1>s, <1>3, <2>1
  <2> QED
    BY <2>2, <2>3, <2>4, <2>5
<1>4. \A i \in Nat : i \in T
  <2> HIDE DEF T
  <2> QED
    BY <1>2, <1>3, Induct
<1> QED
  BY <1>n, <1>1, <1>4 DEF e

---------------------------------------------------------------------------
(* The text of labels and names, and what is made of it.                   *)

Char == Octet \cup {"\\", "."}

LEMMA EscapedIs ==
    ASSUME NEW o \in Octet
    PROVE  Escaped(o) \in Seq(Char) /\ Len(Escaped(o)) \in {1, 2, 4}
<1>1. /\ <<"\\", ".">> \in Seq(Char) /\ <<"\\", "\\">> \in Seq(Char) /\ <<"letter">> \in Seq(Char)
      /\ <<"\\", "digit", "digit", "digit">> \in Seq(Char) /\ <<o>> \in Seq(Char)
  BY DEF Char, Octet
<1>2. Escaped(o) \in {<<"\\", ".">>, <<"\\", "\\">>, <<"letter">>, <<"\\", "digit", "digit", "digit">>, <<o>>}
  BY DEF Escaped, Octet
<1> QED
  BY <1>1, <1>2

LEMMA PresentingIs ==
    ASSUME NEW l \in Seq(Octet)
    PROVE  /\ Presenting(l) \in [0..Len(l) -> Seq(Char)] /\ Presenting(l)[0] = <<>>
           /\ \A i \in 1..Len(l) : Presenting(l)[i] = Presenting(l)[i - 1] \o Escaped(l[i])
<1> DEFINE m == Len(l)
           Go(x, i) == x \o Escaped(l[i])
           P(f) == f = [i \in 0..m |-> IF i = 0 THEN <<>> ELSE Go(f[i - 1], i)]
<1>0. m \in Nat
  OBVIOUS
<1>1. ASSUME NEW i \in 1..m, NEW x \in Seq(Char) PROVE Go(x, i) \in Seq(Char)
  <2>1. l[i] \in Octet
    OBVIOUS
  <2>2. Escaped(l[i]) \in Seq(Char)
    BY <2>1, EscapedIs
  <2> QED
    BY <2>2
<1>2. <<>> \in Seq(Char)
  OBVIOUS
<1>3. Presenting(l) = CHOOSE f : P(f)
  BY DEF Presenting
<1>4. \A i \in 1..m : Go(Presenting(l)[i - 1], i) = Presenting(l)[i - 1] \o Escaped(l[i])
  OBVIOUS
<1> HIDE DEF m, Go
<1> DEFINE turn(i) == [x \in Seq(Char) |-> Go(x, i)]
           step == [i \in 1..m |-> turn(i)]
<1>5. step \in Turns(Seq(Char), m)
  <2>1. \A i \in 1..m : turn(i) \in [Seq(Char) -> Seq(Char)]
    BY <1>1
  <2> HIDE DEF turn
  <2> QED
    BY <2>1 DEF Turns
<1>6. \A i \in 1..m : \A x \in Seq(Char) : step[i][x] = Go(x, i)
  OBVIOUS
<1> HIDE DEF turn, step
<1>7. PICK f : ComesOf(f, Seq(Char), <<>>, m, step)
  BY <1>0, <1>2, <1>5, Recursion
<1>8. P(f)
  <2>1. f \in [0..m -> Seq(Char)] /\ f[0] = <<>> /\ \A i \in 1..m : f[i] = step[i][f[i - 1]]
    BY <1>7 DEF ComesOf
  <2>2. \A i \in 1..m : i - 1 \in 0..m /\ f[i - 1] \in Seq(Char)
    BY <1>0, <2>1
  <2>3. \A i \in 1..m : f[i] = Go(f[i - 1], i)
    BY <1>6, <2>1, <2>2
  <2>4. \A i \in 0..m : i # 0 => i \in 1..m
    BY <1>0
  <2> QED
    BY <2>1, <2>3, <2>4
<1>9. P(Presenting(l))
  <2> HIDE DEF P
  <2> QED
    BY <1>3, <1>8
<1> DEFINE g == Presenting(l)
<1>10. Obeys(g, Seq(Char), <<>>, m, step)
  <2> HIDE DEF g
  <2>1. P(g)
    BY <1>9 DEF g
  <2>2. \A i \in 1..m : i \in 0..m /\ i # 0
    BY <1>0
  <2>3. \A i \in 1..m : g[i] = Go(g[i - 1], i)
    BY <2>1, <2>2
  <2>4. g[0] = <<>> /\ g = [i \in 0..m |-> g[i]]
    BY <1>0, <2>1
  <2> QED
    BY <1>6, <2>3, <2>4 DEF Obeys
<1> HIDE DEF g, P
<1>11. ComesOf(g, Seq(Char), <<>>, m, step)
  BY <1>0, <1>2, <1>5, <1>10, RecursionTyped
<1>12. g \in [0..m -> Seq(Char)] /\ g[0] = <<>> /\ \A i \in 1..m : g[i] = step[i][g[i - 1]]
  BY <1>11 DEF ComesOf
<1>13. \A i \in 1..m : i - 1 \in 0..m /\ g[i - 1] \in Seq(Char)
  BY <1>0, <1>12
<1>14. \A i \in 1..m : g[i] = Go(g[i - 1], i)
  BY <1>6, <1>12, <1>13
<1> QED
  BY <1>4, <1>12, <1>14 DEF g, m

LEMMA PresentedTyped == ASSUME NEW l \in Seq(Octet) PROVE Presented(l) \in Seq(Char)
<1>1. Len(l) \in 0..Len(l)
  OBVIOUS
<1> QED
  BY <1>1, PresentingIs DEF Presented

LEMMA JoinedTyped ==
    ASSUME NEW text \in Seq(Char), NEW l \in Seq(Octet)
    PROVE  Joined(text, l) \in Seq(Char)
<1>1. Presented(l) \in Seq(Char) /\ <<".">> \in Seq(Char)
  BY PresentedTyped DEF Char
<1>2. text \o <<".">> \o Presented(l) \in Seq(Char)
  BY <1>1
<1> QED
  BY <1>1, <1>2 DEF Joined

LEMMA TextsIs ==
    ASSUME NEW n \in Wording
    PROVE  /\ Texts(n) \in [0..Len(n) -> Seq(Char)] /\ Texts(n)[0] = <<>>
           /\ \A k \in 1..Len(n) : Texts(n)[k] = Joined(Texts(n)[k - 1], n[k])
<1> DEFINE m == Len(n)
           Go(x, k) == Joined(x, n[k])
           P(f) == f = [k \in 0..m |-> IF k = 0 THEN <<>> ELSE Go(f[k - 1], k)]
<1>0. m \in Nat
  BY WordingIs
<1>1. ASSUME NEW k \in 1..m, NEW x \in Seq(Char) PROVE Go(x, k) \in Seq(Char)
  <2>1. n[k] \in Seq(Octet)
    BY WordingIs
  <2> QED
    BY <2>1, JoinedTyped
<1>2. <<>> \in Seq(Char)
  OBVIOUS
<1>3. Texts(n) = CHOOSE f : P(f)
  BY DEF Texts
<1>4. \A k \in 1..m : Go(Texts(n)[k - 1], k) = Joined(Texts(n)[k - 1], n[k])
  OBVIOUS
<1> HIDE DEF m, Go
<1> DEFINE turn(k) == [x \in Seq(Char) |-> Go(x, k)]
           step == [k \in 1..m |-> turn(k)]
<1>5. step \in Turns(Seq(Char), m)
  <2>1. \A k \in 1..m : turn(k) \in [Seq(Char) -> Seq(Char)]
    BY <1>1
  <2> HIDE DEF turn
  <2> QED
    BY <2>1 DEF Turns
<1>6. \A k \in 1..m : \A x \in Seq(Char) : step[k][x] = Go(x, k)
  OBVIOUS
<1> HIDE DEF turn, step
<1>7. PICK f : ComesOf(f, Seq(Char), <<>>, m, step)
  BY <1>0, <1>2, <1>5, Recursion
<1>8. P(f)
  <2>1. f \in [0..m -> Seq(Char)] /\ f[0] = <<>> /\ \A k \in 1..m : f[k] = step[k][f[k - 1]]
    BY <1>7 DEF ComesOf
  <2>2. \A k \in 1..m : k - 1 \in 0..m /\ f[k - 1] \in Seq(Char)
    BY <1>0, <2>1
  <2>3. \A k \in 1..m : f[k] = Go(f[k - 1], k)
    BY <1>6, <2>1, <2>2
  <2>4. \A k \in 0..m : k # 0 => k \in 1..m
    BY <1>0
  <2> QED
    BY <2>1, <2>3, <2>4
<1>9. P(Texts(n))
  <2> HIDE DEF P
  <2> QED
    BY <1>3, <1>8
<1> DEFINE g == Texts(n)
<1>10. Obeys(g, Seq(Char), <<>>, m, step)
  <2> HIDE DEF g
  <2>1. P(g)
    BY <1>9 DEF g
  <2>2. \A k \in 1..m : k \in 0..m /\ k # 0
    BY <1>0
  <2>3. \A k \in 1..m : g[k] = Go(g[k - 1], k)
    BY <2>1, <2>2
  <2>4. g[0] = <<>> /\ g = [k \in 0..m |-> g[k]]
    BY <1>0, <2>1
  <2> QED
    BY <1>6, <2>3, <2>4 DEF Obeys
<1> HIDE DEF g, P
<1>11. ComesOf(g, Seq(Char), <<>>, m, step)
  BY <1>0, <1>2, <1>5, <1>10, RecursionTyped
<1>12. g \in [0..m -> Seq(Char)] /\ g[0] = <<>> /\ \A k \in 1..m : g[k] = step[k][g[k - 1]]
  BY <1>11 DEF ComesOf
<1>13. \A k \in 1..m : k - 1 \in 0..m /\ g[k - 1] \in Seq(Char)
  BY <1>0, <1>12
<1>14. \A k \in 1..m : g[k] = Go(g[k - 1], k)
  BY <1>6, <1>12, <1>13
<1> QED
  BY <1>4, <1>12, <1>14 DEF g, m

Split == [labels : Seq(Seq(Char)), current : Seq(Char), escaped : BOOLEAN]

LEMMA SplitTyped ==
    ASSUME NEW s \in Split, NEW ch \in Char
    PROVE  Closed(s) \in Seq(Seq(Char)) /\ SplitAt(s, ch) \in Split
<1>1. s.labels \in Seq(Seq(Char)) /\ s.current \in Seq(Char) /\ s.escaped \in BOOLEAN
  BY DEF Split
<1>2. Append(s.labels, s.current) \in Seq(Seq(Char)) /\ Append(s.current, ch) \in Seq(Char)
  BY <1>1
<1>3. Closed(s) \in Seq(Seq(Char))
  BY <1>1, <1>2 DEF Closed
<1> QED
  BY <1>1, <1>2, <1>3 DEF SplitAt, Split

LEMMA SplittingIs ==
    ASSUME NEW text \in Seq(Char)
    PROVE  /\ Splitting(text) \in [0..Len(text) -> Split] /\ Splitting(text)[0] = NothingSplit
           /\ \A i \in 1..Len(text) : Splitting(text)[i] = SplitAt(Splitting(text)[i - 1], text[i])
<1> DEFINE m == Len(text)
           Go(x, i) == SplitAt(x, text[i])
           P(f) == f = [i \in 0..m |-> IF i = 0 THEN NothingSplit ELSE Go(f[i - 1], i)]
<1>0. m \in Nat
  OBVIOUS
<1>1. ASSUME NEW i \in 1..m, NEW x \in Split PROVE Go(x, i) \in Split
  BY SplitTyped
<1>2. NothingSplit \in Split
  BY DEF NothingSplit, Split
<1>3. Splitting(text) = CHOOSE f : P(f)
  BY DEF Splitting
<1>4. \A i \in 1..m : Go(Splitting(text)[i - 1], i) = SplitAt(Splitting(text)[i - 1], text[i])
  OBVIOUS
<1> HIDE DEF m, Go
<1> DEFINE turn(i) == [x \in Split |-> Go(x, i)]
           step == [i \in 1..m |-> turn(i)]
<1>5. step \in Turns(Split, m)
  <2>1. \A i \in 1..m : turn(i) \in [Split -> Split]
    BY <1>1
  <2> HIDE DEF turn
  <2> QED
    BY <2>1 DEF Turns
<1>6. \A i \in 1..m : \A x \in Split : step[i][x] = Go(x, i)
  OBVIOUS
<1> HIDE DEF turn, step
<1>7. PICK f : ComesOf(f, Split, NothingSplit, m, step)
  BY <1>0, <1>2, <1>5, Recursion
<1>8. P(f)
  <2>1. f \in [0..m -> Split] /\ f[0] = NothingSplit /\ \A i \in 1..m : f[i] = step[i][f[i - 1]]
    BY <1>7 DEF ComesOf
  <2>2. \A i \in 1..m : i - 1 \in 0..m /\ f[i - 1] \in Split
    BY <1>0, <2>1
  <2>3. \A i \in 1..m : f[i] = Go(f[i - 1], i)
    BY <1>6, <2>1, <2>2
  <2>4. \A i \in 0..m : i # 0 => i \in 1..m
    BY <1>0
  <2> QED
    BY <2>1, <2>3, <2>4
<1>9. P(Splitting(text))
  <2> HIDE DEF P
  <2> QED
    BY <1>3, <1>8
<1> DEFINE g == Splitting(text)
<1>10. Obeys(g, Split, NothingSplit, m, step)
  <2> HIDE DEF g
  <2>1. P(g)
    BY <1>9 DEF g
  <2>2. \A i \in 1..m : i \in 0..m /\ i # 0
    BY <1>0
  <2>3. \A i \in 1..m : g[i] = Go(g[i - 1], i)
    BY <2>1, <2>2
  <2>4. g[0] = NothingSplit /\ g = [i \in 0..m |-> g[i]]
    BY <1>0, <2>1
  <2> QED
    BY <1>6, <2>3, <2>4 DEF Obeys
<1> HIDE DEF g, P
<1>11. ComesOf(g, Split, NothingSplit, m, step)
  BY <1>0, <1>2, <1>5, <1>10, RecursionTyped
<1>12. g \in [0..m -> Split] /\ g[0] = NothingSplit /\ \A i \in 1..m : g[i] = step[i][g[i - 1]]
  BY <1>11 DEF ComesOf
<1>13. \A i \in 1..m : i - 1 \in 0..m /\ g[i - 1] \in Split
  BY <1>0, <1>12
<1>14. \A i \in 1..m : g[i] = Go(g[i - 1], i)
  BY <1>6, <1>12, <1>13
<1> QED
  BY <1>4, <1>12, <1>14 DEF g, m

Turned == [at : Nat \ {0}, octets : Seq(Char)]

LEMMA UnescapeTyped ==
    ASSUME NEW l \in Seq(Char), NEW s \in Turned
    PROVE  Unescape(l, s) \in Turned
<1> DEFINE here == s.at
           Take(some, octet) == [at |-> here + some, octets |-> Append(s.octets, octet)]
           other == CASE l[here + 1] = "." -> "dot" [] l[here + 1] = "\\" -> "backslash"
                      [] OTHER -> l[here + 1]
<1>1. here \in Nat \ {0} /\ s.octets \in Seq(Char) /\ Len(l) \in Nat
  BY DEF Turned
<1>2. ASSUME NEW some \in Nat, NEW o \in Char PROVE Take(some, o) \in Turned
  <2>1. Append(s.octets, o) \in Seq(Char) /\ here + some \in Nat \ {0}
    BY <1>1
  <2> QED
    BY <2>1 DEF Turned
<1>3. "control" \in Char /\ "dot" \in Char /\ "backslash" \in Char
  BY DEF Char, Octet
<1> HIDE DEF Take
<1>4. CASE here > Len(l)
  BY <1>1, <1>4 DEF Unescape
<1>5. CASE here <= Len(l) /\ l[here] # "\\"
  <2>1. Unescape(l, s) = Take(1, l[here])
    BY <1>1, <1>5 DEF Unescape, Take
  <2> QED
    BY <1>1, <1>2, <1>5, <2>1
<1>6. CASE here + 3 <= Len(l) /\ l[here] = "\\" /\ (\A i \in 1..3 : l[here + i] = "digit")
  <2>1. Unescape(l, s) = Take(4, "control")
    BY <1>1, <1>6 DEF Unescape, Take
  <2> QED
    BY <1>2, <1>3, <2>1
<1>7. CASE here = Len(l) /\ l[here] = "\\"
  <2>1. Unescape(l, s) = [s EXCEPT !.at = here + 1]
    BY <1>1, <1>7 DEF Unescape
  <2> QED
    BY <1>1, <2>1 DEF Turned
<1>8. CASE /\ here < Len(l) /\ l[here] = "\\"
           /\ ~(here + 3 <= Len(l) /\ \A i \in 1..3 : l[here + i] = "digit")
  <2>1. Unescape(l, s) = Take(2, other)
    BY <1>1, <1>8 DEF Unescape, Take
  <2>2. other \in Char
    <3>1. l[here + 1] \in Char
      BY <1>1, <1>8
    <3> QED
      BY <1>3, <3>1
  <2> QED
    BY <1>2, <2>1, <2>2
<1> QED
  BY <1>1, <1>4, <1>5, <1>6, <1>7, <1>8

LEMMA UnescapingIs ==
    ASSUME NEW l \in Seq(Char)
    PROVE  /\ Unescaping(l) \in [0..Len(l) -> Turned] /\ Unescaping(l)[0] = [at |-> 1, octets |-> <<>>]
           /\ \A i \in 1..Len(l) : Unescaping(l)[i] = Unescape(l, Unescaping(l)[i - 1])
<1> DEFINE m == Len(l)
           Go(x, i) == Unescape(l, x)
           P(f) == f = [i \in 0..m |-> IF i = 0 THEN [at |-> 1, octets |-> <<>>] ELSE Go(f[i - 1], i)]
<1>0. m \in Nat
  OBVIOUS
<1>1. ASSUME NEW i \in 1..m, NEW x \in Turned PROVE Go(x, i) \in Turned
  BY UnescapeTyped
<1>2. [at |-> 1, octets |-> <<>>] \in Turned
  BY DEF Turned
<1>3. Unescaping(l) = CHOOSE f : P(f)
  BY DEF Unescaping
<1>4. \A i \in 1..m : Go(Unescaping(l)[i - 1], i) = Unescape(l, Unescaping(l)[i - 1])
  OBVIOUS
<1> HIDE DEF m, Go
<1> DEFINE turn(i) == [x \in Turned |-> Go(x, i)]
           step == [i \in 1..m |-> turn(i)]
<1>5. step \in Turns(Turned, m)
  <2>1. \A i \in 1..m : turn(i) \in [Turned -> Turned]
    BY <1>1
  <2> HIDE DEF turn
  <2> QED
    BY <2>1 DEF Turns
<1>6. \A i \in 1..m : \A x \in Turned : step[i][x] = Go(x, i)
  OBVIOUS
<1> HIDE DEF turn, step
<1>7. PICK f : ComesOf(f, Turned, [at |-> 1, octets |-> <<>>], m, step)
  BY <1>0, <1>2, <1>5, Recursion
<1>8. P(f)
  <2>1. f \in [0..m -> Turned] /\ f[0] = [at |-> 1, octets |-> <<>>] /\ \A i \in 1..m : f[i] = step[i][f[i - 1]]
    BY <1>7 DEF ComesOf
  <2>2. \A i \in 1..m : i - 1 \in 0..m /\ f[i - 1] \in Turned
    BY <1>0, <2>1
  <2>3. \A i \in 1..m : f[i] = Go(f[i - 1], i)
    BY <1>6, <2>1, <2>2
  <2>4. \A i \in 0..m : i # 0 => i \in 1..m
    BY <1>0
  <2> QED
    BY <2>1, <2>3, <2>4
<1>9. P(Unescaping(l))
  <2> HIDE DEF P
  <2> QED
    BY <1>3, <1>8
<1> DEFINE g == Unescaping(l)
<1>10. Obeys(g, Turned, [at |-> 1, octets |-> <<>>], m, step)
  <2> HIDE DEF g
  <2>1. P(g)
    BY <1>9 DEF g
  <2>2. \A i \in 1..m : i \in 0..m /\ i # 0
    BY <1>0
  <2>3. \A i \in 1..m : g[i] = Go(g[i - 1], i)
    BY <2>1, <2>2
  <2>4. g[0] = [at |-> 1, octets |-> <<>>] /\ g = [i \in 0..m |-> g[i]]
    BY <1>0, <2>1
  <2> QED
    BY <1>6, <2>3, <2>4 DEF Obeys
<1> HIDE DEF g, P
<1>11. ComesOf(g, Turned, [at |-> 1, octets |-> <<>>], m, step)
  BY <1>0, <1>2, <1>5, <1>10, RecursionTyped
<1>12. g \in [0..m -> Turned] /\ g[0] = [at |-> 1, octets |-> <<>>] /\ \A i \in 1..m : g[i] = step[i][g[i - 1]]
  BY <1>11 DEF ComesOf
<1>13. \A i \in 1..m : i - 1 \in 0..m /\ g[i - 1] \in Turned
  BY <1>0, <1>12
<1>14. \A i \in 1..m : g[i] = Go(g[i - 1], i)
  BY <1>6, <1>12, <1>13
<1> QED
  BY <1>4, <1>12, <1>14 DEF g, m

\* What is split of a text, when all of it was read.
SplitUp(t) == Splitting(t)[Len(t)]

LEMMA WholeOfNone == SplitUp(<<>>) = NothingSplit
<1>1. <<>> \in Seq(Char) /\ Len(<<>>) = 0
  OBVIOUS
<1> QED
  BY <1>1, SplittingIs DEF SplitUp

LEMMA WholeAppend ==
    ASSUME NEW a \in Seq(Char), NEW ch \in Char
    PROVE  SplitUp(a \o <<ch>>) = SplitAt(SplitUp(a), ch)
<1> DEFINE t == a \o <<ch>>
<1>1. <<ch>> \in Seq(Char) /\ Len(<<ch>>) = 1 /\ <<ch>>[1] = ch /\ Len(a) \in Nat
  OBVIOUS
<1>2. /\ t \in Seq(Char) /\ Len(t) = Len(a) + 1 /\ t[Len(a) + 1] = ch
      /\ \A i \in 1..Len(a) : t[i] = a[i]
  BY <1>1, ConcatProperties
<1> HIDE DEF t
<1> DEFINE T == {i \in Nat : i <= Len(a) => Splitting(t)[i] = Splitting(a)[i]}
<1>3. 0 \in T
  BY <1>2, SplittingIs
<1>4. ASSUME NEW i \in Nat, i \in T PROVE i + 1 \in T
  <2> SUFFICES ASSUME i + 1 <= Len(a) PROVE Splitting(t)[i + 1] = Splitting(a)[i + 1]
    OBVIOUS
  <2>1. i + 1 \in 1..Len(a) /\ i + 1 \in 1..Len(t) /\ i + 1 - 1 = i
    BY <1>1, <1>2
  <2>2. /\ Splitting(t)[i + 1] = SplitAt(Splitting(t)[i], t[i + 1])
        /\ Splitting(a)[i + 1] = SplitAt(Splitting(a)[i], a[i + 1])
    BY <1>2, <2>1, SplittingIs
  <2> QED
    BY <1>2, <1>4, <2>1, <2>2
<1>5. \A i \in Nat : i \in T
  <2> HIDE DEF T
  <2> QED
    BY <1>3, <1>4, Induct
<1>6. Splitting(t)[Len(a)] = Splitting(a)[Len(a)]
  BY <1>1, <1>5
<1>7. Len(t) \in 1..Len(t) /\ Len(t) - 1 = Len(a)
  BY <1>1, <1>2
<1>8. Splitting(t)[Len(t)] = SplitAt(Splitting(t)[Len(t) - 1], t[Len(t)])
  BY <1>2, <1>7, SplittingIs
<1> QED
  BY <1>2, <1>6, <1>7, <1>8 DEF SplitUp, t

LEMMA ConcatChars ==
    ASSUME NEW a \in Seq(Char), NEW b \in Seq(Char), NEW c \in Seq(Char)
    PROVE  /\ a \o b \in Seq(Char) /\ (a \o b) \o c = a \o (b \o c)
           /\ <<>> \o a = a /\ a \o <<>> = a
           /\ Len(a) \in Nat /\ Len(a \o b) = Len(a) + Len(b)
           /\ \A i \in 1..Len(a) : (a \o b)[i] = a[i]
           /\ \A i \in 1..Len(b) : (a \o b)[Len(a) + i] = b[i]
<1>1. a \o b \in Seq(Char) /\ (a \o b) \o c = a \o (b \o c) /\ <<>> \o a = a /\ a \o <<>> = a
  BY ConcatProperties, ConcatAssociative, ConcatEmptySeq
<1>2. /\ Len(a) \in Nat /\ Len(b) \in Nat /\ Len(a \o b) = Len(a) + Len(b)
      /\ \A i \in 1..Len(a) + Len(b) : (a \o b)[i] = IF i <= Len(a) THEN a[i] ELSE b[i - Len(a)]
  BY ConcatProperties
<1>3. /\ \A i \in 1..Len(a) : i \in 1..Len(a) + Len(b) /\ i <= Len(a)
      /\ \A i \in 1..Len(b) : /\ Len(a) + i \in 1..Len(a) + Len(b) /\ ~(Len(a) + i <= Len(a))
                              /\ Len(a) + i - Len(a) = i
  BY <1>2
<1> QED
  BY <1>1, <1>2, <1>3

\* Inside a label, so much is split; no dot that is not escaped was met.
Inside(labels, current) == [labels |-> labels, current |-> current, escaped |-> FALSE]

\* The text t is b and one character more.
Longer(t, b, ch) == Len(t) = Len(b) + 1 /\ t[Len(b) + 1] = ch /\ \A i \in 1..Len(b) : t[i] = b[i]

LEMMA AppendChars ==
    ASSUME NEW x \in Seq(Char), NEW b \in Seq(Char), NEW ch \in Char, NEW t \in Seq(Char),
           Longer(t, b, ch)
    PROVE  x \o t = x \o b \o <<ch>>
<1>1. <<ch>> \in Seq(Char) /\ Len(<<ch>>) = 1 /\ <<ch>>[1] = ch /\ Len(b) \in Nat
  OBVIOUS
<1>2. /\ b \o <<ch>> \in Seq(Char) /\ Len(b \o <<ch>>) = Len(b) + 1
      /\ (b \o <<ch>>)[Len(b) + 1] = ch
      /\ \A i \in 1..Len(b) : (b \o <<ch>>)[i] = b[i]
  BY <1>1, ConcatChars
<1>3. Len(t) = Len(b \o <<ch>>) /\ \A i \in 1..Len(t) : t[i] = (b \o <<ch>>)[i]
  BY <1>1, <1>2 DEF Longer
<1>4. t = b \o <<ch>>
  BY <1>2, <1>3, SeqEqual
<1>5. (x \o b) \o <<ch>> = x \o (b \o <<ch>>)
  BY <1>1, ConcatAssociative
<1> QED
  BY <1>4, <1>5

LEMMA EscapedSplit ==
    ASSUME NEW a \in Seq(Char), NEW labels \in Seq(Seq(Char)), NEW current \in Seq(Char),
           NEW o \in Octet, SplitUp(a) = Inside(labels, current)
    PROVE  SplitUp(a \o Escaped(o)) = Inside(labels, current \o Escaped(o))
<1> DEFINE Upto(x, e) == [labels |-> labels, current |-> x, escaped |-> e]
<1>1. ASSUME NEW y \in Seq(Char), NEW ch \in Char, NEW e \in BOOLEAN,
             ch # "." \/ e, NEW f \in BOOLEAN, f <=> ch = "\\" /\ ~e
      PROVE  SplitAt(Upto(y, e), ch) = Upto(y \o <<ch>>, f)
  <2>1. Append(y, ch) = y \o <<ch>>
    OBVIOUS
  <2>2. (ch = "\\" /\ ~e) = f
    BY <1>1
  <2>3. Upto(y, e).labels = labels /\ Upto(y, e).current = y /\ Upto(y, e).escaped = e
    OBVIOUS
  <2> HIDE DEF Upto
  <2>4. ~(ch = "." /\ ~Upto(y, e).escaped)
    BY <1>1, <2>3
  <2>5. SplitAt(Upto(y, e), ch)
          = [labels |-> Upto(y, e).labels, current |-> Append(Upto(y, e).current, ch),
             escaped |-> ch = "\\" /\ ~Upto(y, e).escaped]
    BY <2>4 DEF SplitAt
  <2>6. SplitAt(Upto(y, e), ch)
          = [labels |-> labels, current |-> y \o <<ch>>, escaped |-> ch = "\\" /\ ~e]
    BY <2>1, <2>3, <2>5, Zenon
  <2> QED
    BY <2>2, <2>6, Zenon DEF Upto
<1> HIDE DEF Upto
<1>p. ASSUME NEW x \in Seq(Char), NEW y \in Seq(Char), NEW ch \in Char \ {"\\", "."},
             NEW e \in BOOLEAN, SplitUp(x) = Upto(y, e)
      PROVE  SplitUp(x \o <<ch>>) = Upto(y \o <<ch>>, FALSE)
  <2>1. ch # "." /\ ch \in Char /\ (FALSE <=> ch = "\\" /\ ~e)
    OBVIOUS
  <2>2. SplitAt(Upto(y, e), ch) = Upto(y \o <<ch>>, FALSE)
    BY <1>1, <2>1
  <2> QED
    BY <1>p, <2>1, <2>2, WholeAppend
<1>b. ASSUME NEW x \in Seq(Char), NEW y \in Seq(Char), SplitUp(x) = Upto(y, FALSE), "\\" \in Char
      PROVE  SplitUp(x \o <<"\\">>) = Upto(y \o <<"\\">>, TRUE)
  BY <1>b, <1>1, WholeAppend
<1>2. ASSUME NEW x \in Seq(Char), NEW y \in Seq(Char), NEW ch \in Char, SplitUp(x) = Upto(y, TRUE)
      PROVE  SplitUp(x \o <<ch>>) = Upto(y \o <<ch>>, FALSE)
  BY <1>2, <1>1, WholeAppend
<1>3. SplitUp(a) = Upto(current, FALSE)
  BY DEF Inside, Upto
<1>4. \A x \in Seq(Char), ch \in Char : x \o <<ch>> \in Seq(Char)
  OBVIOUS
<1>5. "\\" \in Char /\ "." \in Char /\ "digit" \in Char \ {"\\", "."} /\ "letter" \in Char \ {"\\", "."}
  BY DEF Char, Octet
<1>6. ASSUME NEW x \in Seq(Char)
      PROVE  /\ x \o <<"\\", ".">> = x \o <<"\\">> \o <<".">>
             /\ x \o <<"\\", "\\">> = x \o <<"\\">> \o <<"\\">>
             /\ x \o <<"\\", "digit", "digit", "digit">>
                  = x \o <<"\\">> \o <<"digit">> \o <<"digit">> \o <<"digit">>
  <2>1. /\ <<"\\">> \in Seq(Char) /\ <<"\\", "digit">> \in Seq(Char)
        /\ <<"\\", "digit", "digit">> \in Seq(Char) /\ <<"\\", "digit", "digit", "digit">> \in Seq(Char)
        /\ <<"\\", ".">> \in Seq(Char) /\ <<"\\", "\\">> \in Seq(Char)
    BY <1>5
  <2>a. \A b, t \in Seq(Char), ch \in Char : Longer(t, b, ch) => x \o t = x \o b \o <<ch>>
    BY AppendChars
  <2>2. x \o <<"\\", ".">> = x \o <<"\\">> \o <<".">>
    <3>1. Longer(<<"\\", ".">>, <<"\\">>, ".")
      BY DEF Longer
    <3> QED
      BY <1>5, <2>1, <3>1, AppendChars
  <2>3. x \o <<"\\", "\\">> = x \o <<"\\">> \o <<"\\">>
    <3>1. Longer(<<"\\", "\\">>, <<"\\">>, "\\")
      BY DEF Longer
    <3> QED
      BY <1>5, <2>1, <3>1, AppendChars
  <2>4. x \o <<"\\", "digit">> = x \o <<"\\">> \o <<"digit">>
    <3>1. Longer(<<"\\", "digit">>, <<"\\">>, "digit")
      BY DEF Longer
    <3> QED
      BY <1>5, <2>1, <3>1, AppendChars
  <2>5. x \o <<"\\", "digit", "digit">> = x \o <<"\\", "digit">> \o <<"digit">>
    <3>1. Longer(<<"\\", "digit", "digit">>, <<"\\", "digit">>, "digit")
      BY DEF Longer
    <3>2. <<"\\", "digit", "digit">> \in Seq(Char) /\ <<"\\", "digit">> \in Seq(Char) /\ "digit" \in Char
      BY <1>5, <2>1
    <3> QED
      BY <2>a, <3>1, <3>2, Zenon
  <2>6. x \o <<"\\", "digit", "digit", "digit">> = x \o <<"\\", "digit", "digit">> \o <<"digit">>
    <3>1. Longer(<<"\\", "digit", "digit", "digit">>, <<"\\", "digit", "digit">>, "digit")
      BY DEF Longer
    <3>2. <<"\\", "digit", "digit", "digit">> \in Seq(Char) /\ <<"\\", "digit", "digit">> \in Seq(Char) /\ "digit" \in Char
      BY <1>5, <2>1
    <3> QED
      BY <2>a, <3>1, <3>2, Zenon
  <2> QED
    BY <2>2, <2>3, <2>4, <2>5, <2>6
<1>7. SplitUp(a \o <<"\\">>) = Upto(current \o <<"\\">>, TRUE)
  BY <1>b, <1>3, <1>5
<1>8. a \o <<"\\">> \in Seq(Char) /\ current \o <<"\\">> \in Seq(Char)
  BY <1>4, <1>5
<1>9. CASE o = "dot"
  <2>1. SplitUp(a \o <<"\\">> \o <<".">>) = Upto(current \o <<"\\">> \o <<".">>, FALSE)
    BY <1>2, <1>5, <1>7, <1>8
  <2> QED
    BY <1>6, <1>9, <2>1 DEF Escaped, Upto, Inside
<1>10. CASE o = "backslash"
  <2>1. SplitUp(a \o <<"\\">> \o <<"\\">>) = Upto(current \o <<"\\">> \o <<"\\">>, FALSE)
    BY <1>2, <1>5, <1>7, <1>8
  <2> QED
    BY <1>6, <1>10, <2>1 DEF Escaped, Upto, Inside
<1>11. CASE o = "control"
  <2>1. SplitUp(a \o <<"\\">> \o <<"digit">>) = Upto(current \o <<"\\">> \o <<"digit">>, FALSE)
    BY <1>2, <1>5, <1>7, <1>8
  <2>2. a \o <<"\\">> \o <<"digit">> \in Seq(Char) /\ current \o <<"\\">> \o <<"digit">> \in Seq(Char)
    BY <1>4, <1>5, <1>8
  <2>3. SplitUp(a \o <<"\\">> \o <<"digit">> \o <<"digit">>)
          = Upto(current \o <<"\\">> \o <<"digit">> \o <<"digit">>, FALSE)
    BY <1>p, <1>5, <2>1, <2>2
  <2>4. /\ a \o <<"\\">> \o <<"digit">> \o <<"digit">> \in Seq(Char)
        /\ current \o <<"\\">> \o <<"digit">> \o <<"digit">> \in Seq(Char)
    BY <1>4, <1>5, <2>2
  <2>5. SplitUp(a \o <<"\\">> \o <<"digit">> \o <<"digit">> \o <<"digit">>)
          = Upto(current \o <<"\\">> \o <<"digit">> \o <<"digit">> \o <<"digit">>, FALSE)
    BY <1>p, <1>5, <2>3, <2>4
  <2> QED
    BY <1>6, <1>11, <2>5 DEF Escaped, Upto, Inside
<1>12. CASE o \notin {"dot", "backslash", "control"}
  <2>1. PICK ch \in Char \ {"\\", "."} : Escaped(o) = <<ch>>
    BY <1>12 DEF Escaped, Char, Octet
  <2>2. SplitUp(a \o <<ch>>) = Upto(current \o <<ch>>, FALSE)
    BY <1>p, <1>3, <2>1
  <2> QED
    BY <2>1, <2>2 DEF Upto, Inside
<1> QED
  BY <1>9, <1>10, <1>11, <1>12

LEMMA PresentingStep ==
    ASSUME NEW l \in Seq(Octet), NEW i \in Nat
    PROVE  /\ i <= Len(l) => Presenting(l)[i] \in Seq(Char)
           /\ i + 1 <= Len(l) => /\ l[i + 1] \in Octet
                                 /\ Presenting(l)[i + 1] = Presenting(l)[i] \o Escaped(l[i + 1])
<1>1. ASSUME i <= Len(l) PROVE Presenting(l)[i] \in Seq(Char)
  <2>1. i \in 0..Len(l)
    BY <1>1
  <2> QED
    BY <2>1, PresentingIs
<1>2. ASSUME i + 1 <= Len(l)
      PROVE  l[i + 1] \in Octet /\ Presenting(l)[i + 1] = Presenting(l)[i] \o Escaped(l[i + 1])
  <2>1. i + 1 \in 1..Len(l) /\ i + 1 - 1 = i
    BY <1>2
  <2>2. \A k \in 1..Len(l) : Presenting(l)[k] = Presenting(l)[k - 1] \o Escaped(l[k])
    BY PresentingIs
  <2> DEFINE k == i + 1
  <2>3. k \in 1..Len(l) /\ k - 1 = i /\ l[k] \in Octet
    BY <2>1
  <2> HIDE DEF k
  <2>4. Presenting(l)[k] = Presenting(l)[i] \o Escaped(l[k])
    BY <2>2, <2>3
  <2> QED
    BY <2>3, <2>4 DEF k
<1> QED
  BY <1>1, <1>2

LEMMA LabelSplit ==
    ASSUME NEW a \in Seq(Char), NEW labels \in Seq(Seq(Char)), NEW l \in Seq(Octet),
           SplitUp(a) = Inside(labels, <<>>)
    PROVE  SplitUp(a \o Presented(l)) = Inside(labels, Presented(l))
<1> DEFINE p(i) == Presenting(l)[i]
           T == {i \in Nat : i <= Len(l) => SplitUp(a \o p(i)) = Inside(labels, p(i))}
<1>1. /\ Len(l) \in Nat /\ p(0) = <<>>
      /\ \A i \in Nat : i <= Len(l) => p(i) \in Seq(Char)
      /\ \A i \in Nat : i + 1 <= Len(l) => p(i + 1) = p(i) \o Escaped(l[i + 1]) /\ l[i + 1] \in Octet
  <2>1. Len(l) \in Nat /\ p(0) = <<>>
    <3>1. Presenting(l)[0] = <<>>
      BY PresentingIs
    <3> QED
      BY <3>1
  <2> QED
    BY <2>1, PresentingStep
<1> HIDE DEF p
<1>2. 0 \in T
  BY <1>1, ConcatChars
<1>3. ASSUME NEW i \in Nat, i \in T PROVE i + 1 \in T
  <2> SUFFICES ASSUME i + 1 <= Len(l) PROVE SplitUp(a \o p(i + 1)) = Inside(labels, p(i + 1))
    OBVIOUS
  <2>1. i <= Len(l)
    BY <1>1
  <2>2. p(i) \in Seq(Char) /\ p(i + 1) = p(i) \o Escaped(l[i + 1]) /\ l[i + 1] \in Octet
    BY <1>1, <2>1
  <2>3. Escaped(l[i + 1]) \in Seq(Char)
    BY <2>2, EscapedIs
  <2>4. SplitUp(a \o p(i)) = Inside(labels, p(i)) /\ a \o p(i) \in Seq(Char)
    BY <1>3, <2>1, <2>2, ConcatProperties
  <2>5. SplitUp((a \o p(i)) \o Escaped(l[i + 1])) = Inside(labels, p(i) \o Escaped(l[i + 1]))
    BY <2>2, <2>4, EscapedSplit
  <2>6. (a \o p(i)) \o Escaped(l[i + 1]) = a \o (p(i) \o Escaped(l[i + 1]))
    BY <2>2, <2>3, ConcatAssociative
  <2> QED
    BY <2>2, <2>5, <2>6
<1>4. \A i \in Nat : i \in T
  <2> HIDE DEF T
  <2> QED
    BY <1>2, <1>3, Induct
<1>5. SplitUp(a \o p(Len(l))) = Inside(labels, p(Len(l)))
  BY <1>1, <1>4
<1> QED
  BY <1>5 DEF p, Presented

\* The labels have octets, and no space where a text may lose it.
Tidy(n) ==
    /\ n \in Wording
    /\ \A k \in 1..Len(n) : n[k] # <<>> /\ n[k][1] # "space" /\ n[k][Len(n[k])] # "space"
\* The text is not empty, and trimming leaves it as it is.
Tight(t) == t # <<>> /\ t[1] # "space" /\ t[Len(t)] # "space"

LEMMA PresentedTight ==
    ASSUME NEW l \in Seq(Octet), l # <<>>, l[1] # "space", l[Len(l)] # "space"
    PROVE  Tight(Presented(l))
<1> DEFINE p(i) == Presenting(l)[i]
           T == {i \in Nat : i + 1 <= Len(l) => Len(p(i + 1)) > 0 /\ p(i + 1)[1] # "space"}
<1>1. /\ Len(l) \in Nat \ {0} /\ p(0) = <<>>
      /\ \A i \in Nat : i <= Len(l) => p(i) \in Seq(Char)
      /\ \A i \in Nat : i + 1 <= Len(l) => p(i + 1) = p(i) \o Escaped(l[i + 1]) /\ l[i + 1] \in Octet
  <2>1. Len(l) \in Nat \ {0} /\ p(0) = <<>>
    BY EmptySeq, PresentingIs
  <2> QED
    BY <2>1, PresentingStep
<1> HIDE DEF p
<1>2. ASSUME NEW o \in Octet, o # "space"
      PROVE  /\ Escaped(o) \in Seq(Char) /\ Len(Escaped(o)) \in Nat \ {0}
             /\ Escaped(o)[1] # "space" /\ Escaped(o)[Len(Escaped(o))] # "space"
  <2>1. Escaped(o) \in {<<"\\", ".">>, <<"\\", "\\">>, <<"letter">>, <<"\\", "digit", "digit", "digit">>, <<o>>}
    BY DEF Escaped, Octet
  <2> DEFINE Fine(e) == e[1] # "space" /\ e[Len(e)] # "space"
  <2>2. Fine(Escaped(o))
    <3>1. Fine(<<"\\", ".">>) /\ Fine(<<"\\", "\\">>) /\ Fine(<<"letter">>)
      OBVIOUS
    <3>2. Fine(<<"\\", "digit", "digit", "digit">>) /\ Fine(<<o>>)
      BY <1>2
    <3> HIDE DEF Fine
    <3> QED
      BY <2>1, <3>1, <3>2
  <2>3. Escaped(o) \in Seq(Char) /\ Len(Escaped(o)) \in {1, 2, 4}
    BY EscapedIs
  <2> QED
    BY <2>2, <2>3
<1>3. 0 \in T
  <2>1. p(0 + 1) = p(0) \o Escaped(l[0 + 1]) /\ l[1] \in Octet
    BY <1>1
  <2>2. /\ Escaped(l[1]) \in Seq(Char) /\ Len(Escaped(l[1])) \in Nat \ {0}
        /\ Escaped(l[1])[1] # "space"
    BY <1>2, <2>1
  <2>3. p(0 + 1) = Escaped(l[1])
    <3>1. <<>> \o Escaped(l[1]) = Escaped(l[1]) /\ 0 + 1 = 1
      BY <2>2, ConcatEmptySeq
    <3> QED
      BY <1>1, <2>1, <3>1
  <2> QED
    BY <2>2, <2>3
<1>4. ASSUME NEW i \in Nat, i \in T PROVE i + 1 \in T
  <2> SUFFICES ASSUME (i + 1) + 1 <= Len(l)
               PROVE  Len(p((i + 1) + 1)) > 0 /\ p((i + 1) + 1)[1] # "space"
    OBVIOUS
  <2>1. i + 1 <= Len(l) /\ i + 1 \in Nat
    BY <1>1
  <2>2. /\ p(i + 1) \in Seq(Char) /\ p((i + 1) + 1) = p(i + 1) \o Escaped(l[(i + 1) + 1])
        /\ l[(i + 1) + 1] \in Octet
    BY <1>1, <2>1
  <2>3. Len(p(i + 1)) > 0 /\ p(i + 1)[1] # "space"
    BY <1>4, <2>1
  <2>4. Escaped(l[(i + 1) + 1]) \in Seq(Char) /\ Len(Escaped(l[(i + 1) + 1])) \in Nat
    BY <2>2, EscapedIs
  <2>5. 1 \in 1..Len(p(i + 1)) /\ Len(p(i + 1)) \in Nat
    BY <2>2, <2>3
  <2> QED
    BY <2>2, <2>3, <2>4, <2>5, ConcatChars
<1>5. \A i \in Nat : i \in T
  <2> HIDE DEF T
  <2> QED
    BY <1>3, <1>4, Induct
<1> DEFINE last == Len(l) - 1
<1>6. last \in Nat /\ last + 1 = Len(l) /\ last <= Len(l)
  BY <1>1
<1> HIDE DEF last
<1>7. Len(p(Len(l))) > 0 /\ p(Len(l))[1] # "space"
  BY <1>5, <1>6
<1>8. p(Len(l)) = p(last) \o Escaped(l[Len(l)]) /\ l[Len(l)] \in Octet /\ p(last) \in Seq(Char)
  <2>1. p(last + 1) = p(last) \o Escaped(l[last + 1]) /\ l[last + 1] \in Octet /\ p(last) \in Seq(Char)
    <3>1. last + 1 <= Len(l)
      BY <1>1, <1>6
    <3>2. p(last + 1) = p(last) \o Escaped(l[last + 1]) /\ l[last + 1] \in Octet
      BY <1>6, <3>1, PresentingStep DEF p
    <3>3. p(last) \in Seq(Char)
      BY <1>1, <1>6
    <3> QED
      BY <3>2, <3>3
  <2> QED
    BY <1>6, <2>1
<1>9. /\ Escaped(l[Len(l)]) \in Seq(Char) /\ Len(Escaped(l[Len(l)])) \in Nat \ {0}
      /\ Escaped(l[Len(l)])[Len(Escaped(l[Len(l)]))] # "space"
  BY <1>2, <1>8
<1>10. p(Len(l))[Len(p(Len(l)))] # "space"
  <2> DEFINE q == p(last)
             e == Escaped(l[Len(l)])
  <2>1. Len(e) \in 1..Len(e)
    BY <1>9
  <2>2. Len(q \o e) = Len(q) + Len(e) /\ (q \o e)[Len(q) + Len(e)] = e[Len(e)]
    BY <1>8, <1>9, <2>1, ConcatChars
  <2> QED
    BY <1>8, <1>9, <2>2
<1>11. p(Len(l)) # <<>>
  BY <1>7
<1> QED
  BY <1>7, <1>10, <1>11 DEF p, Presented, Tight

LEMMA TextsStep ==
    ASSUME NEW n \in Wording, NEW k \in Nat, k + 1 <= Len(n)
    PROVE  /\ Texts(n)[k] \in Seq(Char) /\ n[k + 1] \in Seq(Octet)
           /\ Texts(n)[k + 1] = Joined(Texts(n)[k], n[k + 1])
<1> DEFINE j == k + 1
<1>1. j \in 1..Len(n) /\ j - 1 = k /\ k \in 0..Len(n)
  BY WordingIs
<1> HIDE DEF j
<1>2. Texts(n)[j] = Joined(Texts(n)[j - 1], n[j]) /\ Texts(n)[k] \in Seq(Char) /\ n[j] \in Seq(Octet)
  BY <1>1, TextsIs, WordingIs
<1> QED
  BY <1>1, <1>2 DEF j

\* The texts of the first k labels.
Shown(n, k) == [i \in 1..k |-> Presented(n[i])]

LEMMA ShownIs ==
    ASSUME NEW n \in Wording, NEW k \in Nat, k <= Len(n)
    PROVE  /\ Shown(n, k) \in Seq(Seq(Char)) /\ Len(Shown(n, k)) = k
           /\ k = 0 => Shown(n, k) = <<>>
           /\ k + 1 <= Len(n) => Append(Shown(n, k), Presented(n[k + 1])) = Shown(n, k + 1)
<1>1. \A i \in Nat \ {0} : i <= Len(n) => Presented(n[i]) \in Seq(Char)
  BY PresentedTyped, WordingIs
<1>2. \A i \in 1..k : Presented(n[i]) \in Seq(Char)
  BY <1>1, WordingIs
<1>3. Shown(n, k) \in Seq(Seq(Char)) /\ Len(Shown(n, k)) = k
  BY <1>2 DEF Shown
<1>4. ASSUME k = 0 PROVE Shown(n, k) = <<>>
  BY <1>3, <1>4, EmptySeq
<1>5. ASSUME k + 1 <= Len(n) PROVE Append(Shown(n, k), Presented(n[k + 1])) = Shown(n, k + 1)
  <2>1. Presented(n[k + 1]) \in Seq(Char)
    BY <1>1, <1>5
  <2> DEFINE s == Shown(n, k)
             t == Shown(n, k + 1)
             a == Append(s, Presented(n[k + 1]))
  <2>2. /\ a \in Seq(Seq(Char)) /\ Len(a) = k + 1 /\ a[k + 1] = Presented(n[k + 1])
        /\ \A i \in 1..k : a[i] = s[i]
    <3> HIDE DEF s
    <3> QED
      BY <1>3, <2>1 DEF s
  <2>3. t \in Seq(Seq(Char)) /\ Len(t) = k + 1
    <3>1. \A i \in 1..(k + 1) : Presented(n[i]) \in Seq(Char)
      BY <1>1, <1>5, WordingIs
    <3> QED
      BY <3>1 DEF Shown
  <2>4. \A i \in 1..(k + 1) : t[i] = Presented(n[i])
    BY DEF Shown
  <2>5. \A i \in 1..k : s[i] = Presented(n[i])
    BY DEF Shown
  <2> HIDE DEF a, s, t
  <2>6. \A i \in 1..(k + 1) : a[i] = t[i]
    BY <2>2, <2>4, <2>5
  <2>7. a = t
    BY <2>2, <2>3, <2>6, SeqEqual
  <2> QED
    BY <2>7 DEF a, s, t
<1> QED
  BY <1>3, <1>4, <1>5

LEMMA TextsSplit ==
    ASSUME NEW n, Tidy(n), NEW k \in 1..Len(n)
    PROVE  /\ Tight(Texts(n)[k])
           /\ SplitUp(Texts(n)[k]) = Inside(Shown(n, k - 1), Presented(n[k]))
<1> DEFINE P(d) == /\ Tight(Texts(n)[d + 1])
                   /\ SplitUp(Texts(n)[d + 1]) = Inside(Shown(n, d), Presented(n[d + 1]))
           T == {d \in Nat : d + 1 <= Len(n) => P(d)}
<1>n. n \in Wording /\ Len(n) \in Nat
  BY WordingIs DEF Tidy
<1>1. ASSUME NEW i \in Nat, i + 1 <= Len(n)
      PROVE  /\ n[i + 1] \in Seq(Octet) /\ Presented(n[i + 1]) \in Seq(Char)
             /\ Tight(Presented(n[i + 1])) /\ Presented(n[i + 1]) # <<>>
  <2>1. i + 1 \in 1..Len(n)
    BY <1>1, <1>n
  <2>2. n[i + 1] \in Seq(Octet)
    BY <2>1, <1>n, WordingIs
  <2>3. Tight(Presented(n[i + 1]))
    BY <2>1, <2>2, PresentedTight DEF Tidy
  <2> QED
    BY <2>2, <2>3, PresentedTyped DEF Tight
<1>2. 0 \in T
  <2> SUFFICES ASSUME 0 + 1 <= Len(n) PROVE P(0)
    OBVIOUS
  <2>1. Texts(n)[0 + 1] = Presented(n[0 + 1])
    <3>1. Texts(n)[0 + 1] = Joined(Texts(n)[0], n[0 + 1])
      BY <1>n, TextsStep
    <3>2. Texts(n)[0] = <<>>
      BY <1>n, TextsIs
    <3> QED
      BY <3>1, <3>2 DEF Joined
  <2> DEFINE t == Presented(n[0 + 1])
  <2>2. n[0 + 1] \in Seq(Octet) /\ t \in Seq(Char) /\ Tight(t)
    BY <1>1
  <2>3. SplitUp(<<>>) = Inside(<<>>, <<>>)
    BY WholeOfNone DEF NothingSplit, Inside
  <2>4. SplitUp(<<>> \o t) = Inside(<<>>, t)
    <3>1. <<>> \in Seq(Char) /\ <<>> \in Seq(Seq(Char))
      OBVIOUS
    <3> QED
      BY <2>2, <2>3, <3>1, LabelSplit
  <2>5. <<>> \o t = t
    BY <2>2, ConcatEmptySeq
  <2>6. Shown(n, 0) = <<>>
    BY <1>n, ShownIs
  <2> QED
    BY <2>1, <2>2, <2>4, <2>5, <2>6
<1>3. ASSUME NEW d \in Nat, d \in T PROVE d + 1 \in T
  <2> SUFFICES ASSUME (d + 1) + 1 <= Len(n) PROVE P(d + 1)
    OBVIOUS
  <2> DEFINE text == Texts(n)[d + 1]
             dotted == text \o <<".">>
             c == Presented(n[d + 1])
             l == n[(d + 1) + 1]
             next == Presented(l)
  <2>1. d + 1 <= Len(n) /\ d + 1 \in Nat /\ d <= Len(n)
    BY <1>n
  <2>2. P(d)
    BY <1>3, <2>1
  <2>3. text \in Seq(Char) /\ Texts(n)[(d + 1) + 1] = Joined(text, l)
    BY <1>n, <2>1, TextsStep
  <2>4. l \in Seq(Octet) /\ next \in Seq(Char) /\ Tight(next)
    BY <1>1, <2>1
  <2>5. c \in Seq(Char) /\ c # <<>>
    BY <1>1, <2>1
  <2>6. Texts(n)[(d + 1) + 1] = dotted \o next
    BY <2>2, <2>3 DEF Joined, Tight
  <2>7. <<".">> \in Seq(Char) /\ "." \in Char /\ Len(<<".">>) = 1
    BY DEF Char
  <2>8. dotted \in Seq(Char) /\ Len(dotted) = Len(text) + 1 /\ \A i \in 1..Len(text) : dotted[i] = text[i]
    <3> HIDE DEF text
    <3> QED
      BY <2>3, <2>7, ConcatChars
  <2>9. SplitUp(dotted) = Inside(Shown(n, d + 1), <<>>)
    <3>1. SplitUp(dotted) = SplitAt(Inside(Shown(n, d), c), ".")
      BY <2>2, <2>3, <2>7, WholeAppend
    <3>2. SplitAt(Inside(Shown(n, d), c), ".") = Inside(Append(Shown(n, d), c), <<>>)
      <4> HIDE DEF c
      <4> QED
        BY <2>5 DEF SplitAt, Inside, Closed
    <3>3. Append(Shown(n, d), c) = Shown(n, d + 1)
      BY <1>n, <2>1, ShownIs
    <3> QED
      BY <3>1, <3>2, <3>3
  <2>10. SplitUp(dotted \o next) = Inside(Shown(n, d + 1), next)
    BY <1>n, <2>1, <2>4, <2>8, <2>9, ShownIs, LabelSplit
  <2>11. Tight(dotted \o next)
    <3> HIDE DEF dotted, next, text
    <3>1. Len(text) \in Nat \ {0} /\ Len(next) \in Nat \ {0}
      BY <2>2, <2>3, <2>4, EmptySeq DEF Tight, text
    <3>2. /\ Len(dotted \o next) = Len(dotted) + Len(next)
          /\ (dotted \o next)[1] = dotted[1]
          /\ (dotted \o next)[Len(dotted) + Len(next)] = next[Len(next)]
      <4>1. 1 \in 1..Len(dotted) /\ Len(next) \in 1..Len(next)
        BY <2>8, <3>1
      <4> QED
        BY <2>4, <2>8, <4>1, ConcatChars
    <3>3. dotted[1] = text[1]
      BY <2>8, <3>1
    <3>4. dotted \o next # <<>>
      BY <2>8, <3>1, <3>2
    <3> QED
      BY <2>2, <2>4, <3>2, <3>3, <3>4 DEF Tight, text
  <2> QED
    BY <2>6, <2>10, <2>11
<1>4. \A d \in Nat : d \in T
  <2> HIDE DEF T
  <2> QED
    BY <1>2, <1>3, Induct
<1> DEFINE d == k - 1
<1>5. d \in Nat /\ d + 1 = k /\ d + 1 <= Len(n)
  BY <1>n
<1> HIDE DEF d
<1>6. P(d)
  BY <1>4, <1>5
<1> HIDE DEF P
<1>7. /\ Tight(Texts(n)[d + 1])
      /\ SplitUp(Texts(n)[d + 1]) = Inside(Shown(n, d), Presented(n[d + 1]))
  BY <1>6 DEF P
<1> QED
  BY <1>5, <1>7 DEF d

LEMMA TrimmedTight ==
    ASSUME NEW t \in Seq(Char), Tight(t)
    PROVE  Trimmed(t) = t
<1> DEFINE inner == {i \in DOMAIN t : t[i] # "space"}
<1>1. Len(t) \in Nat \ {0} /\ DOMAIN t = 1..Len(t)
  BY EmptySeq DEF Tight
<1>2. 1 \in inner /\ Len(t) \in inner /\ \A i \in inner : i \in Nat /\ 1 <= i /\ i <= Len(t)
  BY <1>1 DEF Tight
<1> HIDE DEF inner
<1>3. Min(inner) = 1
  <2>1. \A x \in inner : (\A y \in inner : x <= y) => x = 1
    BY <1>1, <1>2
  <2>2. \E x \in inner : \A y \in inner : x <= y
    BY <1>2
  <2> QED
    BY <2>1, <2>2 DEF Min
<1>4. Max(inner) = Len(t)
  <2>1. \A x \in inner : (\A y \in inner : x >= y) => x = Len(t)
    BY <1>1, <1>2
  <2>2. \E x \in inner : \A y \in inner : x >= y
    BY <1>1, <1>2
  <2> QED
    BY <2>1, <2>2 DEF Max
<1>5. inner # {}
  BY <1>2
<1>6. Trimmed(t) = SubSeq(t, Min(inner), Max(inner))
  BY <1>5 DEF Trimmed, inner
<1> QED
  BY <1>3, <1>4, <1>6, SubSeqFull

LEMMA TextSplit ==
    ASSUME NEW n, Tidy(n)
    PROVE  SplitLabels(Text(n)) = Shown(n, Len(n))
<1> DEFINE t == Text(n)
<1>n. n \in Wording /\ Len(n) \in Nat
  BY WordingIs DEF Tidy
<1>1. t \in Seq(Char)
  <2>1. Len(n) \in 0..Len(n)
    BY <1>n
  <2> QED
    BY <1>n, <2>1, TextsIs DEF Text
<1>2. CASE Len(n) = 0
  <2>1. t = <<>>
    BY <1>n, <1>2, TextsIs DEF Text
  <2>2. Trimmed(<<>>) = <<>>
    BY DEF Trimmed
  <2>3. SplitLabels(t) = Closed(SplitUp(<<>>))
    BY <2>1, <2>2 DEF SplitLabels, SplitUp
  <2>4. Closed(NothingSplit) = <<>>
    BY DEF Closed, NothingSplit
  <2> QED
    BY <1>n, <1>2, <2>3, <2>4, WholeOfNone, ShownIs
<1>3. CASE Len(n) # 0
  <2> DEFINE d == Len(n) - 1
             c == Presented(n[d + 1])
  <2>1. Len(n) \in 1..Len(n) /\ d \in Nat /\ d + 1 = Len(n) /\ d <= Len(n)
    BY <1>n, <1>3
  <2>2. Tight(t) /\ SplitUp(t) = Inside(Shown(n, Len(n) - 1), Presented(n[Len(n)]))
    BY <2>1, TextsSplit DEF Text
  <2> HIDE DEF d
  <2>3. SplitUp(t) = Inside(Shown(n, d), c)
    BY <2>1, <2>2 DEF d
  <2>4. SplitLabels(t) = Closed(SplitUp(t))
    BY <1>1, <2>2, TrimmedTight DEF SplitLabels, SplitUp
  <2>5. n[d + 1] \in Seq(Octet) /\ Tight(c)
    <3>1. n[Len(n)] \in Seq(Octet)
      BY <1>n, <2>1, WordingIs
    <3> QED
      BY <2>1, <3>1, PresentedTight DEF Tidy
  <2>6. Closed(Inside(Shown(n, d), c)) = Append(Shown(n, d), c)
    BY <2>5 DEF Closed, Inside, Tight
  <2>7. Append(Shown(n, d), c) = Shown(n, d + 1)
    BY <1>n, <2>1, ShownIs
  <2> QED
    BY <2>1, <2>3, <2>4, <2>6, <2>7
<1> QED
  BY <1>2, <1>3

\* A label's text up to an octet is where its whole text begins.
LEMMA PresentingGrows ==
    ASSUME NEW l \in Seq(Octet), NEW i \in Nat, i <= Len(l)
    PROVE  /\ Len(Presenting(l)[i]) <= Len(Presented(l))
           /\ \A x \in 1..Len(Presenting(l)[i]) : Presented(l)[x] = Presenting(l)[i][x]
<1> DEFINE p(k) == Presenting(l)[k]
           P(k) == /\ Len(p(i)) <= Len(p(k)) /\ p(k) \in Seq(Char)
                   /\ \A x \in 1..Len(p(i)) : p(k)[x] = p(i)[x]
           T == {d \in Nat : i + d <= Len(l) => P(i + d)}
<1>0. p(i) \in Seq(Char) /\ Len(p(i)) \in Nat
  <2>1. Presenting(l)[i] \in Seq(Char)
    BY PresentingStep
  <2> QED
    BY <2>1
<1>1. 0 \in T
  BY <1>0
<1>2. ASSUME NEW d \in Nat, d \in T PROVE d + 1 \in T
  <2> SUFFICES ASSUME i + (d + 1) <= Len(l) PROVE P(i + (d + 1))
    OBVIOUS
  <2> DEFINE k == i + d
  <2>1. k \in Nat /\ k + 1 = i + (d + 1) /\ k <= Len(l) /\ k + 1 <= Len(l)
    OBVIOUS
  <2>2. P(k)
    BY <1>2, <2>1
  <2> HIDE DEF k
  <2>3. l[k + 1] \in Octet /\ p(k + 1) = p(k) \o Escaped(l[k + 1])
    BY <2>1, PresentingStep
  <2>4. Escaped(l[k + 1]) \in Seq(Char) /\ Len(Escaped(l[k + 1])) \in Nat
    BY <2>3, EscapedIs
  <2> HIDE DEF p
  <2>5. /\ p(k + 1) \in Seq(Char) /\ Len(p(k + 1)) = Len(p(k)) + Len(Escaped(l[k + 1]))
        /\ \A x \in 1..Len(p(k)) : p(k + 1)[x] = p(k)[x]
    <3>1. p(k) \in Seq(Char)
      BY <2>2
    <3> DEFINE e == Escaped(l[k + 1])
    <3> HIDE DEF e
    <3>2. e \in Seq(Char) /\ p(k + 1) = p(k) \o e
      BY <2>3, <2>4 DEF e
    <3>3. Len(p(k) \o e) = Len(p(k)) + Len(e)
      BY <3>1, <3>2, ConcatChars
    <3>4. \A x \in 1..Len(p(k)) : (p(k) \o e)[x] = p(k)[x]
      BY <3>1, <3>2, ConcatChars
    <3>5. p(k) \o e \in Seq(Char)
      BY <3>1, <3>2, ConcatProperties
    <3> QED
      BY <3>2, <3>3, <3>4, <3>5 DEF e
  <2>6. Len(p(k)) \in Nat
    BY <2>2
  <2>7. P(k + 1)
    BY <1>0, <2>2, <2>4, <2>5, <2>6
  <2> QED
    BY <2>1, <2>7
<1>3. \A d \in Nat : d \in T
  <2> HIDE DEF T
  <2> QED
    BY <1>1, <1>2, Induct
<1> DEFINE d == Len(l) - i
<1>4. d \in Nat /\ i + d = Len(l)
  OBVIOUS
<1>5. P(Len(l))
  <2> HIDE DEF d
  <2>1. d \in T
    BY <1>3, <1>4
  <2>2. P(i + d)
    BY <1>4, <2>1
  <2> QED
    BY <1>4, <2>2
<1> QED
  BY <1>5 DEF Presented

LEMMA PresentingLong ==
    ASSUME NEW l \in Seq(Octet), NEW i \in Nat, i <= Len(l)
    PROVE  i <= Len(Presenting(l)[i])
<1> DEFINE p(k) == Presenting(l)[k]
           T == {k \in Nat : k <= Len(l) => k <= Len(p(k))}
<1>1. 0 \in T
  <2>1. Presenting(l)[0] = <<>>
    BY PresentingIs
  <2> QED
    BY <2>1
<1>2. ASSUME NEW k \in Nat, k \in T PROVE k + 1 \in T
  <2> SUFFICES ASSUME k + 1 <= Len(l) PROVE k + 1 <= Len(p(k + 1))
    OBVIOUS
  <2> DEFINE e == Escaped(l[k + 1])
  <2>1. k <= Len(l) /\ k <= Len(p(k))
    BY <1>2
  <2>2. p(k) \in Seq(Char) /\ l[k + 1] \in Octet /\ p(k + 1) = p(k) \o e
    <3>1. Presenting(l)[k] \in Seq(Char)
      BY <2>1, PresentingStep
    <3>2. l[k + 1] \in Octet /\ Presenting(l)[k + 1] = Presenting(l)[k] \o e
      BY PresentingStep
    <3> QED
      BY <3>1, <3>2
  <2>3. e \in Seq(Char) /\ Len(e) \in {1, 2, 4}
    BY <2>2, EscapedIs
  <2> HIDE DEF p, e
  <2>4. Len(p(k) \o e) = Len(p(k)) + Len(e) /\ Len(p(k)) \in Nat
    BY <2>2, <2>3, ConcatProperties
  <2>5. Len(p(k) \o e) >= k + 1
    <3> DEFINE more == Len(e)
               long == Len(p(k))
    <3>1. more \in {1, 2, 4}
      BY <2>3
    <3>2. long \in Nat /\ k <= long
      BY <2>1, <2>4
    <3>3. Len(p(k) \o e) = long + more
      BY <2>4
    <3> HIDE DEF more, long
    <3> QED
      BY <3>1, <3>2, <3>3
  <2> QED
    BY <2>2, <2>5
<1>3. \A k \in Nat : k \in T
  <2> HIDE DEF T
  <2> QED
    BY <1>1, <1>2, Induct
<1> QED
  BY <1>3

\* What an octet is when a name was written as text and read again.
Plain(o) == IF o = "capital" THEN "letter" ELSE o

LEMMA UnescapeOctet ==
    ASSUME NEW t \in Seq(Char), NEW here \in Nat \ {0}, NEW octets \in Seq(Char), NEW o \in Octet,
           here + Len(Escaped(o)) <= Len(t) + 1,
           \A j \in 1..Len(Escaped(o)) : t[here + j - 1] = Escaped(o)[j]
    PROVE  Unescape(t, [at |-> here, octets |-> octets])
             = [at |-> here + Len(Escaped(o)), octets |-> Append(octets, Plain(o))]
<1> DEFINE s == [at |-> here, octets |-> octets]
<1>0. s.at = here /\ s.octets = octets /\ Len(t) \in Nat
  OBVIOUS
<1>c. "\\" # "." /\ "." # "digit" /\ "\\" # "digit" /\ "letter" # "\\"
  OBVIOUS
<1> HIDE DEF s
<1>1. CASE o = "dot"
  <2>1. Len(Escaped(o)) = 2 /\ Escaped(o)[1] = "\\" /\ Escaped(o)[2] = "."
    BY <1>1 DEF Escaped
  <2>2. t[here] = "\\" /\ t[here + 1] = "." /\ here + 1 <= Len(t)
    BY <2>1
  <2>3. Unescape(t, s) = [at |-> here + 2, octets |-> Append(octets, "dot")]
    BY <1>0, <1>c, <2>2 DEF Unescape
  <2> QED
    BY <1>1, <2>1, <2>3 DEF s, Plain
<1>2. CASE o = "backslash"
  <2>1. Len(Escaped(o)) = 2 /\ Escaped(o)[1] = "\\" /\ Escaped(o)[2] = "\\"
    BY <1>2 DEF Escaped
  <2>2. t[here] = "\\" /\ t[here + 1] = "\\" /\ here + 1 <= Len(t)
    BY <2>1
  <2>3. Unescape(t, s) = [at |-> here + 2, octets |-> Append(octets, "backslash")]
    BY <1>0, <1>c, <2>2 DEF Unescape
  <2> QED
    BY <1>2, <2>1, <2>3 DEF s, Plain
<1>3. CASE o = "control"
  <2>1. /\ Len(Escaped(o)) = 4 /\ Escaped(o)[1] = "\\" /\ Escaped(o)[2] = "digit"
        /\ Escaped(o)[3] = "digit" /\ Escaped(o)[4] = "digit"
    BY <1>3 DEF Escaped
  <2>2. /\ t[here] = "\\" /\ here + 3 <= Len(t)
        /\ t[here + 1] = "digit" /\ t[here + 2] = "digit" /\ t[here + 3] = "digit"
    BY <2>1
  <2>3. \A i \in 1..3 : t[here + i] = "digit"
    <3>1. \A i \in 1..3 : i = 1 \/ i = 2 \/ i = 3
      OBVIOUS
    <3> QED
      BY <2>2, <3>1
  <2>4. Unescape(t, s) = [at |-> here + 4, octets |-> Append(octets, "control")]
    BY <1>0, <1>c, <2>2, <2>3 DEF Unescape
  <2> QED
    BY <1>3, <2>1, <2>4 DEF s, Plain
<1>4. CASE o \notin {"dot", "backslash", "control"}
  <2>1. Escaped(o) = <<Plain(o)>> /\ Plain(o) # "\\"
    BY <1>4 DEF Escaped, Plain, Octet
  <2>2. Len(Escaped(o)) = 1 /\ Escaped(o)[1] = Plain(o)
    BY <2>1
  <2>3. t[here] = Plain(o) /\ here <= Len(t)
    BY <2>2
  <2>4. Unescape(t, s) = [at |-> here + 1, octets |-> Append(octets, Plain(o))]
    BY <1>0, <1>c, <2>1, <2>3 DEF Unescape
  <2> QED
    BY <2>2, <2>4 DEF s
<1> QED
  BY <1>1, <1>2, <1>3, <1>4

LEMMA LabelUnescaped ==
    ASSUME NEW l \in Seq(Octet)
    PROVE  Unescaped(Presented(l)) = [i \in DOMAIN l |-> Plain(l[i])]
<1> DEFINE t == Presented(l)
           p(i) == Presenting(l)[i]
           low(i) == [x \in 1..i |-> Plain(l[x])]
           State(i) == [at |-> Len(p(i)) + 1, octets |-> low(i)]
<1>0. t \in Seq(Char) /\ Len(t) \in Nat /\ Len(l) \in Nat /\ DOMAIN l = 1..Len(l)
  BY PresentedTyped
<1>1. /\ Unescaping(t)[0] = [at |-> 1, octets |-> <<>>]
      /\ \A i \in 1..Len(t) : Unescaping(t)[i] = Unescape(t, Unescaping(t)[i - 1])
  BY <1>0, UnescapingIs
<1>2. ASSUME NEW i \in Nat, i <= Len(l)
      PROVE  /\ p(i) \in Seq(Char) /\ Len(p(i)) \in Nat /\ i <= Len(p(i)) /\ Len(p(i)) <= Len(t)
             /\ \A x \in 1..Len(p(i)) : t[x] = p(i)[x]
  <2>1. Presenting(l)[i] \in Seq(Char)
    BY <1>2, PresentingStep
  <2>2. i <= Len(Presenting(l)[i])
    BY <1>2, PresentingLong
  <2>3. /\ Len(Presenting(l)[i]) <= Len(Presented(l))
        /\ \A x \in 1..Len(Presenting(l)[i]) : Presented(l)[x] = Presenting(l)[i][x]
    BY <1>2, PresentingGrows
  <2> QED
    BY <2>1, <2>2, <2>3
<1>3. ASSUME NEW i \in Nat, i <= Len(l)
      PROVE  /\ low(i) \in Seq(Char) /\ Len(low(i)) = i
             /\ i + 1 <= Len(l) => Append(low(i), Plain(l[i + 1])) = low(i + 1)
  <2>1. \A x \in Nat \ {0} : x <= Len(l) => Plain(l[x]) \in Char
    BY DEF Plain, Octet, Char
  <2>2. ASSUME NEW k \in Nat, k <= Len(l) PROVE low(k) \in Seq(Char) /\ Len(low(k)) = k
    <3>1. \A x \in 1..k : Plain(l[x]) \in Char
      BY <1>0, <2>1, <2>2
    <3> QED
      BY <3>1
  <2>3. ASSUME i + 1 <= Len(l) PROVE Append(low(i), Plain(l[i + 1])) = low(i + 1)
    <3> DEFINE a == Append(low(i), Plain(l[i + 1]))
    <3>1. low(i + 1) \in Seq(Char) /\ Len(low(i + 1)) = i + 1 /\ low(i) \in Seq(Char) /\ Len(low(i)) = i
      BY <1>3, <2>2, <2>3
    <3>2. Plain(l[i + 1]) \in Char
      BY <2>1, <2>3
    <3>3. \A x \in 1..i : low(i + 1)[x] = low(i)[x]
      OBVIOUS
    <3>4. low(i + 1)[i + 1] = Plain(l[i + 1])
      OBVIOUS
    <3> HIDE DEF low
    <3>5. a \in Seq(Char) /\ Len(a) = i + 1 /\ a[i + 1] = Plain(l[i + 1]) /\ \A x \in 1..i : a[x] = low(i)[x]
      BY <3>1, <3>2
    <3>6. \A x \in 1..(i + 1) : a[x] = low(i + 1)[x]
      <4>1. \A x \in 1..(i + 1) : x \in 1..i \/ x = i + 1
        OBVIOUS
      <4> QED
        BY <3>3, <3>4, <3>5, <4>1
    <3> HIDE DEF a
    <3>7. a = low(i + 1)
      BY <3>1, <3>5, <3>6, SeqEqual
    <3> QED
      BY <3>7 DEF a
  <2> QED
    BY <1>3, <2>2, <2>3
<1>4. ASSUME NEW i \in Nat, i + 1 <= Len(l)
      PROVE  Unescape(t, State(i)) = State(i + 1)
  <2> DEFINE e == Escaped(l[i + 1])
             b == p(i)
  <2>1. l[i + 1] \in Octet /\ p(i + 1) = b \o e
    BY <1>4, PresentingStep
  <2>2. e \in Seq(Char) /\ Len(e) \in Nat
    BY <2>1, EscapedIs
  <2>3. i <= Len(l) /\ i + 1 \in Nat
    BY <1>0, <1>4
  <2>4. b \in Seq(Char) /\ Len(b) \in Nat
    BY <1>2, <2>3
  <2>5. Len(p(i + 1)) <= Len(t) /\ \A x \in 1..Len(p(i + 1)) : t[x] = p(i + 1)[x]
    BY <1>2, <1>4, <2>3
  <2>6. low(i) \in Seq(Char) /\ Append(low(i), Plain(l[i + 1])) = low(i + 1)
    BY <1>3, <1>4, <2>3
  <2> HIDE DEF e, b, p, t, low
  <2>7. Len(p(i + 1)) = Len(b) + Len(e) /\ \A x \in 1..Len(e) : p(i + 1)[Len(b) + x] = e[x]
    BY <2>1, <2>2, <2>4, ConcatChars
  <2> DEFINE here == Len(b) + 1
  <2>8. here \in Nat \ {0} /\ here + Len(e) <= Len(t) + 1 /\ here + Len(e) = Len(p(i + 1)) + 1
    <3> DEFINE more == Len(e)
               long == Len(b)
               all == Len(t)
               next == Len(p(i + 1))
    <3>1. more \in Nat /\ long \in Nat /\ all \in Nat /\ next = long + more /\ next <= all
      BY <1>0, <2>2, <2>4, <2>5, <2>7
    <3> HIDE DEF more, long, all, next
    <3>2. /\ long + 1 \in Nat \ {0} /\ (long + 1) + more <= all + 1
          /\ (long + 1) + more = next + 1
      BY <3>1
    <3> QED
      BY <3>2 DEF more, long, all, next
  <2>9. \A j \in 1..Len(e) : t[here + j - 1] = e[j]
    <3> TAKE j \in 1..Len(e)
    <3>1. Len(b) + j \in 1..Len(p(i + 1)) /\ here + j - 1 = Len(b) + j
      BY <2>2, <2>4, <2>7
    <3>2. t[Len(b) + j] = p(i + 1)[Len(b) + j]
      BY <2>5, <3>1
    <3> QED
      BY <2>7, <3>1, <3>2
  <2> HIDE DEF here
  <2>10. Unescape(t, [at |-> here, octets |-> low(i)])
           = [at |-> here + Len(e), octets |-> Append(low(i), Plain(l[i + 1]))]
    BY <1>0, <2>1, <2>6, <2>8, <2>9, UnescapeOctet DEF e
  <2> QED
    BY <2>6, <2>8, <2>10 DEF here, b
<1> DEFINE T == {i \in Nat : i <= Len(l) => Unescaping(t)[i] = State(i)}
<1>5. 0 \in T
  <2>1. Presenting(l)[0] = <<>>
    BY PresentingIs
  <2>2. low(0) = <<>>
    BY <1>0, <1>3, EmptySeq
  <2> QED
    BY <1>1, <2>1, <2>2
<1> HIDE DEF State
<1>6. ASSUME NEW i \in Nat, i \in T PROVE i + 1 \in T
  <2> SUFFICES ASSUME i + 1 <= Len(l) PROVE Unescaping(t)[i + 1] = State(i + 1)
    OBVIOUS
  <2>1. Len(l) <= Len(t)
    BY <1>0, <1>2
  <2> DEFINE j == i + 1
  <2>2. j \in 1..Len(t) /\ j - 1 = i
    BY <1>0, <2>1
  <2> HIDE DEF j
  <2>3. Unescaping(t)[j] = Unescape(t, Unescaping(t)[i])
    BY <1>1, <2>2
  <2> QED
    BY <1>0, <1>4, <1>6, <2>3 DEF j
<1>7. \A i \in Nat : i \in T
  <2> HIDE DEF T
  <2> QED
    BY <1>5, <1>6, Induct
<1>8. Unescaping(t)[Len(l)] = State(Len(l)) /\ Len(l) <= Len(t)
  BY <1>0, <1>2, <1>7
<1>9. State(Len(l)).at = Len(t) + 1 /\ State(Len(l)).octets = low(Len(l))
  BY DEF State, Presented
<1>10. Unescape(t, State(Len(l))) = State(Len(l))
  BY <1>0, <1>9 DEF Unescape
<1> DEFINE R == {i \in Nat : Len(l) + i <= Len(t) => Unescaping(t)[Len(l) + i] = State(Len(l))}
<1>11. 0 \in R
  BY <1>0, <1>8
<1>12. ASSUME NEW i \in Nat, i \in R PROVE i + 1 \in R
  <2> SUFFICES ASSUME Len(l) + (i + 1) <= Len(t)
               PROVE  Unescaping(t)[Len(l) + (i + 1)] = State(Len(l))
    OBVIOUS
  <2> DEFINE j == Len(l) + (i + 1)
  <2>1. j \in 1..Len(t) /\ j - 1 = Len(l) + i /\ Len(l) + i <= Len(t)
    BY <1>0
  <2>2. Unescaping(t)[Len(l) + i] = State(Len(l))
    BY <1>12, <2>1
  <2> HIDE DEF j
  <2>3. Unescaping(t)[j] = Unescape(t, Unescaping(t)[Len(l) + i])
    BY <1>1, <2>1
  <2> QED
    BY <1>10, <2>2, <2>3 DEF j
<1>13. \A i \in Nat : i \in R
  <2> HIDE DEF R
  <2> QED
    BY <1>11, <1>12, Induct
<1> DEFINE d == Len(t) - Len(l)
<1>14. d \in Nat /\ Len(l) + d = Len(t)
  BY <1>0, <1>8
<1> HIDE DEF d
<1>15. Unescaping(t)[Len(t)] = State(Len(l))
  <2>1. d \in R
    BY <1>13, <1>14
  <2> QED
    BY <1>14, <2>1
<1> QED
  BY <1>0, <1>9, <1>15 DEF Unescaped

\* A question that is built from a name's text has the labels of the name.
LEMMA TextReturns ==
    ASSUME NEW n, Tidy(n)
    PROVE  QueryLabels(Text(n)) = Lower(n)
<1>n. n \in Wording /\ Len(n) \in Nat /\ DOMAIN n = 1..Len(n)
  BY WordingIs DEF Tidy
<1>1. SplitLabels(Text(n)) = [k \in 1..Len(n) |-> Presented(n[k])]
  BY TextSplit DEF Shown
<1>2. DOMAIN SplitLabels(Text(n)) = 1..Len(n)
  BY <1>1
<1>3. \A k \in 1..Len(n) : Unescaped(SplitLabels(Text(n))[k]) = [i \in DOMAIN n[k] |-> Plain(n[k][i])]
  <2> TAKE k \in 1..Len(n)
  <2>1. SplitLabels(Text(n))[k] = Presented(n[k]) /\ n[k] \in Seq(Octet)
    BY <1>1, <1>n, WordingIs
  <2> QED
    BY <2>1, LabelUnescaped
<1> QED
  BY <1>n, <1>2, <1>3 DEF QueryLabels, Lower, Plain

---------------------------------------------------------------------------
(* What the reader does with an item.                                      *)

MessageItem ==
    [kind : {"label", "pointer", "end", "rest"}, label : Spelling \cup {<<>>}, to : Nat]
ItemsTyped ==
    /\ items \in Seq(MessageItem)
    /\ \A i \in 1..Len(items) : items[i].kind = "pointer" => items[i].to # 0
Pass ==
    [state : {"reading", "refused", "ended"}, pos : Nat \ {0}, jumps : Nat, size : Nat,
     text : Seq(Char), end : Nat]
Started(pos) ==
    [state |-> "reading", pos |-> pos, jumps |-> 0, size |-> 0, text |-> <<>>, end |-> 0]

LEMMA ItemIs ==
    ASSUME ItemsTyped, NEW i \in 1..Len(items)
    PROVE  /\ items[i].kind \in {"label", "pointer", "end", "rest"}
           /\ items[i].label \in Seq(Octet) /\ Len(items[i].label) \in Nat /\ items[i].to \in Nat
           /\ items[i].kind = "pointer" => items[i].to # 0
<1>1. items[i] \in MessageItem
  BY DEF ItemsTyped
<1>2. Spelling \cup {<<>>} \subseteq Seq(Octet)
  <2>1. <<>> \in Seq(Octet)
    OBVIOUS
  <2> QED
    BY <2>1, NamesAssumption
<1>3. items[i].label \in Seq(Octet)
  BY <1>1, <1>2 DEF MessageItem
<1> QED
  BY <1>1, <1>3 DEF MessageItem, ItemsTyped

LEMMA ReadTyped ==
    ASSUME ItemsTyped, NEW r \in Pass
    PROVE  ReadItem(r) \in Pass
<1> DEFINE item == items[r.pos]
           size == r.size + Len(item.label) + 1
           refused == \/ r.jumps > Jumps \/ item.kind = "rest"
                      \/ item.kind # "pointer" /\ size > Octets
                      \/ item.kind = "label" /\ ~OctetsAllowed(item.label)
<1>1. /\ r.pos \in Nat \ {0} /\ r.jumps \in Nat /\ r.size \in Nat /\ r.text \in Seq(Char)
      /\ r.end \in Nat /\ r.state \in {"reading", "refused", "ended"}
  BY DEF Pass
<1>2. CASE ~(r.state = "reading" /\ r.pos <= Len(items))
  BY <1>2 DEF ReadItem
<1>3. CASE r.state = "reading" /\ r.pos <= Len(items)
  <2>1. r.pos \in 1..Len(items)
    BY <1>1, <1>3
  <2>2. /\ item.kind \in {"label", "pointer", "end", "rest"} /\ item.label \in Seq(Octet)
        /\ Len(item.label) \in Nat /\ item.to \in Nat /\ (item.kind = "pointer" => item.to # 0)
    BY <2>1, ItemIs
  <2>3. CASE refused
    <3>1. ReadItem(r) = [r EXCEPT !.state = "refused"]
      BY <1>3, <2>3 DEF ReadItem
    <3> QED
      BY <1>1, <3>1 DEF Pass
  <2>4. CASE ~refused /\ item.kind = "label"
    <3>1. ReadItem(r) = [r EXCEPT !.pos = @ + 1, !.size = size, !.text = Joined(@, item.label)]
      BY <1>3, <2>4 DEF ReadItem
    <3>2. Joined(r.text, item.label) \in Seq(Char) /\ size \in Nat
      BY <1>1, <2>2, JoinedTyped
    <3> DEFINE Passed(p, s, t) == [r EXCEPT !.pos = p, !.size = s, !.text = t]
    <3>3. \A p \in Nat \ {0}, s \in Nat, t \in Seq(Char) : Passed(p, s, t) \in Pass
      BY DEF Pass
    <3> DEFINE t == Joined(r.text, item.label)
               p == r.pos + 1
    <3>4. ReadItem(r) = Passed(p, size, t) /\ p \in Nat \ {0}
      BY <1>1, <3>1
    <3>5. t \in Seq(Char) /\ size \in Nat
      BY <3>2
    <3> HIDE DEF size, t, p, Passed
    <3> QED
      BY <3>3, <3>4, <3>5
  <2>5. CASE ~refused /\ item.kind = "pointer"
    <3>1. ReadItem(r)
            = [r EXCEPT !.pos = item.to, !.jumps = @ + 1, !.end = FirstEnd(@, r.pos + 1)]
      BY <1>3, <2>5 DEF ReadItem
    <3>2. FirstEnd(r.end, r.pos + 1) \in Nat
      BY <1>1 DEF FirstEnd
    <3> DEFINE Passed(p, j, e) == [r EXCEPT !.pos = p, !.jumps = j, !.end = e]
    <3>3. \A p \in Nat \ {0}, j \in Nat, e \in Nat : Passed(p, j, e) \in Pass
      BY DEF Pass
    <3> DEFINE p == item.to
               j == r.jumps + 1
               e == FirstEnd(r.end, r.pos + 1)
    <3>4. ReadItem(r) = Passed(p, j, e)
      BY <3>1
    <3>5. p \in Nat \ {0} /\ j \in Nat /\ e \in Nat
      BY <1>1, <2>2, <2>5, <3>2
    <3> HIDE DEF p, j, e, Passed
    <3> QED
      BY <3>3, <3>4, <3>5
  <2>6. CASE ~refused /\ item.kind = "end"
    <3>1. ReadItem(r) = [r EXCEPT !.state = "ended", !.end = FirstEnd(@, r.pos + 1)]
      BY <1>3, <2>6 DEF ReadItem
    <3>2. FirstEnd(r.end, r.pos + 1) \in Nat
      BY <1>1 DEF FirstEnd
    <3> QED
      BY <1>1, <3>1, <3>2 DEF Pass
  <2> QED
    BY <2>2, <2>3, <2>4, <2>5, <2>6
<1> QED
  BY <1>2, <1>3

LEMMA ReadingIs ==
    ASSUME ItemsTyped, NEW pos \in Nat \ {0}
    PROVE  /\ Reading(pos) \in [0..Steps -> Pass] /\ Reading(pos)[0] = Started(pos)
           /\ \A k \in 1..Steps : Reading(pos)[k] = ReadItem(Reading(pos)[k - 1])
<1> DEFINE m == Steps
           Go(x, k) == ReadItem(x)
           P(f) == f = [k \in 0..m |-> IF k = 0 THEN Started(pos) ELSE Go(f[k - 1], k)]
<1>0. m \in Nat
  BY NamesAssumption
<1>1. ASSUME NEW k \in 1..m, NEW x \in Pass PROVE Go(x, k) \in Pass
  BY ReadTyped
<1>2. Started(pos) \in Pass
  BY DEF Pass, Started
<1>3. Reading(pos) = CHOOSE f : P(f)
  BY DEF Reading, Started
<1>4. \A k \in 1..m : Go(Reading(pos)[k - 1], k) = ReadItem(Reading(pos)[k - 1])
  OBVIOUS
<1> HIDE DEF m, Go
<1> DEFINE turn(k) == [x \in Pass |-> Go(x, k)]
           step == [k \in 1..m |-> turn(k)]
<1>5. step \in Turns(Pass, m)
  <2>1. \A k \in 1..m : turn(k) \in [Pass -> Pass]
    BY <1>1
  <2> HIDE DEF turn
  <2> QED
    BY <2>1 DEF Turns
<1>6. \A k \in 1..m : \A x \in Pass : step[k][x] = Go(x, k)
  OBVIOUS
<1> HIDE DEF turn, step
<1>7. PICK f : ComesOf(f, Pass, Started(pos), m, step)
  BY <1>0, <1>2, <1>5, Recursion
<1>8. P(f)
  <2>1. f \in [0..m -> Pass] /\ f[0] = Started(pos) /\ \A k \in 1..m : f[k] = step[k][f[k - 1]]
    BY <1>7 DEF ComesOf
  <2>2. \A k \in 1..m : k - 1 \in 0..m /\ f[k - 1] \in Pass
    BY <1>0, <2>1
  <2>3. \A k \in 1..m : f[k] = Go(f[k - 1], k)
    BY <1>6, <2>1, <2>2
  <2>4. \A k \in 0..m : k # 0 => k \in 1..m
    BY <1>0
  <2> QED
    BY <2>1, <2>3, <2>4
<1>9. P(Reading(pos))
  <2> HIDE DEF P
  <2> QED
    BY <1>3, <1>8
<1> DEFINE g == Reading(pos)
<1>10. Obeys(g, Pass, Started(pos), m, step)
  <2> HIDE DEF g
  <2>1. P(g)
    BY <1>9 DEF g
  <2>2. \A k \in 1..m : k \in 0..m /\ k # 0
    BY <1>0
  <2>3. \A k \in 1..m : g[k] = Go(g[k - 1], k)
    BY <2>1, <2>2
  <2>4. g[0] = Started(pos) /\ g = [k \in 0..m |-> g[k]]
    BY <1>0, <2>1
  <2> QED
    BY <1>6, <2>3, <2>4 DEF Obeys
<1> HIDE DEF g, P
<1>11. ComesOf(g, Pass, Started(pos), m, step)
  BY <1>0, <1>2, <1>5, <1>10, RecursionTyped
<1>12. g \in [0..m -> Pass] /\ g[0] = Started(pos) /\ \A k \in 1..m : g[k] = step[k][g[k - 1]]
  BY <1>11 DEF ComesOf
<1>13. \A k \in 1..m : k - 1 \in 0..m /\ g[k - 1] \in Pass
  BY <1>0, <1>12
<1>14. \A k \in 1..m : g[k] = Go(g[k - 1], k)
  BY <1>6, <1>12, <1>13
<1> QED
  BY <1>4, <1>12, <1>14 DEF g, m

LEMMA ReadingStep ==
    ASSUME ItemsTyped, NEW pos \in Nat \ {0}, NEW k \in Nat
    PROVE  /\ k <= Steps => Reading(pos)[k] \in Pass
           /\ k + 1 <= Steps => Reading(pos)[k + 1] = ReadItem(Reading(pos)[k])
<1>0. Steps \in Nat
  BY NamesAssumption
<1>1. ASSUME k <= Steps PROVE Reading(pos)[k] \in Pass
  <2>1. k \in 0..Steps
    BY <1>0, <1>1
  <2> QED
    BY <2>1, ReadingIs
<1>2. ASSUME k + 1 <= Steps PROVE Reading(pos)[k + 1] = ReadItem(Reading(pos)[k])
  <2>1. \A i \in 1..Steps : Reading(pos)[i] = ReadItem(Reading(pos)[i - 1])
    BY ReadingIs
  <2> DEFINE i == k + 1
  <2>2. i \in 1..Steps /\ i - 1 = k
    BY <1>0, <1>2
  <2> HIDE DEF i
  <2>3. Reading(pos)[i] = ReadItem(Reading(pos)[k])
    BY <2>1, <2>2
  <2> QED
    BY <2>3 DEF i
<1> QED
  BY <1>1, <1>2

LEMMA ReadLabel ==
    ASSUME NEW r \in Pass, NEW l, r.state = "reading", r.pos <= Len(items),
           items[r.pos] = LabelItem(l), r.jumps <= Jumps, r.size + Len(l) + 1 <= Octets,
           l \in Seq(Octet)
    PROVE  /\ OctetsAllowed(l) =>
                ReadItem(r) = [r EXCEPT !.pos = @ + 1, !.size = @ + Len(l) + 1, !.text = Joined(@, l)]
           /\ ~OctetsAllowed(l) => ReadItem(r) = [r EXCEPT !.state = "refused"]
<1>1. items[r.pos].kind = "label" /\ items[r.pos].label = l
  BY DEF LabelItem, Item
<1>2. r.size \in Nat /\ r.jumps \in Nat /\ Jumps \in Nat /\ Octets \in Nat /\ Len(l) \in Nat
  BY NamesAssumption DEF Pass
<1>3. ~(r.jumps > Jumps) /\ ~(r.size + Len(l) + 1 > Octets)
  BY <1>2
<1>4. ASSUME OctetsAllowed(l)
      PROVE  ReadItem(r) = [r EXCEPT !.pos = @ + 1, !.size = @ + Len(l) + 1, !.text = Joined(@, l)]
  BY <1>1, <1>3, <1>4 DEF ReadItem
<1>5. ASSUME ~OctetsAllowed(l) PROVE ReadItem(r) = [r EXCEPT !.state = "refused"]
  BY <1>1, <1>5 DEF ReadItem
<1> QED
  BY <1>4, <1>5

LEMMA ReadPointer ==
    ASSUME NEW r \in Pass, NEW to, r.state = "reading", r.pos <= Len(items),
           items[r.pos] = PointerTo(to), r.jumps <= Jumps
    PROVE  ReadItem(r) = [r EXCEPT !.pos = to, !.jumps = @ + 1, !.end = FirstEnd(@, r.pos + 1)]
<1>1. items[r.pos].kind = "pointer" /\ items[r.pos].to = to
  BY DEF PointerTo, Item
<1>2. ~(r.jumps > Jumps)
  BY NamesAssumption DEF Pass
<1> QED
  BY <1>1, <1>2 DEF ReadItem

LEMMA ReadRoot ==
    ASSUME NEW r \in Pass, r.state = "reading", r.pos <= Len(items),
           items[r.pos] = RootItem, r.jumps <= Jumps, r.size + 1 <= Octets
    PROVE  ReadItem(r) = [r EXCEPT !.state = "ended", !.end = FirstEnd(@, r.pos + 1)]
<1>1. items[r.pos].kind = "end" /\ items[r.pos].label = <<>>
  BY DEF RootItem, Item
<1>2. ~(r.jumps > Jumps) /\ ~(r.size + Len(<<>>) + 1 > Octets)
  BY NamesAssumption DEF Pass
<1> QED
  BY <1>1, <1>2 DEF ReadItem

---------------------------------------------------------------------------
(* How names lie in the message, and how a reader follows them.            *)

NamesTyped ==
    /\ ItemsTyped
    /\ \A p \in places : p.name \in Spelt /\ p.at \in Nat \ {0} /\ p.end \in Nat
    /\ names \in 0..MaxNames /\ strict \in BOOLEAN
\* The labels of a name that are spelt where it begins.
Stretch(p) == p.end - 1 - p.at
\* The labels are there, and then the end or a pointer to a name written before.
Laid(level, p) ==
    /\ p.at < p.end /\ Stretch(p) <= Len(p.name)
    /\ \A j \in Nat : j < Stretch(p) /\ p.at + j <= Len(items) =>
          items[p.at + j] = LabelItem(p.name[j + 1])
    /\ p.end - 1 <= Len(items) =>
          \/ Stretch(p) = Len(p.name) /\ items[p.end - 1] = RootItem
          \/ \E q \in places : /\ items[p.end - 1] = PointerTo(q.at)
                               /\ q.name = Ending(p.name, Stretch(p))
                               /\ q.end <= p.at /\ level[q] < level[p]
Levels(level) == level \in [places -> 1..names] /\ \A p \in places : Laid(level, p)
Uncut ==
    /\ items # <<>>
    /\ items[Len(items)] = RestItem => \A p \in places : p.end <= Len(items)

LEMMA SpeltIs ==
    ASSUME NEW n \in Spelt
    PROVE  /\ n \in Wording /\ Len(n) \in Nat /\ Len(n) <= MaxLabels
           /\ \A i \in 1..Len(n) : n[i] \in Spelling /\ n[i] \in Seq(Octet) /\ n[i] # <<>>
           /\ Sizes(n)[Len(n)] + 1 <= Octets
           /\ Readable => Tidy(n)
<1>1. PICK k \in 0..MaxLabels : n \in [1..k -> Spelling]
  BY DEF Spelt
<1>2. Sizes(n)[Len(n)] + 1 <= Octets
  BY DEF Spelt
<1>3. MaxLabels \in Nat /\ k \in Nat /\ k <= MaxLabels
  BY NamesAssumption
<1>4. n \in Seq(Spelling) /\ Len(n) = k
  BY <1>1, <1>3
<1>5. \A i \in 1..Len(n) : n[i] \in Spelling /\ n[i] \in Seq(Octet) /\ n[i] # <<>>
  BY <1>1, <1>4, NamesAssumption
<1>6. n \in Wording
  <2>1. \A i \in 1..k : n[i] \in Seq(Octet)
    BY <1>4, <1>5
  <2> QED
    BY <1>1, <1>3, <2>1 DEF Wording
<1>7. ASSUME Readable PROVE Tidy(n)
  BY <1>5, <1>6, <1>7 DEF Tidy, Readable
<1> QED
  BY <1>2, <1>3, <1>4, <1>5, <1>6, <1>7

LEMMA SameEnding ==
    ASSUME NEW a \in Wording, NEW b \in Wording, NEW i \in 0..Len(a), NEW j \in 0..Len(b),
           Ending(a, i) = Ending(b, j)
    PROVE  /\ Len(a) - i = Len(b) - j
           /\ i < Len(a) => /\ j < Len(b) /\ a[i + 1] = b[j + 1]
                            /\ Ending(a, i + 1) = Ending(b, j + 1)
<1>0. Len(a) \in Nat /\ Len(b) \in Nat
  BY WordingIs
<1>1. /\ Len(Ending(a, i)) = Len(a) - i /\ \A x \in 1..(Len(a) - i) : Ending(a, i)[x] = a[i + x]
      /\ Len(Ending(b, j)) = Len(b) - j /\ \A x \in 1..(Len(b) - j) : Ending(b, j)[x] = b[j + x]
  BY SizesOfEnding
<1>2. Len(a) - i = Len(b) - j
  BY <1>1
<1>3. \A x \in 1..(Len(a) - i) : a[i + x] = b[j + x]
  BY <1>1, <1>2
<1>4. ASSUME i < Len(a)
      PROVE  j < Len(b) /\ a[i + 1] = b[j + 1] /\ Ending(a, i + 1) = Ending(b, j + 1)
  <2>1. j < Len(b) /\ 1 \in 1..(Len(a) - i)
    BY <1>0, <1>2, <1>4
  <2>2. a[i + 1] = b[j + 1]
    BY <1>3, <2>1
  <2> DEFINE c == i + 1
             d == j + 1
  <2>3. c \in 0..Len(a) /\ d \in 0..Len(b) /\ Len(a) - c = Len(b) - d
    BY <1>0, <1>2, <1>4, <2>1
  <2>4. \A x \in 1..(Len(a) - c) : a[c + x] = b[d + x]
    <3> TAKE x \in 1..(Len(a) - c)
    <3>1. x + 1 \in 1..(Len(a) - i) /\ c + x = i + (x + 1) /\ d + x = j + (x + 1)
      BY <1>0
    <3> QED
      BY <1>3, <3>1
  <2> HIDE DEF c, d
  <2>5. /\ Ending(a, c) \in Wording /\ Len(Ending(a, c)) = Len(a) - c
        /\ \A x \in 1..(Len(a) - c) : Ending(a, c)[x] = a[c + x]
        /\ Ending(b, d) \in Wording /\ Len(Ending(b, d)) = Len(b) - d
        /\ \A x \in 1..(Len(b) - d) : Ending(b, d)[x] = b[d + x]
    BY <2>3, SizesOfEnding
  <2>6. /\ Len(Ending(a, c)) = Len(Ending(b, d))
        /\ \A x \in 1..Len(Ending(a, c)) : Ending(a, c)[x] = Ending(b, d)[x]
    BY <2>3, <2>4, <2>5
  <2>7. Ending(a, c) = Ending(b, d)
    BY <2>5, <2>6, SeqEqual DEF Wording
  <2> QED
    BY <2>1, <2>2, <2>7 DEF c, d
<1> QED
  BY <1>2, <1>4

LEMMA EndingOfAll ==
    ASSUME NEW n \in Wording
    PROVE  Ending(n, 0) = n
<1>1. Len(n) \in Nat
  BY WordingIs
<1> QED
  BY <1>1, SubSeqFull DEF Ending, Wording

\* The reader of p has read so many of its labels and is at the j-th label of q.
Upto(level, p, r, q, done, j) ==
    /\ q \in places /\ done \in 0..Len(p.name) /\ j \in Nat /\ j <= Stretch(q) /\ q.end <= p.end
    /\ Ending(q.name, j) = Ending(p.name, done)
    /\ r.pos = q.at + j /\ r.size = Sizes(p.name)[done] /\ r.text = Texts(p.name)[done]
    /\ r.jumps + level[q] <= level[p]
    /\ r.jumps = 0 => q = p /\ r.end = 0
    /\ r.jumps # 0 => r.end = p.end
    /\ \A i \in 1..done : OctetsAllowed(p.name[i])
Following(level, p, k, r) ==
    /\ r.state = "reading"
    /\ \E q \in places, done, j \in Nat : Upto(level, p, r, q, done, j) /\ k = done + r.jumps
HasEnded(p, r) ==
    /\ r.state = "ended" /\ r.text = Text(p.name) /\ r.end = p.end
    /\ \A i \in 1..Len(p.name) : OctetsAllowed(p.name[i])
Refuses(p, r) == r.state = "refused" /\ \E i \in 1..Len(p.name) : ~OctetsAllowed(p.name[i])
Track(level, p, k, r) == Following(level, p, k, r) \/ HasEnded(p, r) \/ Refuses(p, r)

LEMMA PlaceIs ==
    ASSUME NamesTyped, NEW level, Levels(level), NEW p \in places
    PROVE  /\ p.name \in Spelt /\ p.name \in Wording /\ Len(p.name) \in Nat
           /\ p.at \in Nat \ {0} /\ p.end \in Nat /\ p.at < p.end
           /\ Stretch(p) \in Nat /\ Stretch(p) <= Len(p.name) /\ p.end = p.at + Stretch(p) + 1
           /\ level[p] \in Nat /\ level[p] >= 1 /\ level[p] <= MaxNames
<1>1. p.name \in Spelt /\ p.at \in Nat \ {0} /\ p.end \in Nat /\ p.at < p.end /\ Stretch(p) <= Len(p.name)
  BY DEF NamesTyped, Levels, Laid
<1>2. level[p] \in 1..names /\ names \in 0..MaxNames /\ MaxNames \in Nat
  BY NamesAssumption DEF NamesTyped, Levels
<1>3. p.name \in Wording /\ Len(p.name) \in Nat
  BY <1>1, SpeltIs
<1>4. Stretch(p) \in Nat /\ p.end = p.at + Stretch(p) + 1
  BY <1>1 DEF Stretch
<1> QED
  BY <1>1, <1>2, <1>3, <1>4

LEMMA FollowStep ==
    ASSUME NamesTyped, Readable, NEW level, Levels(level), NEW p \in places, Here(p),
           NEW r \in Pass, r.state = "reading", NEW q, NEW done, NEW j, Upto(level, p, r, q, done, j)
    PROVE  Track(level, p, done + r.jumps + 1, ReadItem(r))
<1> DEFINE n == p.name
           m == q.name
           s == ReadItem(r)
<1>0. /\ q \in places /\ done \in 0..Len(n) /\ j \in Nat /\ j <= Stretch(q) /\ q.end <= p.end
      /\ Ending(m, j) = Ending(n, done)
      /\ r.pos = q.at + j /\ r.size = Sizes(n)[done] /\ r.text = Texts(n)[done]
      /\ r.jumps + level[q] <= level[p]
      /\ (r.jumps = 0 => q = p /\ r.end = 0)
      /\ (r.jumps # 0 => r.end = p.end)
      /\ \A i \in 1..done : OctetsAllowed(n[i])
  BY DEF Upto
<1>p. /\ n \in Spelt /\ n \in Wording /\ Len(n) \in Nat /\ p.end \in Nat /\ p.end # 0
      /\ level[p] \in Nat /\ level[p] <= MaxNames
  BY PlaceIs
<1>q. /\ m \in Wording /\ Len(m) \in Nat /\ q.at \in Nat \ {0} /\ q.end \in Nat
      /\ Stretch(q) \in Nat /\ Stretch(q) <= Len(m) /\ q.end = q.at + Stretch(q) + 1
      /\ level[q] \in Nat /\ level[q] >= 1
  BY <1>0, PlaceIs
<1>l. Laid(level, q)
  BY <1>0 DEF Levels
<1>r. r.jumps \in Nat /\ r.size \in Nat /\ r.end \in Nat /\ r.jumps <= Jumps
  <2>1. r.jumps \in Nat /\ r.size \in Nat /\ r.end \in Nat
    BY DEF Pass
  <2>2. MaxNames \in Nat /\ Jumps \in Nat /\ MaxNames <= Jumps + 1
    BY NamesAssumption DEF Readable
  <2> QED
    BY <1>0, <1>p, <1>q, <2>1, <2>2
<1>i. Len(items) \in Nat
  BY DEF NamesTyped, ItemsTyped
<1>h. q.end - 1 <= Len(items) /\ r.pos <= Len(items)
  <2>1. p.end <= Len(items) + 1
    BY DEF Here
  <2> QED
    BY <1>0, <1>i, <1>p, <1>q, <2>1
<1>z. /\ Octets \in Nat /\ Sizes(n)[Len(n)] + 1 <= Octets
      /\ Sizes(n)[Len(n)] \in Nat /\ Sizes(n)[done] <= Sizes(n)[Len(n)]
  <2>1. Len(n) \in 0..Len(n)
    BY <1>p
  <2> QED
    BY <1>0, <1>p, <2>1, NamesAssumption, SpeltIs, SizesRise, SizesIs
<1>e. /\ Len(m) - j = Len(n) - done
      /\ j < Len(m) => /\ done < Len(n) /\ m[j + 1] = n[done + 1]
                       /\ Ending(m, j + 1) = Ending(n, done + 1)
  <2>1. j \in 0..Len(m) /\ done \in 0..Len(n) /\ m \in Wording /\ n \in Wording
    BY <1>0, <1>p, <1>q
  <2>2. Ending(m, j) = Ending(n, done)
    BY <1>0
  <2> HIDE DEF m, n
  <2> QED
    BY <2>1, <2>2, SameEnding
<1>1. CASE j < Stretch(q)
  <2> DEFINE l == n[done + 1]
  <2>1. j < Len(m) /\ done < Len(n) /\ m[j + 1] = l /\ Ending(m, j + 1) = Ending(n, done + 1)
    BY <1>0, <1>1, <1>e, <1>q
  <2>2. items[r.pos] = LabelItem(l)
    BY <1>0, <1>1, <1>h, <1>l, <2>1 DEF Laid
  <2>3. done \in Nat /\ done + 1 \in 1..Len(n) /\ done + 1 \in 0..Len(n) /\ done + 1 - 1 = done
    BY <1>0, <1>p, <2>1
  <2>4. l \in Seq(Octet) /\ Len(l) \in Nat
    BY <1>p, <2>3, WordingIs
  <2>5. Sizes(n)[done + 1] = r.size + Len(l) + 1
    <3> DEFINE k == done + 1
    <3>1. k \in 1..Len(n) /\ k - 1 = done
      BY <2>3
    <3> HIDE DEF k
    <3>2. Sizes(n)[k] = Sizes(n)[k - 1] + Len(n[k]) + 1
      BY <1>p, <3>1, SizesIs
    <3> QED
      BY <1>0, <3>1, <3>2 DEF k
  <2>6. r.size + Len(l) + 1 <= Octets
    <3>1. Sizes(n)[done + 1] <= Sizes(n)[Len(n)] /\ Sizes(n)[done + 1] \in Nat
      BY <1>p, <2>3, SizesRise, SizesIs
    <3> QED
      BY <1>z, <2>5, <3>1
  <2>7. CASE OctetsAllowed(l)
    <3>1. s = [r EXCEPT !.pos = @ + 1, !.size = @ + Len(l) + 1, !.text = Joined(@, l)]
      BY <1>h, <1>r, <2>2, <2>4, <2>6, <2>7, ReadLabel
    <3>2. Texts(n)[done + 1] = Joined(Texts(n)[done], l)
      BY <1>p, <2>3, TextsStep
    <3>3. /\ s.state = "reading" /\ s.pos = r.pos + 1 /\ s.size = Sizes(n)[done + 1]
          /\ s.text = Texts(n)[done + 1] /\ s.jumps = r.jumps /\ s.end = r.end
      BY <1>0, <2>5, <3>1, <3>2 DEF Pass
    <3>4. \A i \in 1..(done + 1) : OctetsAllowed(n[i])
      <4>1. \A i \in 1..(done + 1) : i \in 1..done \/ i = done + 1
        BY <2>3
      <4> QED
        BY <1>0, <2>7, <4>1
    <3>5. j + 1 \in Nat /\ j + 1 <= Stretch(q) /\ s.pos = q.at + (j + 1)
      BY <1>0, <1>1, <1>q, <3>3
    <3> HIDE DEF s
    <3>6. Upto(level, p, s, q, done + 1, j + 1)
      BY <1>0, <2>1, <2>3, <3>3, <3>4, <3>5 DEF Upto
    <3>7. done + r.jumps + 1 = (done + 1) + s.jumps
      BY <1>r, <2>3, <3>3
    <3>8. Following(level, p, done + r.jumps + 1, s)
      BY <1>0, <2>3, <3>3, <3>5, <3>6, <3>7 DEF Following
    <3> QED
      BY <3>8 DEF Track, s
  <2>8. CASE ~OctetsAllowed(l)
    <3>1. s = [r EXCEPT !.state = "refused"]
      BY <1>h, <1>r, <2>2, <2>4, <2>6, <2>8, ReadLabel
    <3>2. s.state = "refused"
      BY <3>1 DEF Pass
    <3>3. Refuses(p, s)
      BY <2>3, <2>8, <3>2 DEF Refuses
    <3> QED
      BY <3>3 DEF Track
  <2> QED
    BY <2>7, <2>8
<1>2. CASE j = Stretch(q)
  <2>1. r.pos = q.end - 1 /\ r.pos + 1 = q.end
    BY <1>0, <1>2, <1>q
  <2>f. FirstEnd(r.end, r.pos + 1) = p.end
    BY <1>0, <1>p, <2>1 DEF FirstEnd
  <2>2. \/ Stretch(q) = Len(m) /\ items[r.pos] = RootItem
        \/ \E u \in places : /\ items[r.pos] = PointerTo(u.at)
                             /\ u.name = Ending(m, Stretch(q))
                             /\ u.end <= q.at /\ level[u] < level[q]
    BY <1>h, <1>l, <2>1 DEF Laid
  <2>3. CASE Stretch(q) = Len(m) /\ items[r.pos] = RootItem
    <3>1. done = Len(n)
      BY <1>0, <1>2, <1>e, <1>p, <1>q, <2>3
    <3>2. r.size + 1 <= Octets
      BY <1>0, <1>z, <3>1
    <3>3. s = [r EXCEPT !.state = "ended", !.end = FirstEnd(@, r.pos + 1)]
      BY <1>h, <1>r, <2>3, <3>2, ReadRoot
    <3>4. s.state = "ended" /\ s.end = p.end /\ s.text = r.text
      BY <2>f, <3>3 DEF Pass
    <3>5. HasEnded(p, s)
      BY <1>0, <3>1, <3>4 DEF HasEnded, Text
    <3> QED
      BY <3>5 DEF Track
  <2>4. ASSUME NEW u \in places, items[r.pos] = PointerTo(u.at), u.name = Ending(m, Stretch(q)),
               u.end <= q.at, level[u] < level[q]
        PROVE  Track(level, p, done + r.jumps + 1, s)
    <3>1. s = [r EXCEPT !.pos = u.at, !.jumps = @ + 1, !.end = FirstEnd(@, r.pos + 1)]
      BY <1>h, <1>r, <2>4, ReadPointer
    <3>2. /\ s.state = "reading" /\ s.pos = u.at /\ s.jumps = r.jumps + 1 /\ s.end = p.end
          /\ s.size = r.size /\ s.text = r.text
      BY <2>f, <3>1 DEF Pass
    <3>3. /\ u.name \in Wording /\ u.at \in Nat /\ u.end \in Nat /\ Stretch(u) \in Nat
          /\ level[u] \in Nat
      BY PlaceIs
    <3>4. Ending(u.name, 0) = Ending(n, done)
      BY <1>0, <1>2, <2>4, <3>3, EndingOfAll
    <3>5. u.end <= p.end /\ s.jumps + level[u] <= level[p] /\ s.jumps # 0
      <4>1. u.end <= p.end
        BY <1>0, <1>p, <1>q, <2>4, <3>3
      <4>2. s.jumps + level[u] <= level[p] /\ s.jumps # 0
        <5> DEFINE lu == level[u]
                   lq == level[q]
                   lp == level[p]
                   x == r.jumps
        <5>1. lu \in Nat /\ lq \in Nat /\ lp \in Nat /\ x \in Nat /\ lu < lq /\ x + lq <= lp
          BY <1>0, <1>p, <1>q, <1>r, <2>4, <3>3
        <5> HIDE DEF lu, lq, lp, x
        <5>2. x + 1 + lu <= lp /\ x + 1 # 0
          BY <5>1
        <5> QED
          BY <3>2, <5>2 DEF lu, lp, x
      <4> QED
        BY <3>2, <4>1, <4>2
    <3>6. 0 \in Nat /\ 0 <= Stretch(u) /\ s.pos = u.at + 0
      BY <3>2, <3>3
    <3> HIDE DEF s
    <3>7. Upto(level, p, s, u, done, 0)
      BY <1>0, <3>2, <3>4, <3>5, <3>6 DEF Upto
    <3>8. done + r.jumps + 1 = done + s.jumps /\ done \in Nat
      BY <1>0, <1>p, <1>r, <3>2
    <3>9. Following(level, p, done + r.jumps + 1, s)
      BY <3>2, <3>7, <3>8 DEF Following
    <3> QED
      BY <3>9 DEF Track, s
  <2> QED
    BY <2>2, <2>3, <2>4
<1> QED
  BY <1>0, <1>1, <1>2, <1>q

LEMMA TrackAll ==
    ASSUME NamesTyped, Readable, NEW level, Levels(level), NEW p \in places, Here(p)
    PROVE  HasEnded(p, Reading(p.at)[Steps]) \/ Refuses(p, Reading(p.at)[Steps])
<1> DEFINE R(k) == Reading(p.at)[k]
           T == {k \in Nat : k <= Steps => Track(level, p, k, R(k))}
<1>p. /\ p.name \in Wording /\ Len(p.name) \in Nat /\ p.at \in Nat \ {0} /\ p.end \in Nat
      /\ Stretch(p) \in Nat /\ Stretch(p) <= Len(p.name) /\ p.name \in Spelt
      /\ level[p] \in Nat /\ level[p] <= MaxNames
  BY PlaceIs
<1>i. ItemsTyped
  BY DEF NamesTyped
<1>s. Steps \in Nat /\ MaxLabels \in Nat /\ MaxNames \in Nat /\ MaxLabels + MaxNames <= Steps
  BY NamesAssumption DEF Readable
<1>1. 0 \in T
  <2>1. R(0) = Started(p.at)
    BY <1>i, <1>p, ReadingIs
  <2>2. Sizes(p.name)[0] = 0 /\ Texts(p.name)[0] = <<>>
    BY <1>p, SizesIs, TextsIs
  <2>3. Upto(level, p, Started(p.at), p, 0, 0)
    BY <1>p, <2>2 DEF Upto, Started
  <2>4. Following(level, p, 0, Started(p.at))
    BY <2>3 DEF Following, Started
  <2> QED
    BY <2>1, <2>4 DEF Track
<1>2. ASSUME NEW k \in Nat, k \in T PROVE k + 1 \in T
  <2> SUFFICES ASSUME k + 1 <= Steps PROVE Track(level, p, k + 1, R(k + 1))
    OBVIOUS
  <2>1. k <= Steps
    BY <1>s
  <2>2. R(k) \in Pass /\ R(k + 1) = ReadItem(R(k))
    BY <1>i, <1>p, <2>1, ReadingStep
  <2>3. Track(level, p, k, R(k))
    BY <1>2, <2>1
  <2> HIDE DEF R
  <2>4. CASE Following(level, p, k, R(k))
    <3>1. PICK q \in places, done \in Nat, j \in Nat :
            Upto(level, p, R(k), q, done, j) /\ k = done + R(k).jumps
      BY <2>4 DEF Following
    <3>2. R(k).state = "reading"
      BY <2>4 DEF Following
    <3>3. Track(level, p, done + R(k).jumps + 1, ReadItem(R(k)))
      BY <2>2, <3>1, <3>2, FollowStep
    <3> QED
      BY <2>2, <3>1, <3>3
  <2>5. CASE HasEnded(p, R(k)) \/ Refuses(p, R(k))
    <3>1. R(k).state # "reading"
      BY <2>5 DEF HasEnded, Refuses
    <3>2. ReadItem(R(k)) = R(k)
      BY <3>1 DEF ReadItem
    <3> QED
      BY <2>2, <2>5, <3>2 DEF Track
  <2> QED
    BY <2>3, <2>4, <2>5 DEF Track
<1>3. \A k \in Nat : k \in T
  <2> HIDE DEF T
  <2> QED
    BY <1>1, <1>2, Induct
<1>4. Track(level, p, Steps, R(Steps))
  BY <1>3, <1>s
<1>5. ~Following(level, p, Steps, R(Steps))
  <2> SUFFICES ASSUME Following(level, p, Steps, R(Steps)) PROVE FALSE
    OBVIOUS
  <2> DEFINE r == R(Steps)
  <2>1. PICK q \in places, done \in Nat, j \in Nat :
          Upto(level, p, r, q, done, j) /\ Steps = done + r.jumps
    BY DEF Following
  <2>2. r \in Pass
    BY <1>i, <1>p, <1>s, ReadingStep
  <2>3. r.jumps \in Nat
    BY <2>2 DEF Pass
  <2>4. done <= Len(p.name) /\ r.jumps + level[q] <= level[p]
    BY <2>1 DEF Upto
  <2>5. level[q] \in Nat /\ level[q] >= 1
    BY PlaceIs
  <2>6. Len(p.name) <= MaxLabels
    BY <1>p, SpeltIs
  <2> HIDE DEF r
  <2> DEFINE x == r.jumps
             lq == level[q]
             lp == level[p]
  <2>7. /\ x \in Nat /\ lq \in Nat /\ lq >= 1 /\ lp \in Nat /\ lp <= MaxNames /\ x + lq <= lp
        /\ done <= MaxLabels /\ Steps = done + x
    BY <1>p, <1>s, <2>1, <2>3, <2>4, <2>5, <2>6
  <2> HIDE DEF x, lq, lp
  <2> QED
    BY <1>s, <2>7
<1> QED
  BY <1>4, <1>5 DEF Track

\* A name that is all there is read in full, or refused for an octet.
LEMMA ReadHere ==
    ASSUME NamesTyped, Readable, NEW level, Levels(level), NEW p \in places, Here(p)
    PROVE  /\ ParseName(p.at).ok <=> \A k \in DOMAIN p.name : OctetsAllowed(p.name[k])
           /\ ParseName(p.at).ok => /\ ParseName(p.at).end = p.end
                                    /\ ParseName(p.at).text = Text(p.name)
<1> DEFINE r == Reading(p.at)[Steps]
<1>1. HasEnded(p, r) \/ Refuses(p, r)
  BY TrackAll
<1>p. p.name \in Wording /\ DOMAIN p.name = 1..Len(p.name) /\ p.end \in Nat /\ p.end # 0 /\ p.at \in Nat
  BY PlaceIs, WordingIs
<1> HIDE DEF r
<1>2. CASE HasEnded(p, r)
  <2>1. r.state = "ended" /\ r.text = Text(p.name) /\ r.end = p.end
    BY <1>2 DEF HasEnded
  <2>2. FirstEnd(r.end, r.pos) = p.end
    BY <1>p, <2>1 DEF FirstEnd
  <2>3. ParseName(p.at) = [ok |-> TRUE, text |-> Text(p.name), end |-> p.end]
    BY <2>1, <2>2 DEF ParseName, r
  <2>4. \A k \in DOMAIN p.name : OctetsAllowed(p.name[k])
    BY <1>2, <1>p DEF HasEnded
  <2> QED
    BY <2>3, <2>4
<1>3. CASE Refuses(p, r)
  <2>1. r.state = "refused"
    BY <1>3 DEF Refuses
  <2>2. ParseName(p.at) = Unread
    BY <2>1 DEF ParseName, r
  <2>3. \E k \in DOMAIN p.name : ~OctetsAllowed(p.name[k])
    BY <1>3, <1>p DEF Refuses
  <2> QED
    BY <2>2, <2>3 DEF Unread
<1> QED
  BY <1>1, <1>2, <1>3

\* Of a name that was cut there are labels only.
LEMMA CutLabels ==
    ASSUME NamesTyped, NEW level, Levels(level), NEW p \in places, ~Here(p),
           NEW x \in Nat, p.at <= x, x <= Len(items)
    PROVE  items[x].kind = "label"
<1>p. /\ p.at \in Nat \ {0} /\ p.end \in Nat /\ Stretch(p) \in Nat /\ p.end = p.at + Stretch(p) + 1
      /\ Laid(level, p)
  BY PlaceIs DEF Levels
<1>i. Len(items) \in Nat
  BY DEF NamesTyped, ItemsTyped
<1> DEFINE j == x - p.at
<1>1. j \in Nat /\ j < Stretch(p) /\ p.at + j = x
  BY <1>p, <1>i DEF Here
<1> HIDE DEF j
<1>2. items[p.at + j] = LabelItem(p.name[j + 1])
  BY <1>1, <1>p DEF Laid
<1> QED
  BY <1>1, <1>2 DEF LabelItem, Item

LEMMA ReadCut ==
    ASSUME NamesTyped, NEW level, Levels(level), NEW p \in places, ~Here(p)
    PROVE  ParseName(p.at).ok => ParseName(p.at).end > Len(items)
<1> DEFINE R(k) == Reading(p.at)[k]
           Goes(r) == r.state = "refused" \/ (r.state = "reading" /\ r.end = 0 /\ p.at <= r.pos)
           T == {k \in Nat : k <= Steps => Goes(R(k))}
<1>p. p.at \in Nat \ {0}
  BY PlaceIs
<1>i. ItemsTyped /\ Len(items) \in Nat /\ Steps \in Nat
  BY NamesAssumption DEF NamesTyped, ItemsTyped
<1>1. 0 \in T
  <2>1. R(0) = Started(p.at)
    BY <1>i, <1>p, ReadingIs
  <2> QED
    BY <1>p, <2>1 DEF Started
<1>2. ASSUME NEW k \in Nat, k \in T PROVE k + 1 \in T
  <2> SUFFICES ASSUME k + 1 <= Steps PROVE Goes(R(k + 1))
    OBVIOUS
  <2>1. k <= Steps
    BY <1>i
  <2> DEFINE r == R(k)
  <2>2. r \in Pass /\ R(k + 1) = ReadItem(r)
    BY <1>i, <1>p, <2>1, ReadingStep
  <2>3. Goes(r)
    BY <1>2, <2>1
  <2> HIDE DEF R, r
  <2>4. r.pos \in Nat /\ r.jumps \in Nat
    BY <2>2 DEF Pass
  <2>5. CASE ~(r.state = "reading" /\ r.pos <= Len(items))
    <3>1. ReadItem(r) = r
      BY <2>5 DEF ReadItem
    <3> QED
      BY <2>2, <2>3, <3>1
  <2>6. CASE r.state = "reading" /\ r.pos <= Len(items)
    <3>1. items[r.pos].kind = "label"
      BY <2>3, <2>4, <2>6, CutLabels
    <3> DEFINE item == items[r.pos]
               size == r.size + Len(item.label) + 1
               refused == \/ r.jumps > Jumps \/ item.kind = "rest"
                          \/ item.kind # "pointer" /\ size > Octets
                          \/ item.kind = "label" /\ ~OctetsAllowed(item.label)
    <3>2. CASE refused
      <4>1. ReadItem(r) = [r EXCEPT !.state = "refused"]
        BY <2>6, <3>2 DEF ReadItem
      <4>2. ReadItem(r).state = "refused"
        BY <2>2, <4>1 DEF Pass
      <4>3. Goes(ReadItem(r))
        BY <4>2
      <4> HIDE DEF Goes
      <4> QED
        BY <2>2, <4>3
    <3>3. CASE ~refused
      <4>1. ReadItem(r) = [r EXCEPT !.pos = @ + 1, !.size = size, !.text = Joined(@, item.label)]
        BY <2>6, <3>1, <3>3 DEF ReadItem
      <4> HIDE DEF size, item
      <4>2. ReadItem(r).state = "reading" /\ ReadItem(r).end = r.end /\ ReadItem(r).pos = r.pos + 1
        BY <2>2, <2>6, <4>1 DEF Pass
      <4> QED
        BY <1>p, <2>2, <2>3, <2>4, <2>6, <4>2
    <3> QED
      BY <3>2, <3>3
  <2> QED
    BY <2>5, <2>6
<1>3. \A k \in Nat : k \in T
  <2> HIDE DEF T
  <2> QED
    BY <1>1, <1>2, Induct
<1> DEFINE r == R(Steps)
<1>4. Goes(r) /\ r \in Pass
  BY <1>3, <1>i, <1>p, ReadingStep
<1> HIDE DEF r
<1>5. CASE r.state = "refused"
  <2>1. ParseName(p.at) = Unread
    BY <1>5 DEF ParseName, r
  <2> QED
    BY <2>1 DEF Unread
<1>6. CASE r.state = "reading" /\ r.end = 0
  <2>1. CASE r.pos > Len(items)
    <3>1. ParseName(p.at) = [ok |-> TRUE, text |-> r.text, end |-> r.pos]
      BY <1>6, <2>1 DEF ParseName, FirstEnd, r
    <3> QED
      BY <2>1, <3>1
  <2>2. CASE ~(r.pos > Len(items))
    <3>1. ParseName(p.at) = Unread
      BY <1>6, <2>2 DEF ParseName, r
    <3> QED
      BY <3>1 DEF Unread
  <2> QED
    BY <2>1, <2>2
<1> QED
  BY <1>4, <1>5, <1>6

LEMMA SkipHere ==
    ASSUME NamesTyped, Readable, NEW level, Levels(level), NEW p \in places, Here(p)
    PROVE  SkipName(p.at) = p.end
<1> DEFINE e == p.end - 1
           ends == {x \in p.at..Len(items) :
                       /\ \A q \in p.at..(x - 1) : items[q].kind = "label"
                       /\ items[x].kind \in {"pointer", "end"} /\ x - p.at < Steps}
<1>p. /\ p.at \in Nat \ {0} /\ p.end \in Nat /\ Stretch(p) \in Nat /\ p.end = p.at + Stretch(p) + 1
      /\ Stretch(p) <= Len(p.name) /\ p.name \in Spelt /\ Len(p.name) \in Nat
      /\ Laid(level, p)
  BY PlaceIs DEF Levels
<1>i. Len(items) \in Nat
  BY DEF NamesTyped, ItemsTyped
<1>s. Stretch(p) < Steps
  <2>1. Steps \in Nat /\ MaxLabels \in Nat /\ MaxNames \in Nat /\ MaxLabels + MaxNames <= Steps
    BY NamesAssumption DEF Readable
  <2>2. Len(p.name) <= MaxLabels
    BY <1>p, SpeltIs
  <2>3. MaxNames >= 1
    <3>1. level[p] \in Nat /\ level[p] >= 1 /\ level[p] <= MaxNames
      BY PlaceIs
    <3> QED
      BY <2>1, <3>1
  <2> QED
    BY <1>p, <2>1, <2>2, <2>3
<1>e. e \in p.at..Len(items) /\ e = p.at + Stretch(p)
  BY <1>p, <1>i DEF Here
<1>1. ASSUME NEW x \in Nat, p.at <= x, x < e PROVE items[x].kind = "label"
  <2> DEFINE j == x - p.at
  <2>1. j \in Nat /\ j < Stretch(p) /\ p.at + j = x /\ x <= Len(items)
    BY <1>1, <1>e, <1>p, <1>i
  <2> HIDE DEF j
  <2>2. items[p.at + j] = LabelItem(p.name[j + 1])
    BY <2>1, <1>p DEF Laid
  <2> QED
    BY <2>1, <2>2 DEF LabelItem, Item
<1>2. items[e].kind \in {"pointer", "end"}
  <2>1. e <= Len(items)
    BY <1>e, <1>i, <1>p
  <2>2. items[e] = RootItem \/ \E q \in places : items[e] = PointerTo(q.at)
    BY <1>p, <2>1 DEF Laid
  <2> QED
    <3>1. RootItem.kind = "end" /\ \A to : PointerTo(to).kind = "pointer"
      BY DEF RootItem, PointerTo, Item
    <3> QED
      BY <2>2, <3>1
<1>3. e \in ends
  <2>1. \A q \in p.at..(e - 1) : items[q].kind = "label"
    <3> TAKE q \in p.at..(e - 1)
    <3>1. q \in Nat /\ p.at <= q /\ q < e
      BY <1>e, <1>p
    <3> QED
      BY <1>1, <3>1
  <2>2. e - p.at < Steps
    BY <1>e, <1>p, <1>s
  <2> QED
    BY <1>2, <1>e, <2>1, <2>2
<1>4. ASSUME NEW x \in ends PROVE x = e
  <2>1. /\ x \in Nat /\ p.at <= x /\ items[x].kind # "label"
        /\ \A q \in p.at..(x - 1) : items[q].kind = "label"
    BY <1>4, <1>p
  <2>2. ~(x < e)
    BY <1>1, <2>1
  <2>3. ~(e < x)
    <3> SUFFICES ASSUME e < x PROVE FALSE
      OBVIOUS
    <3>1. e \in p.at..(x - 1)
      BY <1>e, <1>p, <2>1
    <3>2. items[e].kind = "label"
      BY <2>1, <3>1
    <3> QED
      BY <1>2, <3>2
  <2> QED
    BY <1>e, <1>p, <2>1, <2>2, <2>3
<1> DEFINE f == CHOOSE x \in ends : TRUE
<1>5. SkipName(p.at) = IF ends = {} THEN 0 ELSE f + 1
  BY DEF SkipName
<1> HIDE DEF ends
<1>6. f = e
  BY <1>3, <1>4
<1> HIDE DEF f
<1>7. ends # {}
  BY <1>3
<1> QED
  BY <1>5, <1>6, <1>7, <1>p

LEMMA SkipCut ==
    ASSUME NamesTyped, NEW level, Levels(level), NEW p \in places, ~Here(p)
    PROVE  SkipName(p.at) = 0
<1> DEFINE ends == {x \in p.at..Len(items) :
                       /\ \A q \in p.at..(x - 1) : items[q].kind = "label"
                       /\ items[x].kind \in {"pointer", "end"} /\ x - p.at < Steps}
<1>1. p.at \in Nat /\ Len(items) \in Nat
  BY PlaceIs DEF NamesTyped, ItemsTyped
<1>2. ASSUME NEW x \in ends PROVE FALSE
  <2>1. x \in Nat /\ p.at <= x /\ x <= Len(items) /\ items[x].kind \in {"pointer", "end"}
    BY <1>1, <1>2
  <2>2. items[x].kind = "label"
    BY <2>1, CutLabels
  <2> QED
    BY <2>1, <2>2
<1>3. ends = {}
  <2> HIDE DEF ends
  <2> QED
    BY <1>2
<1> QED
  BY <1>3 DEF SkipName

NamesInv == NamesTyped /\ (\E level : Levels(level)) /\ Uncut

LEMMA NamesInvKept ==
    ASSUME NamesInv, Readable
    PROVE  NamesKept
<1>1. PICK level : Levels(level)
  BY DEF NamesInv
<1>t. NamesTyped
  BY DEF NamesInv
<1>2. ASSUME NEW p \in places, Here(p)
      PROVE  /\ SkipName(p.at) = p.end
             /\ ParseName(p.at).ok <=> \A k \in DOMAIN p.name : OctetsAllowed(p.name[k])
             /\ ParseName(p.at).ok => /\ ParseName(p.at).end = p.end
                                      /\ ParseName(p.at).text = Text(p.name)
                                      /\ QueryLabels(ParseName(p.at).text) = Lower(p.name)
  <2>1. Tidy(p.name)
    BY <1>1, <1>t, PlaceIs, SpeltIs
  <2>2. QueryLabels(Text(p.name)) = Lower(p.name)
    BY <2>1, TextReturns
  <2>3. SkipName(p.at) = p.end
    BY <1>1, <1>2, <1>t, SkipHere
  <2>4. /\ ParseName(p.at).ok <=> \A k \in DOMAIN p.name : OctetsAllowed(p.name[k])
        /\ ParseName(p.at).ok => /\ ParseName(p.at).end = p.end
                                 /\ ParseName(p.at).text = Text(p.name)
    BY <1>1, <1>2, <1>t, ReadHere
  <2> QED
    BY <2>2, <2>3, <2>4
<1>3. ASSUME NEW p \in places, ~Here(p)
      PROVE  SkipName(p.at) = 0 /\ (ParseName(p.at).ok => ParseName(p.at).end > Len(items))
  BY <1>1, <1>3, <1>t, SkipCut, ReadCut
<1> QED
  BY <1>2, <1>3 DEF NamesKept

---------------------------------------------------------------------------
(* The invariant is kept.                                                  *)

LEMMA EndingSpelt ==
    ASSUME NEW n \in Spelt, NEW i \in 0..Len(n)
    PROVE  Ending(n, i) \in Spelt
<1> DEFINE e == Ending(n, i)
<1>1. /\ n \in Wording /\ Len(n) \in Nat /\ Len(n) <= MaxLabels /\ MaxLabels \in Nat /\ Octets \in Nat
      /\ \A x \in 1..Len(n) : n[x] \in Spelling
      /\ Sizes(n)[Len(n)] + 1 <= Octets
  BY SpeltIs, NamesAssumption
<1>2. /\ e \in Wording /\ Len(e) = Len(n) - i /\ \A x \in 1..(Len(n) - i) : e[x] = n[i + x]
      /\ \A x \in 0..(Len(n) - i) : Sizes(n)[i + x] = Sizes(n)[i] + Sizes(e)[x]
  BY <1>1, SizesOfEnding
<1> DEFINE k == Len(n) - i
<1>3. k \in 0..MaxLabels /\ k \in 0..k /\ i + k = Len(n) /\ Len(e) = k /\ k \in Nat
  BY <1>1, <1>2
<1>4. Sizes(e)[k] + 1 <= Octets
  <2>1. Sizes(n)[i + k] = Sizes(n)[i] + Sizes(e)[k]
    BY <1>2, <1>3
  <2>2. Sizes(n)[i] \in Nat /\ Sizes(e)[k] \in Nat
    <3>1. Sizes(n)[i] \in Nat
      BY <1>1, SizesIs
    <3>2. k \in 0..Len(e)
      BY <1>3
    <3>3. Sizes(e)[k] \in Nat
      BY <1>2, <3>2, SizesIs
    <3> QED
      BY <3>1, <3>3
  <2> QED
    BY <1>1, <1>3, <2>1, <2>2
<1>5. e \in [1..k -> Spelling]
  <2>1. e \in [1..Len(e) -> Seq(Octet)]
    BY <1>2 DEF Wording
  <2>2. \A x \in 1..k : e[x] = n[i + x] /\ i + x \in 1..Len(n)
    BY <1>1, <1>2
  <2>3. \A x \in 1..k : e[x] \in Spelling
    BY <1>1, <2>2
  <2> HIDE DEF e, k
  <2> QED
    BY <1>3, <2>1, <2>3
<1>6. e \in {x \in UNION {[1..y -> Spelling] : y \in 0..MaxLabels} : Sizes(x)[Len(x)] + 1 <= Octets}
  <2> HIDE DEF e, k
  <2> QED
    BY <1>3, <1>4, <1>5
<1> QED
  BY <1>6 DEF Spelt

LEMMA EndingOfEnding ==
    ASSUME NEW n \in Wording, NEW i \in 0..Len(n), NEW j \in Nat, i + j <= Len(n)
    PROVE  Ending(Ending(n, i), j) = Ending(n, i + j)
<1> DEFINE e == Ending(n, i)
           k == i + j
<1>0. Len(n) \in Nat /\ k \in 0..Len(n) /\ j \in 0..(Len(n) - i)
  BY WordingIs
<1>1. /\ e \in Wording /\ Len(e) = Len(n) - i /\ \A x \in 1..(Len(n) - i) : e[x] = n[i + x]
  BY SizesOfEnding
<1> HIDE DEF e
<1>2. /\ Ending(e, j) \in Wording /\ Len(Ending(e, j)) = Len(e) - j
      /\ \A x \in 1..(Len(e) - j) : Ending(e, j)[x] = e[j + x]
  <2>1. j \in 0..Len(e)
    BY <1>0, <1>1
  <2> QED
    BY <1>1, <2>1, SizesOfEnding
<1>3. /\ Ending(n, k) \in Wording /\ Len(Ending(n, k)) = Len(n) - k
      /\ \A x \in 1..(Len(n) - k) : Ending(n, k)[x] = n[k + x]
  <2> HIDE DEF k
  <2> QED
    BY <1>0, SizesOfEnding
<1>4. Len(e) - j = Len(n) - k
  BY <1>0, <1>1
<1>5. \A x \in 1..(Len(n) - k) : e[j + x] = n[k + x]
  <2> TAKE x \in 1..(Len(n) - k)
  <2>1. j + x \in 1..(Len(n) - i) /\ i + (j + x) = k + x
    BY <1>0
  <2>2. e[j + x] = n[i + (j + x)]
    BY <1>1, <2>1
  <2> QED
    BY <2>1, <2>2
<1> HIDE DEF k
<1>6. \A x \in 1..Len(Ending(n, k)) : Ending(e, j)[x] = Ending(n, k)[x]
  BY <1>2, <1>3, <1>4, <1>5
<1>7. Ending(e, j) = Ending(n, k)
  BY <1>2, <1>3, <1>4, <1>6, SeqEqual DEF Wording
<1> QED
  BY <1>7 DEF e, k

LEMMA ItemsOfNames ==
    /\ RestItem \in MessageItem /\ RestItem.kind # "pointer"
    /\ RootItem \in MessageItem /\ RootItem.kind # "pointer" /\ RootItem # RestItem
    /\ \A l \in Spelling : LabelItem(l) \in MessageItem /\ LabelItem(l).kind # "pointer"
    /\ \A to \in Nat : PointerTo(to) \in MessageItem /\ PointerTo(to).to = to
BY DEF RestItem, RootItem, LabelItem, PointerTo, Item, MessageItem

LEMMA NamesStart ==
    ASSUME NamesInit
    PROVE  NamesInv
<1>0. items = <<RestItem>> /\ places = {} /\ names = 0 /\ strict \in BOOLEAN /\ MaxNames \in Nat
  BY NamesAssumption DEF NamesInit
<1>1. items \in Seq(MessageItem) /\ Len(items) = 1 /\ items[1] = RestItem
  BY <1>0, ItemsOfNames
<1>2. ItemsTyped
  <2>1. \A i \in 1..Len(items) : items[i] = RestItem
    BY <1>1
  <2> QED
    BY <1>1, <2>1, ItemsOfNames DEF ItemsTyped
<1>3. NamesTyped
  BY <1>0, <1>2 DEF NamesTyped
<1>4. Levels([p \in {} |-> 0])
  BY <1>0 DEF Levels
<1>5. Uncut
  BY <1>0, <1>1 DEF Uncut
<1> QED
  BY <1>3, <1>4, <1>5 DEF NamesInv

\* The message, when a name was written.
Extended(n, k, tail) == items \o [i \in 1..k |-> LabelItem(n[i])] \o <<tail, RestItem>>
Extends(more, n, k, tail) ==
    /\ more \in Seq(MessageItem) /\ Len(more) = Len(items) + k + 2
    /\ \A x \in 1..Len(items) : more[x] = items[x]
    /\ \A x \in 1..k : more[Len(items) + x] = LabelItem(n[x])
    /\ more[Len(items) + k + 1] = tail /\ more[Len(items) + k + 2] = RestItem
    /\ \A x \in 1..Len(more) : more[x].kind = "pointer" => more[x].to # 0

LEMMA SpeltItems ==
    ASSUME ItemsTyped, NEW n \in Spelt, NEW k \in 0..Len(n), NEW tail \in MessageItem,
           tail.kind = "pointer" => tail.to # 0,
           NEW more, more = Extended(n, k, tail)
    PROVE  Extends(more, n, k, tail)
<1> DEFINE labels == [i \in 1..k |-> LabelItem(n[i])]
           last == <<tail, RestItem>>
           b == items \o labels
           z == Len(items)
<1>0. z \in Nat /\ items \in Seq(MessageItem) /\ k \in Nat
  BY SpeltIs DEF ItemsTyped
<1>1. \A i \in 1..k : LabelItem(n[i]) \in MessageItem /\ LabelItem(n[i]).kind # "pointer"
  <2>1. \A i \in 1..k : n[i] \in Spelling
    BY SpeltIs
  <2> QED
    BY <2>1, ItemsOfNames
<1>2. labels \in Seq(MessageItem) /\ Len(labels) = k /\ \A i \in 1..k : labels[i] = LabelItem(n[i])
  BY <1>0, <1>1
<1>3. last \in Seq(MessageItem) /\ Len(last) = 2 /\ last[1] = tail /\ last[2] = RestItem
  BY ItemsOfNames
<1> HIDE DEF labels, last
<1>4. /\ b \in Seq(MessageItem) /\ Len(b) = z + k
      /\ \A i \in 1..(z + k) : b[i] = IF i <= z THEN items[i] ELSE labels[i - z]
  BY <1>0, <1>2, ConcatProperties
<1>5. more = b \o last
  BY DEF labels, last, Extended
<1> HIDE DEF b, z
<1> DEFINE w == z + k
<1>w. w \in Nat /\ Len(b) = w
  BY <1>0, <1>4
<1> HIDE DEF w
<1>6. /\ more \in Seq(MessageItem) /\ Len(more) = w + 2
      /\ \A i \in 1..(w + 2) : more[i] = IF i <= w THEN b[i] ELSE last[i - w]
  <2>1. /\ b \o last \in Seq(MessageItem) /\ Len(b \o last) = Len(b) + Len(last)
        /\ \A i \in 1..(Len(b) + Len(last)) :
              (b \o last)[i] = IF i <= Len(b) THEN b[i] ELSE last[i - Len(b)]
    BY <1>3, <1>4, ConcatProperties
  <2> QED
    BY <1>3, <1>5, <1>w, <2>1
<1>7. \A x \in 1..z : more[x] = items[x]
  <2> TAKE x \in 1..z
  <2>1. x \in 1..(z + k) /\ x \in 1..(w + 2) /\ x <= z /\ x <= w
    BY <1>0 DEF w
  <2> QED
    BY <1>4, <1>6, <2>1
<1>8. \A x \in 1..k : more[z + x] = LabelItem(n[x])
  <2> TAKE x \in 1..k
  <2> DEFINE y == z + x
  <2>1. y \in 1..(z + k) /\ y \in 1..(w + 2) /\ ~(y <= z) /\ y <= w /\ y - z = x
    BY <1>0 DEF w
  <2> HIDE DEF y
  <2>2. more[y] = b[y] /\ b[y] = labels[x]
    BY <1>4, <1>6, <2>1
  <2> QED
    BY <1>2, <2>2 DEF y
<1>9. more[w + 1] = tail /\ more[w + 2] = RestItem
  <2>1. more[w + 1] = last[1] /\ more[w + 2] = last[2]
    <3> DEFINE x == w + 1
               y == w + 2
    <3>1. x \in 1..(w + 2) /\ ~(x <= w) /\ x - w = 1 /\ y \in 1..(w + 2) /\ ~(y <= w) /\ y - w = 2
      BY <1>w
    <3> HIDE DEF x, y
    <3>2. more[x] = last[1] /\ more[y] = last[2]
      BY <1>6, <3>1
    <3> QED
      BY <3>2 DEF x, y
  <2> QED
    BY <1>3, <2>1
<1>10. \A x \in 1..Len(more) : more[x].kind = "pointer" => more[x].to # 0
  <2> TAKE x \in 1..Len(more)
  <2>1. CASE x <= z
    <3>1. x \in 1..z
      BY <1>0, <2>1
    <3>2. more[x] = items[x] /\ (items[x].kind = "pointer" => items[x].to # 0)
      BY <1>7, <3>1 DEF ItemsTyped, z
    <3> QED
      BY <3>2
  <2>2. CASE x > z /\ x <= w
    <3> DEFINE y == x - z
    <3>1. y \in 1..k /\ z + y = x
      BY <1>0, <1>6, <2>2 DEF w
    <3> HIDE DEF y
    <3>2. more[z + y] = LabelItem(n[y])
      BY <1>8, <3>1
    <3> QED
      BY <1>1, <3>1, <3>2
  <2>3. CASE x = w + 1
    BY <1>9, <2>3
  <2>4. CASE x = w + 2
    BY <1>9, <2>4, ItemsOfNames
  <2> QED
    BY <1>0, <1>6, <1>w, <2>1, <2>2, <2>3, <2>4
<1>11. w + 2 = Len(items) + k + 2 /\ w + 1 = Len(items) + k + 1
  BY DEF w, z
<1> QED
  BY <1>6, <1>7, <1>8, <1>9, <1>10, <1>11 DEF z, Extends

LEMMA SpellKept ==
    ASSUME NamesInv, NEW n \in Spelt, NEW k \in 0..Len(n), NEW tail,
           items[Len(items)] = RestItem, Spell(n, k, tail),
           \/ k = Len(n) /\ tail = RootItem
           \/ \E q \in places : tail = PointerTo(q.at) /\ q.name = Ending(n, k)
    PROVE  NamesInv'
<1> DEFINE z == Len(items)
           new(i) == [name |-> Ending(n, i), at |-> z + 1 + i, end |-> z + k + 2]
<1>1. PICK level : Levels(level)
  BY DEF NamesInv
<1>t. NamesTyped /\ ItemsTyped /\ Uncut
  BY DEF NamesInv, NamesTyped
<1>n. /\ n \in Wording /\ Len(n) \in Nat /\ k \in Nat /\ k <= Len(n) /\ z \in Nat
      /\ \A i \in 0..k : Ending(n, i) \in Spelt
  <2>1. n \in Wording /\ Len(n) \in Nat
    BY SpeltIs
  <2>2. \A i \in 0..k : i \in 0..Len(n)
    BY <2>1
  <2> QED
    BY <1>t, <2>1, <2>2, EndingSpelt DEF ItemsTyped
<1>s. /\ names < MaxNames /\ names' = names + 1 /\ strict' = strict
      /\ items' = items \o [i \in 1..k |-> LabelItem(n[i])] \o <<tail, RestItem>>
      /\ places' = places \cup {new(i) : i \in 0..k}
  <2>1. \A i \in 0..k : Len(items) + 1 + i = z + 1 + i /\ Len(items) + 1 + k + 1 = z + k + 2
    BY <1>n
  <2> QED
    BY <2>1 DEF Spell
<1>m. names \in Nat /\ names' \in 0..MaxNames /\ MaxNames \in Nat
  BY <1>s, <1>t, NamesAssumption DEF NamesTyped
<1>p. \A p \in places : /\ p.at \in Nat \ {0} /\ p.end \in Nat /\ p.at < p.end /\ p.end <= z
                        /\ Stretch(p) \in Nat /\ p.end = p.at + Stretch(p) + 1
                        /\ level[p] \in 1..names /\ Laid(level, p)
  BY <1>1, <1>t, PlaceIs DEF Levels, Uncut
<1>l. tail \in MessageItem /\ (tail.kind = "pointer" => tail.to # 0)
  <2>1. ASSUME NEW q \in places, tail = PointerTo(q.at)
        PROVE  tail \in MessageItem /\ tail.to # 0
    <3>1. q.at \in Nat \ {0}
      BY <1>p
    <3> QED
      BY <2>1, <3>1, ItemsOfNames
  <2> QED
    BY <2>1, ItemsOfNames
<1>2. /\ items' \in Seq(MessageItem) /\ Len(items') = z + k + 2
      /\ \A x \in 1..z : items'[x] = items[x]
      /\ \A x \in 1..k : items'[z + x] = LabelItem(n[x])
      /\ items'[z + k + 1] = tail /\ items'[z + k + 2] = RestItem
      /\ \A x \in 1..Len(items') : items'[x].kind = "pointer" => items'[x].to # 0
  <2> DEFINE more == items'
  <2>1. more = Extended(n, k, tail)
    BY <1>s DEF Extended
  <2>2. ItemsTyped /\ tail \in MessageItem /\ (tail.kind = "pointer" => tail.to # 0)
    BY <1>l, <1>t
  <2> HIDE DEF more
  <2>3. Extends(more, n, k, tail)
    BY <2>1, <2>2, SpeltItems
  <2> QED
    BY <2>3 DEF more, Extends
<1>3. ItemsTyped'
  BY <1>2 DEF ItemsTyped
<1>a. ASSUME NEW i \in 0..k
      PROVE  /\ new(i).name = Ending(n, i) /\ new(i).at = z + 1 + i /\ new(i).end = z + k + 2
             /\ new(i) \notin places
  <2>1. new(i).end = z + k + 2
    OBVIOUS
  <2>2. new(i) \notin places
    BY <1>n, <1>p, <2>1
  <2> QED
    BY <2>2
<1> HIDE DEF new
<1>4. NamesTyped'
  <2>1. ASSUME NEW p \in places'
        PROVE  p.name \in Spelt /\ p.at \in Nat \ {0} /\ p.end \in Nat
    <3>1. CASE p \in places
      BY <1>t, <3>1 DEF NamesTyped
    <3>2. ASSUME NEW i \in 0..k, p = new(i)
          PROVE  p.name \in Spelt /\ p.at \in Nat \ {0} /\ p.end \in Nat
      BY <1>a, <1>n, <3>2
    <3> QED
      BY <1>s, <3>1, <3>2
  <2> QED
    BY <1>3, <1>m, <1>s, <1>t, <2>1 DEF NamesTyped
<1>5. Uncut'
  <2>1. \A p \in places' : p.end <= Len(items')
    <3> TAKE p \in places'
    <3>1. CASE p \in places
      BY <1>2, <1>n, <1>p, <3>1
    <3>2. ASSUME NEW i \in 0..k, p = new(i) PROVE p.end <= Len(items')
      BY <1>2, <1>a, <1>n, <3>2
    <3> QED
      BY <1>s, <3>1, <3>2
  <2>2. items' # <<>>
    BY <1>2, <1>n
  <2> QED
    BY <2>1, <2>2 DEF Uncut
<1>6. PICK up : up = [p \in places' |-> IF p \in places THEN level[p] ELSE names + 1]
  OBVIOUS
<1>7. /\ \A p \in places : p \in places' /\ up[p] = level[p]
      /\ \A i \in 0..k : new(i) \in places' /\ up[new(i)] = names + 1
  BY <1>6, <1>a, <1>s
<1>8. up \in [places' -> 1..names']
  <2>1. \A p \in places' : (IF p \in places THEN level[p] ELSE names + 1) \in 1..names'
    BY <1>m, <1>p, <1>s
  <2> QED
    BY <1>6, <2>1
<1>9. ASSUME NEW p \in places PROVE Laid(up, p)'
  <2>1. /\ p.at \in Nat \ {0} /\ p.end \in Nat /\ p.at < p.end /\ p.end <= z
        /\ Stretch(p) \in Nat /\ p.end = p.at + Stretch(p) + 1
    BY <1>p
  <2>2. /\ Stretch(p) <= Len(p.name)
        /\ \A j \in Nat : j < Stretch(p) /\ p.at + j <= z => items[p.at + j] = LabelItem(p.name[j + 1])
        /\ \/ Stretch(p) = Len(p.name) /\ items[p.end - 1] = RootItem
           \/ \E q \in places : /\ items[p.end - 1] = PointerTo(q.at)
                                /\ q.name = Ending(p.name, Stretch(p))
                                /\ q.end <= p.at /\ level[q] < level[p]
    <3>1. Laid(level, p) /\ p.end - 1 <= z
      BY <1>n, <1>p, <2>1
    <3> QED
      BY <3>1 DEF Laid
  <2>3. \A j \in Nat : j < Stretch(p) => items'[p.at + j] = LabelItem(p.name[j + 1])
    <3> TAKE j \in Nat
    <3> SUFFICES ASSUME j < Stretch(p) PROVE items'[p.at + j] = LabelItem(p.name[j + 1])
      OBVIOUS
    <3>1. p.at + j \in 1..z /\ p.at + j <= z
      BY <1>n, <2>1
    <3> QED
      BY <1>2, <2>2, <3>1
  <2>4. items'[p.end - 1] = items[p.end - 1]
    <3>1. p.end - 1 \in 1..z
      BY <1>n, <2>1
    <3> QED
      BY <1>2, <3>1
  <2>5. \/ Stretch(p) = Len(p.name) /\ items'[p.end - 1] = RootItem
        \/ \E q \in places' : /\ items'[p.end - 1] = PointerTo(q.at)
                              /\ q.name = Ending(p.name, Stretch(p))
                              /\ q.end <= p.at /\ up[q] < up[p]
    <3>1. CASE Stretch(p) = Len(p.name) /\ items[p.end - 1] = RootItem
      BY <2>4, <3>1
    <3>2. ASSUME NEW q \in places, items[p.end - 1] = PointerTo(q.at),
                 q.name = Ending(p.name, Stretch(p)), q.end <= p.at, level[q] < level[p]
          PROVE  \E u \in places' : /\ items'[p.end - 1] = PointerTo(u.at)
                                    /\ u.name = Ending(p.name, Stretch(p))
                                    /\ u.end <= p.at /\ up[u] < up[p]
      <4>1. q \in places' /\ up[q] < up[p]
        BY <1>7, <3>2
      <4> QED
        BY <2>4, <3>2, <4>1
    <3> QED
      BY <2>2, <3>1, <3>2
  <2> QED
    BY <2>1, <2>2, <2>3, <2>5 DEF Laid
<1>10. ASSUME NEW i \in 0..k, NEW p, p = new(i) PROVE Laid(up, p)'
  <2> DEFINE e == Ending(n, i)
  <2>0. i \in Nat /\ i <= k /\ i \in 0..Len(n)
    BY <1>n
  <2>1. p = new(i)
    BY <1>10
  <2>2. p.name = e /\ p.at = z + 1 + i /\ p.end = z + k + 2 /\ p \in places'
    BY <1>7, <1>a, <2>1
  <2>3. Stretch(p) = k - i /\ k - i \in Nat /\ p.at < p.end /\ p.end - 1 = z + k + 1
    BY <1>n, <2>0, <2>2 DEF Stretch
  <2>4. Len(e) = Len(n) - i /\ \A x \in 1..(Len(n) - i) : e[x] = n[i + x]
    BY <1>n, <2>0, SizesOfEnding
  <2>5. Stretch(p) <= Len(p.name)
    BY <1>n, <2>0, <2>2, <2>3, <2>4
  <2>6. \A j \in Nat : j < Stretch(p) => items'[p.at + j] = LabelItem(p.name[j + 1])
    <3> TAKE j \in Nat
    <3> SUFFICES ASSUME j < Stretch(p) PROVE items'[p.at + j] = LabelItem(p.name[j + 1])
      OBVIOUS
    <3>1. /\ j + 1 \in 1..(Len(n) - i) /\ i + (j + 1) \in 1..k
          /\ p.at + j = z + (i + (j + 1))
      BY <1>n, <2>0, <2>2, <2>3
    <3>2. items'[z + (i + (j + 1))] = LabelItem(n[i + (j + 1)])
      BY <1>2, <3>1
    <3>3. p.name[j + 1] = n[i + (j + 1)]
      BY <2>2, <2>4, <3>1
    <3> QED
      BY <3>1, <3>2, <3>3
  <2>7. \/ Stretch(p) = Len(p.name) /\ items'[p.end - 1] = RootItem
        \/ \E q \in places' : /\ items'[p.end - 1] = PointerTo(q.at)
                              /\ q.name = Ending(p.name, Stretch(p))
                              /\ q.end <= p.at /\ up[q] < up[p]
    <3>1. items'[p.end - 1] = tail
      BY <1>2, <2>3
    <3>2. CASE k = Len(n) /\ tail = RootItem
      BY <2>2, <2>3, <2>4, <3>1, <3>2
    <3>3. ASSUME NEW q \in places, tail = PointerTo(q.at), q.name = Ending(n, k)
          PROVE  \E u \in places' : /\ items'[p.end - 1] = PointerTo(u.at)
                                    /\ u.name = Ending(p.name, Stretch(p))
                                    /\ u.end <= p.at /\ up[u] < up[p]
      <4>1. q \in places' /\ up[q] < up[p]
        <5>1. up[q] = level[q] /\ level[q] \in 1..names /\ up[p] = names + 1 /\ q \in places'
          BY <1>7, <1>p, <2>1
        <5> QED
          BY <1>m, <5>1
      <4>2. q.end <= p.at
        BY <1>n, <1>p, <2>0, <2>2
      <4>3. Ending(e, k - i) = Ending(n, k)
        <5>1. i + (k - i) = k /\ k - i \in Nat
          BY <1>n, <2>0
        <5>2. Ending(Ending(n, i), k - i) = Ending(n, i + (k - i))
          BY <1>n, <2>0, <5>1, EndingOfEnding
        <5> QED
          BY <5>1, <5>2
      <4> QED
        BY <2>2, <2>3, <3>1, <3>3, <4>1, <4>2, <4>3
    <3> QED
      BY <3>2, <3>3
  <2> QED
    BY <2>3, <2>5, <2>6, <2>7 DEF Laid
<1>11. Levels(up)'
  <2>1. \A p \in places' : Laid(up, p)'
    BY <1>9, <1>10, <1>s
  <2> QED
    BY <1>8, <2>1 DEF Levels
<1> QED
  BY <1>4, <1>5, <1>11 DEF NamesInv

LEMMA CutKept ==
    ASSUME NamesInv, NEW at, CutMessage(at)
    PROVE  NamesInv'
<1>1. PICK level : Levels(level)
  BY DEF NamesInv
<1>t. NamesTyped /\ ItemsTyped /\ Len(items) \in Nat
  BY DEF NamesInv, NamesTyped, ItemsTyped
<1>c. /\ at \in 1..(Len(items) - 1) /\ items[at] # RestItem /\ items' = SubSeq(items, 1, at)
      /\ places' = places /\ names' = names /\ strict' = strict
  BY DEF CutMessage
<1>2. /\ items' \in Seq(MessageItem) /\ Len(items') = at
      /\ \A x \in 1..at : items'[x] = items[x] /\ x \in 1..Len(items)
  <2>1. /\ SubSeq(items, 1, at) \in Seq(MessageItem) /\ Len(SubSeq(items, 1, at)) = at
        /\ \A x \in 1..at : SubSeq(items, 1, at)[x] = items[x]
    <3>1. \A x \in 1..at : items[x] \in MessageItem
      BY <1>c, <1>t DEF ItemsTyped
    <3>2. \A x \in 1..at : x \in 1..(at - 1 + 1) /\ 1 + x - 1 = x
      BY <1>c
    <3> QED
      BY <1>c, <3>1, <3>2, SubSeqProperties
  <2> QED
    BY <1>c, <1>t, <2>1
<1>3. NamesTyped'
  BY <1>2, <1>c, <1>t DEF NamesTyped, ItemsTyped
<1>4. Uncut'
  <2>1. items' # <<>> /\ items'[Len(items')] # RestItem
    BY <1>2, <1>c
  <2> QED
    BY <2>1 DEF Uncut
<1>5. ASSUME NEW p \in places PROVE Laid(level, p)'
  <2>1. /\ p.at \in Nat \ {0} /\ p.end \in Nat /\ p.at < p.end /\ Stretch(p) <= Len(p.name)
        /\ Stretch(p) \in Nat /\ p.end = p.at + Stretch(p) + 1
        /\ Laid(level, p)
    BY <1>1, <1>t, PlaceIs DEF Levels
  <2>2. \A j \in Nat : j < Stretch(p) /\ p.at + j <= Len(items') =>
           items'[p.at + j] = LabelItem(p.name[j + 1])
    <3> TAKE j \in Nat
    <3> SUFFICES ASSUME j < Stretch(p), p.at + j <= Len(items')
                 PROVE  items'[p.at + j] = LabelItem(p.name[j + 1])
      OBVIOUS
    <3>1. p.at + j \in 1..at /\ p.at + j <= Len(items)
      BY <1>2, <1>c, <1>t, <2>1
    <3>2. items[p.at + j] = LabelItem(p.name[j + 1])
      BY <2>1, <3>1 DEF Laid
    <3> QED
      BY <1>2, <3>1, <3>2
  <2>3. ASSUME p.end - 1 <= Len(items')
        PROVE  \/ Stretch(p) = Len(p.name) /\ items'[p.end - 1] = RootItem
               \/ \E q \in places : /\ items'[p.end - 1] = PointerTo(q.at)
                                    /\ q.name = Ending(p.name, Stretch(p))
                                    /\ q.end <= p.at /\ level[q] < level[p]
    <3>1. p.end - 1 \in 1..at /\ p.end - 1 <= Len(items)
      BY <1>2, <1>c, <1>t, <2>1, <2>3
    <3>2. items'[p.end - 1] = items[p.end - 1]
      BY <1>2, <3>1
    <3> QED
      BY <2>1, <3>1, <3>2 DEF Laid
  <2> QED
    BY <1>c, <2>1, <2>2, <2>3 DEF Laid, Stretch
<1>6. Levels(level)'
  BY <1>1, <1>5, <1>c DEF Levels
<1> QED
  BY <1>3, <1>4, <1>6 DEF NamesInv

LEMMA NamesStep ==
    ASSUME NamesInv, [NamesNext]_namesVars
    PROVE  NamesInv'
<1>1. ASSUME NEW n \in Spelt, WriteName(n) PROVE NamesInv'
  <2>1. Len(n) \in 0..Len(n)
    BY SpeltIs
  <2> QED
    BY <1>1, <2>1, SpellKept DEF WriteName
<1>2. ASSUME NEW n \in Spelt, NEW k \in 0..(Len(n) - 1), Compress(n, k) PROVE NamesInv'
  <2>1. k \in 0..Len(n)
    BY SpeltIs
  <2>2. PICK p \in places : p.name = Ending(n, k) /\ Spell(n, k, PointerTo(p.at))
    BY <1>2 DEF Compress
  <2>3. items[Len(items)] = RestItem
    BY <1>2 DEF Compress
  <2> QED
    BY <2>1, <2>2, <2>3, SpellKept
<1>3. ASSUME NEW at, CutMessage(at) PROVE NamesInv'
  BY <1>3, CutKept
<1>4. CASE UNCHANGED namesVars
  BY <1>4 DEF namesVars, NamesInv, NamesTyped, ItemsTyped, Levels, Laid, Stretch, Uncut
<1> QED
  BY <1>1, <1>2, <1>3, <1>4 DEF NamesNext

LEMMA NamesTyping == NamesInv => NamesTypeOK
<1> SUFFICES ASSUME NamesInv PROVE NamesTypeOK
  OBVIOUS
<1>1. NamesTyped /\ ItemsTyped /\ \E level : Levels(level)
  BY DEF NamesInv, NamesTyped
<1>2. \A i \in DOMAIN items : items[i].kind \in {"label", "pointer", "end", "rest"}
  BY <1>1, ItemIs DEF ItemsTyped
<1>3. \A p \in places : p.at < p.end
  BY <1>1 DEF Levels, Laid
<1> QED
  BY <1>1, <1>2, <1>3 DEF NamesTypeOK, NamesTyped

\* A message has labels, pointers and ends, and the places are those of names that have room.
THEOREM NamesTypeCorrect == NamesSpec => []NamesTypeOK
<1> QED
  BY NamesTyping, NamesStart, NamesStep, PTL DEF NamesSpec

(***************************************************************************)
(* However many names share their ends and wherever the message is cut,    *)
(* both readers go on where the name ends, the text of a name has every    *)
(* label of it, and a question built from the text is for that name: with  *)
(* bounds that have room for the names (128 items, 16 pointers), and       *)
(* labels that no space begins or ends.                                    *)
(***************************************************************************)
THEOREM NamesAreKept == Readable => (NamesSpec => []NamesKept)
<1> SUFFICES ASSUME Readable PROVE NamesSpec => []NamesKept
  OBVIOUS
<1>1. NamesInit => NamesInv
  BY NamesStart
<1>2. NamesInv /\ [NamesNext]_namesVars => NamesInv'
  BY NamesStep
<1>3. NamesInv => NamesKept
  BY NamesInvKept
<1> QED
  BY <1>1, <1>2, <1>3, PTL DEF NamesSpec
=============================================================================
