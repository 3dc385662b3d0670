-------------------------- MODULE RuleStoreProofs --------------------------
(***************************************************************************)
(* Theorems about the rule lists and the filter (RuleStore.tla): its type  *)
(* invariant, and that nothing but an administrator's rule ever exempts a  *)
(* name from the threat feed, for every value of the constants; that rules *)
(* outlive the process, and that answers follow the rules, under the       *)
(* hypotheses that the code needs for them.                                *)
(***************************************************************************)
EXTENDS RuleStore, SequenceTheorems, TLAPS

-----------------------------------------------------------------------------
(* The scripts.                                                            *)

LookStep == {"bypass fast", "memo fast", "bypass", "white", "memo", "schedule", "block",
             "wildcard white", "wildcard block", "feed"}
QueryStep == LookStep \cup {"memoise", "learn block", "learn white"}
HandlerStep == {"append and insert", "insert", "append", "append removal", "remove",
                "empty", "empty whitelist", "clear log", "insert exact", "remove exact",
                "insert bloom", "flush"}
Operation == {"idle", "query", "add", "delete", "clear", "auto_add", "auto_delete", "wipe",
              "console_add", "console_delete"}

Job == [op : Operation, list : ListName, rules : SUBSET Rule,
        todo : Seq(QueryStep \cup HandlerStep), verdict : {"allow", "block", Absent},
        reason : Reason \cup {Absent}, clean : BOOLEAN, fed : SUBSET Feed]

\* What is left of a script.  A name is learned as whitelisted in the step after
\* the look that allowed it, a detection has a reason, and a name enters
\* whitelist_exact after it was inserted into the whitelist.
InPlace(j, i) ==
    /\ j.todo[i] \in IF j.op = "query" THEN QueryStep ELSE HandlerStep
    /\ j.todo[i] = "learn white" => i = 1
    /\ j.todo[i] \in {"memoise", "learn block"} => j.reason \in Reason
    /\ j.todo[i] = "append" => j.list = "block"
    /\ j.todo[i] = "insert exact" => /\ j.list = "white"
                                     /\ i = 1 \/ (i = 2 /\ j.todo[1] = "insert")

Scripted(j) ==
    /\ j \in Job
    /\ j.op = "query" => \E d \in Domain : j.rules = {d}
    /\ \A i \in 1..Len(j.todo) : InPlace(j, i)

-----------------------------------------------------------------------------
(* The invariant: the sets that exempt a name hold nothing the             *)
(* administrators' rules do not, and what a query is about to do follows   *)
(* from what it saw.                                                       *)

StoresTyped ==
    /\ mem \in [ListName -> [Rule -> Source \cup {Absent}]]
    /\ whiteExact \subseteq Domain /\ bloom \subseteq Rule /\ feed \subseteq Feed
    /\ memo \in [Domain -> Reason \cup {Absent}]
    /\ disk \in [ListName -> SUBSET Rule]
    /\ window \subseteq Windows
    /\ want \in [ListName -> SUBSET Rule] /\ ever \in [ListName -> SUBSET Rule]

Typed ==
    /\ StoresTyped
    /\ job \in [Proc -> Job]
    /\ \A p \in Proc : Scripted(job[p])

Exempting ==
    /\ \A r \in Rules("white") : Matches(ever["white"], r)
    /\ Rules("bypass") \subseteq ever["bypass"]
    /\ disk["white"] \subseteq ever["white"] /\ disk["bypass"] \subseteq ever["bypass"]
    /\ whiteExact \subseteq ever["white"]

Exempt(d) == Matches(ever["white"] \cup ever["bypass"], d)

Justified(p) ==
    /\ At(p, "learn white") => \A d \in job[p].rules : Matches(ever["white"], d)
    /\ At(p, "insert exact") => job[p].rules \subseteq ever["white"]
    /\ Decided(p) /\ job[p].verdict = "allow" =>
          \A d \in job[p].rules : Matches(job[p].fed, d) => Exempt(d)
    /\ job[p].fed \subseteq bloom

IInv ==
    /\ Typed
    /\ Exempting
    /\ feed \subseteq bloom
    /\ \A p \in Proc : Justified(p)

-----------------------------------------------------------------------------
(* The calls and the queries: what a step leaves of a script.              *)

LEMMA Operations ==
    /\ \A o \in AllOps : o[1] \in Operation \ {"idle", "query"} /\ o[2] \in ListName
    /\ {"idle", "query"} \cup {o[1] : o \in AllOps} = Operation
<1>1. \A o \in AllOps : o[1] \in Operation \ {"idle", "query"} /\ o[2] \in ListName
  BY DEF AllOps, Operation, ListName
<1>2. \A n \in Operation \ {"idle", "query"} : \E o \in AllOps : o[1] = n
  <2>1. /\ {<<"add", "block">>, <<"delete", "block">>, <<"clear", "block">>} \subseteq AllOps
        /\ {<<"auto_add", "block">>, <<"auto_delete", "block">>} \subseteq AllOps
        /\ {<<"wipe", "block">>, <<"console_add", "block">>} \subseteq AllOps
        /\ <<"console_delete", "block">> \in AllOps
    BY DEF AllOps, ListName
  <2>2. ASSUME NEW n \in Operation \ {"idle", "query"}
        PROVE  \E o \in AllOps : o[1] = n
    <3>1. CASE n \in {"auto_add", "auto_delete", "wipe", "console_add", "console_delete"}
      <4>1. <<n, "block">> \in AllOps /\ <<n, "block">>[1] = n
        BY <2>1, <3>1
      <4>2. QED BY <4>1
    <3>2. CASE n \in {"add", "delete", "clear"}
      <4>1. <<n, "block">> \in AllOps /\ <<n, "block">>[1] = n
        BY <2>1, <3>2
      <4>2. QED BY <4>1
    <3>3. QED BY <2>2, <3>1, <3>2 DEF Operation
  <2>3. QED BY <2>2
<1>3. QED BY <1>1, <1>2 DEF Operation

\* The first step is taken.
LEMMA RestScripted ==
    ASSUME NEW j, Scripted(j), j.todo # <<>>
    PROVE  Scripted([j EXCEPT !.todo = Tail(j.todo)])
<1> DEFINE k == [j EXCEPT !.todo = Tail(j.todo)]
<1>1. j \in Job /\ j.todo \in Seq(QueryStep \cup HandlerStep)
  BY DEF Scripted, Job
<1>2. /\ Tail(j.todo) \in Seq(QueryStep \cup HandlerStep)
      /\ Len(Tail(j.todo)) = Len(j.todo) - 1 /\ Len(j.todo) \in Nat \ {0}
      /\ \A i \in 1..Len(Tail(j.todo)) : Tail(j.todo)[i] = j.todo[i + 1]
  BY <1>1, HeadTailProperties, LenProperties, EmptySeq
<1>3. /\ k \in Job /\ k.op = j.op /\ k.list = j.list /\ k.rules = j.rules
      /\ k.todo = Tail(j.todo) /\ k.reason = j.reason
  BY <1>1, <1>2 DEF Job
<1> HIDE DEF k
<1>4. ASSUME NEW i \in 1..Len(k.todo)
      PROVE  InPlace(k, i)
  <2>1. /\ i + 1 \in 1..Len(j.todo) /\ k.todo[i] = j.todo[i + 1] /\ i + 1 # 1
        /\ i \in Nat
    BY <1>2, <1>3, <1>4
  <2>2. InPlace(j, i + 1)
    BY <2>1 DEF Scripted
  <2>3. k.todo[i] = "insert exact" => i = 1
    <3>1. j.todo[i + 1] = "insert exact" => i + 1 = 1 \/ i + 1 = 2
      BY <2>2 DEF InPlace
    <3>2. i + 1 # 1 /\ (i + 1 = 2 => i = 1)
      BY <1>4
    <3>3. k.todo[i] = j.todo[i + 1]
      BY <2>1
    <3>4. QED BY <3>1, <3>2, <3>3, Zenon
  <2>4. QED BY <1>3, <2>1, <2>2, <2>3 DEF InPlace
<1>5. QED BY <1>3, <1>4 DEF Scripted, k

\* What a handler's script may be, for a call on list l.
Sound(t, l) ==
    /\ t \in Seq(HandlerStep)
    /\ \A i \in 1..Len(t) : /\ t[i] = "append" => l = "block"
                            /\ t[i] = "insert exact" => l = "white" /\ i = 2 /\ t[1] = "insert"

PlainStep == HandlerStep \ {"append", "insert exact"}

LEMMA Plain ==
    \A a \in PlainStep : a \in HandlerStep /\ a # "append" /\ a # "insert exact"
BY DEF PlainStep

\* Short tuples as sequences.
LEMMA TuplesAreSequences ==
    ASSUME NEW S, NEW a \in S, NEW b \in S, NEW c \in S
    PROVE  /\ <<a>> \in Seq(S) /\ <<a, b>> \in Seq(S) /\ <<a, b, c>> \in Seq(S)
           /\ Len(<<a>>) = 1 /\ <<a>>[1] = a
           /\ Len(<<a, b>>) = 2 /\ <<a, b>>[1] = a /\ <<a, b>>[2] = b
           /\ Len(<<a, b, c>>) = 3
           /\ <<a, b, c>>[1] = a /\ <<a, b, c>>[2] = b /\ <<a, b, c>>[3] = c
OBVIOUS

LEMMA FirstOf ==
    ASSUME NEW S, NEW t \in Seq(S), t # <<>>
    PROVE  Len(t) \in Nat \ {0} /\ 1 \in 1..Len(t) /\ Head(t) = t[1] /\ t[1] \in S
<1>1. Len(t) \in Nat \ {0}
  BY EmptySeq
<1>2. QED BY <1>1

LEMMA Indices ==
    /\ \A i \in 1..1 : i = 1
    /\ \A i \in 1..2 : i = 1 \/ i = 2
    /\ \A i \in 1..3 : i = 1 \/ i = 2 \/ i = 3
OBVIOUS

LEMMA OneStep ==
    ASSUME NEW a \in PlainStep, NEW l
    PROVE  Sound(<<a>>, l)
<1>1. a \in HandlerStep
  BY Plain
<1>2. <<a>> \in Seq(HandlerStep) /\ Len(<<a>>) = 1 /\ <<a>>[1] = a
  BY <1>1, TuplesAreSequences
<1>3. QED BY <1>2, Plain, Indices, Zenon DEF Sound

LEMMA TwoSteps ==
    ASSUME NEW a \in PlainStep, NEW b \in HandlerStep, NEW l,
           b = "append" => l = "block",
           b = "insert exact" => l = "white" /\ a = "insert"
    PROVE  Sound(<<a, b>>, l)
<1>1. a \in HandlerStep
  BY Plain
<1>2. /\ <<a, b>> \in Seq(HandlerStep)
      /\ Len(<<a, b>>) = 2 /\ <<a, b>>[1] = a /\ <<a, b>>[2] = b
  BY <1>1, TuplesAreSequences
<1>3. QED BY <1>2, Plain, Indices, Zenon DEF Sound

LEMMA ThreeSteps ==
    ASSUME NEW a \in PlainStep, NEW b \in PlainStep, NEW c \in PlainStep, NEW l
    PROVE  Sound(<<a, b, c>>, l)
<1>1. a \in HandlerStep /\ b \in HandlerStep /\ c \in HandlerStep
  BY Plain
<1>2. /\ <<a, b, c>> \in Seq(HandlerStep) /\ Len(<<a, b, c>>) = 3
      /\ <<a, b, c>>[1] = a /\ <<a, b, c>>[2] = b /\ <<a, b, c>>[3] = c
  BY <1>1, TuplesAreSequences
<1>3. QED BY <1>2, Plain, Indices, Zenon DEF Sound

LEMMA HandlerScripts == \A o \in AllOps : Sound(Script[o], o[2])
<1>1. \A l \in ListName : /\ Sound(AddScript, l) /\ Sound(DeleteScript, l)
                          /\ Sound(ClearScript, l) /\ Sound(ClearBlocklistScript, l)
                          /\ Sound(AutoDeleteScript, l) /\ Sound(WipeScript, l)
                          /\ Sound(ConsoleBlockScript, l) /\ Sound(ConsoleUnblockScript, l)
                          /\ Sound(ConsoleUnwhitelistScript, l)
  <2> TAKE l \in ListName
  <2>1. Sound(AddScript, l)
    BY TwoSteps DEF PlainStep, HandlerStep, AddScript
  <2>2. Sound(DeleteScript, l)
    BY ThreeSteps DEF PlainStep, HandlerStep, DeleteScript
  <2>3. Sound(ClearScript, l)
    BY TwoSteps DEF PlainStep, HandlerStep, ClearScript
  <2>4. Sound(ClearBlocklistScript, l)
    BY ThreeSteps DEF PlainStep, HandlerStep, ClearBlocklistScript
  <2>5. Sound(AutoDeleteScript, l)
    BY TwoSteps DEF PlainStep, HandlerStep, AutoDeleteScript
  <2>6. Sound(WipeScript, l)
    BY ThreeSteps DEF PlainStep, HandlerStep, WipeScript
  <2>7. Sound(ConsoleBlockScript, l)
    BY TwoSteps DEF PlainStep, HandlerStep, ConsoleBlockScript
  <2>8. Sound(ConsoleUnblockScript, l)
    BY OneStep DEF PlainStep, HandlerStep, ConsoleUnblockScript
  <2>9. Sound(ConsoleUnwhitelistScript, l)
    BY TwoSteps DEF PlainStep, HandlerStep, ConsoleUnwhitelistScript
  <2> QED
    BY <2>1, <2>2, <2>3, <2>4, <2>5, <2>6, <2>7, <2>8, <2>9
<1>2. Sound(AutoAddScript, "block")
  BY TwoSteps DEF PlainStep, HandlerStep, AutoAddScript
<1>3. Sound(ConsoleWhitelistScript, "white")
  BY TwoSteps DEF PlainStep, HandlerStep, ConsoleWhitelistScript
<1>4. ASSUME NEW o \in AllOps
      PROVE  Sound(Script[o], o[2])
  <2>1. PICK n, l : o = <<n, l>> /\ o[1] = n /\ o[2] = l /\ l \in ListName
    BY DEF AllOps, ListName
  <2>2. CASE n \in {"add", "delete", "auto_delete", "wipe"}
    <3>1. Script[o] \in {AddScript, DeleteScript, AutoDeleteScript, WipeScript}
      BY <2>1, <2>2 DEF Script
    <3>2. QED BY <1>1, <2>1, <3>1
  <2>3. CASE n = "clear"
    <3>1. Script[o] \in {ClearScript, ClearBlocklistScript}
      BY <2>1, <2>3 DEF Script
    <3>2. QED BY <1>1, <2>1, <3>1
  <2>4. CASE n = "auto_add"
    <3>1. l = "block"
      BY <2>1, <2>4 DEF AllOps
    <3>2. Script[o] = AutoAddScript
      BY <2>1, <2>4 DEF Script
    <3>3. QED BY <1>2, <2>1, <3>1, <3>2, Zenon
  <2>5. CASE n \in {"console_add", "console_delete"} /\ l = "block"
    <3>1. Script[o] \in {ConsoleBlockScript, ConsoleUnblockScript}
      BY <2>1, <2>5 DEF Script
    <3>2. QED BY <1>1, <2>1, <3>1
  <2>6. CASE n \in {"console_add", "console_delete"} /\ l = "white"
    <3>1. Script[o] \in {ConsoleWhitelistScript, ConsoleUnwhitelistScript}
      BY <2>1, <2>6 DEF Script
    <3>2. QED BY <1>1, <1>3, <2>1, <2>6, <3>1
  <2>7. \/ n \in {"add", "delete", "auto_delete", "wipe", "clear", "auto_add"}
        \/ n \in {"console_add", "console_delete"} /\ l \in {"block", "white"}
    BY <2>1 DEF AllOps, ListName
  <2>8. QED BY <2>2, <2>3, <2>4, <2>5, <2>6, <2>7
<1>5. QED BY <1>4

LEMMA IdleScripted == Idle \in Job /\ Scripted(Idle)
BY DEF Idle, Job, Scripted, Operation, ListName, Reason

LEMMA CallScripted ==
    ASSUME NEW o \in AllOps, NEW rules \in SUBSET Rule
    PROVE  Scripted([Idle EXCEPT !.op = o[1], !.list = o[2], !.rules = rules,
                                 !.todo = Script[o]])
<1> DEFINE j == [Idle EXCEPT !.op = o[1], !.list = o[2], !.rules = rules, !.todo = Script[o]]
<1>1. PICK n \in Operation \ {"idle", "query"}, l \in ListName, t \in Seq(HandlerStep) :
         n = o[1] /\ l = o[2] /\ t = Script[o] /\ Sound(t, l)
  <2>1. o[1] \in Operation \ {"idle", "query"} /\ o[2] \in ListName
    BY Operations
  <2>2. Sound(Script[o], o[2]) /\ Script[o] \in Seq(HandlerStep)
    BY HandlerScripts DEF Sound
  <2>3. QED BY <2>1, <2>2
<1>2. t \in Seq(QueryStep \cup HandlerStep)
  BY <1>1
<1>3. j \in Job /\ j.op = n /\ j.list = l /\ j.todo = t
  BY <1>1, <1>2 DEF Idle, Job, Reason
<1> HIDE DEF j
<1>4. ASSUME NEW i \in 1..Len(t) PROVE InPlace(j, i)
  <2>1. t[i] \in HandlerStep
    BY <1>1
  <2>2. t[i] \notin {"learn white", "memoise", "learn block"}
    BY <2>1 DEF HandlerStep
  <2>3. QED BY <1>1, <1>3, <2>1, <2>2 DEF InPlace, Sound
<1>5. Scripted(j)
  BY <1>1, <1>3, <1>4 DEF Scripted
<1>6. QED BY <1>5 DEF j

LEMMA CheckDomainLooks == CheckDomain \in Seq(LookStep)
BY DEF CheckDomain, LookStep

LEMMA QueryScripts == ASSUME NEW proto PROVE QueryScript(proto) \in Seq(LookStep)
<1>1. CheckDomain \in Seq(LookStep)
  BY CheckDomainLooks
<1>2. <<"bypass fast", "memo fast">> \in Seq(LookStep)
  BY DEF LookStep
<1>3. QED BY <1>1, <1>2, ConcatProperties DEF QueryScript

\* A script of looks.
LEMMA LooksScripted ==
    ASSUME NEW j \in Job, j.op = "query", \E d \in Domain : j.rules = {d},
           j.todo \in Seq(LookStep)
    PROVE  Scripted(j)
<1>1. ASSUME NEW i \in 1..Len(j.todo) PROVE InPlace(j, i)
  <2>1. j.todo[i] \in LookStep
    OBVIOUS
  <2>2. \A s \in LookStep : s \in QueryStep \ {"learn white", "memoise", "learn block",
                                               "append", "insert exact"}
    BY DEF LookStep, QueryStep
  <2>3. QED BY <2>1, <2>2, Zenon DEF InPlace
<1>2. QED BY <1>1 DEF Scripted

LEMMA QueryScripted ==
    ASSUME NEW d \in Domain, NEW proto, NEW c \in BOOLEAN, NEW f \in SUBSET Feed
    PROVE  Scripted([Idle EXCEPT !.op = "query", !.rules = {d}, !.todo = QueryScript(proto),
                                 !.clean = c, !.fed = f])
<1> DEFINE j == [Idle EXCEPT !.op = "query", !.rules = {d}, !.todo = QueryScript(proto),
                             !.clean = c, !.fed = f]
<1>1. PICK t \in Seq(LookStep) : t = QueryScript(proto)
  BY QueryScripts
<1>2. t \in Seq(QueryStep \cup HandlerStep)
  <2>1. LookStep \subseteq QueryStep \cup HandlerStep
    BY DEF QueryStep
  <2>2. QED BY <2>1, SeqMonotonic
<1>3. "query" \in Operation /\ {d} \in SUBSET Rule
  BY DEF Operation, Rule
<1>4. j \in Job /\ j.op = "query" /\ j.rules = {d} /\ j.todo = t
  BY <1>1, <1>2, <1>3, IdleScripted DEF Job
<1> HIDE DEF j
<1>5. Scripted(j)
  BY <1>4, LooksScripted
<1>6. QED BY <1>5 DEF j

\* What a query does once it is decided.
AfterBlock == {Learn, MemoAndLearn, <<"memoise", "learn block">>}
AfterAllow == {<<>>, <<"learn white">>}

LEMMA AfterDecision ==
    /\ \A t \in AfterBlock : /\ t \in Seq(QueryStep)
                             /\ \A i \in 1..Len(t) : t[i] \in {"memoise", "learn block"}
    /\ \A t \in AfterAllow : /\ t \in Seq(QueryStep)
                             /\ \A i \in 1..Len(t) : t[i] = "learn white" /\ i = 1
<1>1. /\ "memoise" \in QueryStep /\ "learn block" \in QueryStep
      /\ "learn white" \in QueryStep
  BY DEF QueryStep
<1>2. \A t \in AfterBlock : /\ t \in Seq(QueryStep)
                            /\ \A i \in 1..Len(t) : t[i] \in {"memoise", "learn block"}
  <2> DEFINE S == {"memoise", "learn block"}
  <2>1. "memoise" \in S /\ "learn block" \in S
    OBVIOUS
  <2> HIDE DEF S
  <2>2. /\ Learn \in Seq(S) /\ MemoAndLearn \in Seq(S)
        /\ <<"memoise", "learn block">> \in Seq(S)
    BY <2>1, TuplesAreSequences DEF Learn, MemoAndLearn
  <2>3. S \subseteq QueryStep
    BY <1>1 DEF S
  <2>4. \A t \in AfterBlock : t \in Seq(S) /\ t \in Seq(QueryStep)
    BY <2>2, <2>3, SeqMonotonic DEF AfterBlock
  <2>5. \A t \in AfterBlock : \A i \in 1..Len(t) : t[i] \in S
    BY <2>4
  <2>6. QED BY <2>4, <2>5 DEF S
<1>3. \A t \in AfterAllow : /\ t \in Seq(QueryStep)
                            /\ \A i \in 1..Len(t) : t[i] = "learn white" /\ i = 1
  <2>1. <<>> \in Seq(QueryStep) /\ Len(<<>>) = 0 /\ 1..0 = {}
    OBVIOUS
  <2>2. /\ <<"learn white">> \in Seq(QueryStep) /\ Len(<<"learn white">>) = 1
        /\ <<"learn white">>[1] = "learn white"
    BY <1>1, TuplesAreSequences
  <2>3. QED BY <2>1, <2>2, Indices DEF AfterAllow
<1>4. QED BY <1>2, <1>3

LEMMA DecidedScripted ==
    ASSUME NEW j, Scripted(j), j.op = "query", NEW v \in {"allow", "block"},
           NEW r \in Reason \cup {Absent}, NEW t \in AfterAllow \cup AfterBlock,
           r \in Reason \/ t \in AfterAllow
    PROVE  Scripted([j EXCEPT !.verdict = v, !.reason = r, !.todo = t])
<1> DEFINE k == [j EXCEPT !.verdict = v, !.reason = r, !.todo = t]
<1>1. t \in Seq(QueryStep \cup HandlerStep) /\ t \in Seq(QueryStep)
  <2>1. t \in Seq(QueryStep)
    BY AfterDecision
  <2>2. QueryStep \subseteq QueryStep \cup HandlerStep
    OBVIOUS
  <2>3. QED BY <2>1, <2>2, SeqMonotonic
<1>2. j \in Job
  BY DEF Scripted
<1>3. /\ k \in Job /\ k.op = "query" /\ k.rules = j.rules /\ k.todo = t /\ k.reason = r
  BY <1>1, <1>2 DEF Job
<1> HIDE DEF k
<1>4. ASSUME NEW i \in 1..Len(t) PROVE InPlace(k, i)
  <2>1. t[i] \in QueryStep
    BY <1>1
  <2>2. \/ t[i] \in {"memoise", "learn block"} /\ r \in Reason
        \/ t[i] = "learn white" /\ i = 1
    BY AfterDecision
  <2>3. t[i] \notin {"append", "insert exact"}
    BY <2>2
  <2>4. t[i] = "learn white" => i = 1
    BY <2>2
  <2>5. t[i] \in {"memoise", "learn block"} => r \in Reason
    BY <2>2
  <2>6. QED BY <1>3, <2>1, <2>3, <2>4, <2>5 DEF InPlace
<1>5. Scripted(k)
  BY <1>3, <1>4 DEF Scripted
<1>6. QED BY <1>5 DEF k

LEMMA WatchedScripted ==
    ASSUME NEW j, Scripted(j), NEW c \in BOOLEAN, NEW f \in SUBSET Feed
    PROVE  Scripted([j EXCEPT !.clean = c, !.fed = f])
<1> DEFINE k == [j EXCEPT !.clean = c, !.fed = f]
<1>1. j \in Job
  BY DEF Scripted
<1>2. /\ k \in Job /\ k.op = j.op /\ k.list = j.list /\ k.rules = j.rules
      /\ k.todo = j.todo /\ k.reason = j.reason
  BY <1>1 DEF Job
<1> HIDE DEF k
<1>3. Scripted(k)
  BY <1>2 DEF Scripted, InPlace
<1>4. QED BY <1>3 DEF k

-----------------------------------------------------------------------------
(* What the parts of a step do.                                            *)

LEMMA PutFacts ==
    ASSUME Typed, NEW l \in ListName, NEW rs \in SUBSET Rule,
           NEW s \in Source \cup {Absent}, Put(l, rs, s)
    PROVE  /\ mem' \in [ListName -> [Rule -> Source \cup {Absent}]]
           /\ \A k \in ListName \ {l} : Rules(k)' = Rules(k)
           /\ s = Absent => Rules(l)' = Rules(l) \ rs
           /\ s # Absent => Rules(l)' = Rules(l) \cup rs
<1>1. mem' \in [ListName -> [Rule -> Source \cup {Absent}]]
  BY DEF Typed, StoresTyped, Put
<1>2. \A k \in ListName \ {l}, r \in Rule : mem'[k][r] = mem[k][r]
  BY DEF Typed, StoresTyped, Put
<1>3. \A r \in Rule : mem'[l][r] = IF r \in rs THEN s ELSE mem[l][r]
  BY DEF Typed, StoresTyped, Put
<1>4. ASSUME NEW k \in ListName \ {l} PROVE Rules(k)' = Rules(k)
  BY <1>2 DEF Rules
<1>5. s = Absent => Rules(l)' = Rules(l) \ rs
  BY <1>3 DEF Rules
<1>6. s # Absent => Rules(l)' = Rules(l) \cup rs
  BY <1>3 DEF Rules
<1>7. QED BY <1>1, <1>4, <1>5, <1>6

LEMMA RuleFacts ==
    /\ "block" \in ListName /\ "white" \in ListName /\ "bypass" \in ListName
    /\ "manual" \in Source /\ "CONSOLE" \in Source /\ "ai" \in Source
    /\ "feed" \in Source /\ "system" \in Source /\ Absent \notin Source
    /\ Absent \notin Reason /\ Domain \subseteq Rule
BY DEF ListName, Source, Absent, Reason, Rule

LEMMA MatchesMore ==
    ASSUME NEW S, NEW T, S \subseteq T, NEW d, Matches(S, d)
    PROVE  Matches(T, d)
BY DEF Matches, Above

\* What stands first in a script.
LEMMA AtFacts ==
    ASSUME Typed, NEW p \in Proc, NEW s, At(p, s)
    PROVE  /\ job[p] \in Job /\ job[p].todo # <<>>
           /\ s \in IF job[p].op = "query" THEN QueryStep ELSE HandlerStep
           /\ s \in {"memoise", "learn block"} => job[p].reason \in Reason
           /\ s = "append" => job[p].list = "block"
           /\ s = "insert exact" => job[p].list = "white"
<1>1. Scripted(job[p]) /\ job[p].todo # <<>> /\ s = Head(job[p].todo)
  BY DEF Typed, At
<1>2. job[p].todo \in Seq(QueryStep \cup HandlerStep) /\ job[p] \in Job
  BY <1>1 DEF Scripted, Job
<1>3. 1 \in 1..Len(job[p].todo) /\ job[p].todo[1] = s
  <2>1. Len(job[p].todo) \in Nat \ {0}
    BY <1>1, <1>2, EmptySeq
  <2>2. Head(job[p].todo) = job[p].todo[1]
    BY <1>1, <1>2
  <2>3. QED BY <1>1, <2>1, <2>2
<1>4. InPlace(job[p], 1)
  BY <1>1, <1>3 DEF Scripted
<1>5. QED BY <1>1, <1>2, <1>3, <1>4, Zenon DEF InPlace

LEMMA AdvanceFacts ==
    ASSUME Typed, NEW p \in Proc, job[p].todo # <<>>, Advance(p)
    PROVE  /\ job' \in [Proc -> Job] /\ \A q \in Proc : Scripted(job'[q])
           /\ \A q \in Proc \ {p} : job'[q] = job[q]
           /\ job'[p].op = job[p].op /\ job'[p].list = job[p].list
           /\ job'[p].rules = job[p].rules /\ job'[p].verdict = job[p].verdict
           /\ job'[p].fed = job[p].fed /\ job'[p].todo = Tail(job[p].todo)
<1> DEFINE k == [job[p] EXCEPT !.todo = Tail(job[p].todo)]
<1>1. /\ job \in [Proc -> Job] /\ job[p] \in Job /\ Scripted(job[p])
      /\ \A q \in Proc : Scripted(job[q])
  BY DEF Typed
<1>2. Scripted(k)
  BY <1>1, RestScripted
<1>3. k \in Job
  BY <1>2 DEF Scripted
<1>4. job' = [job EXCEPT ![p] = k]
  BY DEF Advance
<1>5. /\ k.op = job[p].op /\ k.list = job[p].list /\ k.rules = job[p].rules
      /\ k.verdict = job[p].verdict /\ k.fed = job[p].fed /\ k.todo = Tail(job[p].todo)
  BY <1>1 DEF Job
<1> HIDE DEF k
<1>6. /\ job' \in [Proc -> Job] /\ job'[p] = k
      /\ \A q \in Proc \ {p} : job'[q] = job[q]
  BY <1>1, <1>3, <1>4
<1>7. QED BY <1>1, <1>2, <1>5, <1>6

\* History and the bloom filter only grow; so do the reasons that justify.
Growing ==
    /\ ever["white"] \subseteq ever'["white"] /\ ever["bypass"] \subseteq ever'["bypass"]
    /\ bloom \subseteq bloom'

LEMMA StillJustified ==
    ASSUME NEW q \in Proc, Justified(q), job'[q] = job[q], Growing
    PROVE  Justified(q)'
<1>1. At(q, "learn white")' => \A d \in job'[q].rules : Matches(ever'["white"], d)
  BY MatchesMore DEF Justified, At, Growing
<1>2. At(q, "insert exact")' => job'[q].rules \subseteq ever'["white"]
  BY DEF Justified, At, Growing
<1>3. ASSUME Decided(q)', job'[q].verdict = "allow", NEW d \in job'[q].rules,
             Matches(job'[q].fed, d)
      PROVE  Exempt(d)'
  <2>1. Exempt(d)
    BY <1>3 DEF Justified, Decided
  <2>2. ever["white"] \cup ever["bypass"] \subseteq ever'["white"] \cup ever'["bypass"]
    BY DEF Growing
  <2>3. QED BY <2>1, <2>2, MatchesMore DEF Exempt
<1>4. job'[q].fed \subseteq bloom'
  BY DEF Justified, Growing
<1>5. QED BY <1>1, <1>2, <1>3, <1>4 DEF Justified

\* What stands first after a step stood second before it.
LEMMA SecondStep ==
    ASSUME Typed, NEW p \in Proc, job[p].todo # <<>>, Advance(p), NEW s, At(p, s)'
    PROVE  /\ s # "learn white"
           /\ s = "insert exact" => At(p, "insert") /\ job[p].list = "white"
           /\ s \in IF job[p].op = "query" THEN QueryStep ELSE HandlerStep
<1>1. job'[p].todo = Tail(job[p].todo)
  BY AdvanceFacts
<1>2. /\ Scripted(job[p]) /\ job[p].todo \in Seq(QueryStep \cup HandlerStep)
      /\ Len(job[p].todo) \in Nat
  BY LenProperties DEF Typed, Scripted, Job
<1>3. /\ Tail(job[p].todo) # <<>> /\ s = Head(Tail(job[p].todo))
      /\ Tail(job[p].todo) \in Seq(QueryStep \cup HandlerStep)
  BY <1>1, <1>2, HeadTailProperties DEF At
<1>4. PICK m, n \in Nat : /\ m = Len(job[p].todo) /\ n = Len(Tail(job[p].todo))
                          /\ n = m - 1 /\ n # 0
  BY <1>2, <1>3, HeadTailProperties, EmptySeq
<1>5. \A i \in 1..n : Tail(job[p].todo)[i] = job[p].todo[i + 1]
  BY <1>2, <1>3, <1>4, HeadTailProperties
<1>6. 2 \in 1..Len(job[p].todo) /\ job[p].todo[2] = s
  <2>1. n = m - 1 /\ n # 0
    BY <1>4
  <2>2. 1 \in 1..n /\ 1 + 1 = 2 /\ 2 \in 1..m
    BY <2>1
  <2>3. Tail(job[p].todo)[1] = job[p].todo[2]
    BY <1>5, <2>2
  <2>4. Head(Tail(job[p].todo)) = Tail(job[p].todo)[1]
    BY <1>3
  <2>5. QED BY <1>3, <1>4, <2>2, <2>3, <2>4
<1>7. InPlace(job[p], 2) /\ 2 # 1
  BY <1>2, <1>6 DEF Scripted
<1>8. s # "learn white" /\ s \in IF job[p].op = "query" THEN QueryStep ELSE HandlerStep
  BY <1>6, <1>7, Zenon DEF InPlace
<1>9. s = "insert exact" => job[p].todo[1] = "insert" /\ job[p].list = "white"
  BY <1>6, <1>7, Zenon DEF InPlace
<1>10. Head(job[p].todo) = job[p].todo[1]
  BY <1>2
<1>11. QED BY <1>8, <1>9, <1>10 DEF At

\* The next step of a script is as justified as the one that was taken.
LEMMA AdvanceJustified ==
    ASSUME Typed, \A q \in Proc : Justified(q), NEW p \in Proc, job[p].todo # <<>>,
           Advance(p), Growing,
           At(p, "insert") /\ job[p].list = "white" => job[p].rules \subseteq ever'["white"]
    PROVE  \A q \in Proc : Justified(q)'
<1>1. /\ \A q \in Proc \ {p} : job'[q] = job[q]
      /\ job'[p].op = job[p].op /\ job'[p].list = job[p].list
      /\ job'[p].rules = job[p].rules /\ job'[p].verdict = job[p].verdict
      /\ job'[p].fed = job[p].fed /\ job'[p].todo = Tail(job[p].todo)
  BY AdvanceFacts
<1>2. ASSUME NEW q \in Proc \ {p} PROVE Justified(q)'
  BY <1>1, <1>2, StillJustified
<1>3. ASSUME NEW s, At(p, s)'
      PROVE  s # "learn white" /\ (s = "insert exact" => At(p, "insert") /\ job[p].list = "white")
  BY <1>3, SecondStep
<1>4. Justified(p)'
  <2>1. ~At(p, "learn white")'
    BY <1>3
  <2>2. At(p, "insert exact")' => job'[p].rules \subseteq ever'["white"]
    BY <1>1, <1>3
  <2>3. ASSUME Decided(p)', job'[p].verdict = "allow", NEW d \in job'[p].rules,
               Matches(job'[p].fed, d)
        PROVE  Exempt(d)'
    <3>1. Exempt(d)
      BY <1>1, <2>3 DEF Justified, Decided
    <3>2. ever["white"] \cup ever["bypass"] \subseteq ever'["white"] \cup ever'["bypass"]
      BY DEF Growing
    <3>3. QED BY <3>1, <3>2, MatchesMore DEF Exempt
  <2>4. job'[p].fed \subseteq bloom'
    BY <1>1 DEF Justified, Growing
  <2>5. QED BY <2>1, <2>2, <2>3, <2>4 DEF Justified
<1>5. QED BY <1>2, <1>4

\* A query that saw a change is as justified as before.
LEMMA WatchedJustified ==
    ASSUME Typed, NEW q \in Proc, Justified(q), NEW c \in BOOLEAN, NEW f,
           f \subseteq job[q].fed, f \subseteq bloom', ever' = ever,
           job'[q] = [job[q] EXCEPT !.clean = c, !.fed = f]
    PROVE  Scripted(job'[q]) /\ job'[q] \in Job /\ Justified(q)'
<1>1. job[q] \in Job /\ Scripted(job[q]) /\ f \in SUBSET Feed
  BY DEF Typed, Job
<1>2. Scripted(job'[q]) /\ job'[q] \in Job
  <2>1. Scripted([job[q] EXCEPT !.clean = c, !.fed = f])
    BY <1>1, WatchedScripted
  <2>2. Scripted(job'[q])
    BY <2>1
  <2>3. QED BY <2>2 DEF Scripted
<1>3. /\ job'[q].op = job[q].op /\ job'[q].rules = job[q].rules /\ job'[q].todo = job[q].todo
      /\ job'[q].verdict = job[q].verdict /\ job'[q].fed = f
  BY <1>1 DEF Job
<1>4. ASSUME Decided(q)', job'[q].verdict = "allow", NEW d \in job'[q].rules,
             Matches(job'[q].fed, d)
      PROVE  Exempt(d)'
  <2>1. Matches(job[q].fed, d)
    BY <1>3, <1>4, MatchesMore
  <2>2. Exempt(d)
    BY <1>3, <1>4, <2>1 DEF Justified, Decided
  <2>3. QED BY <2>2 DEF Exempt
<1>5. Justified(q)'
  BY <1>3, <1>4 DEF Justified, At
<1>6. QED BY <1>2, <1>5

LEMMA IdleJustified ==
    ASSUME NEW q \in Proc, job'[q] = Idle
    PROVE  Justified(q)'
BY DEF Justified, Idle, At, Decided

LEMMA ArgumentsAreRules ==
    ASSUME NEW n \in Operation, NEW l \in ListName, NEW rs \in Arguments(n, l)
    PROVE  rs \in SUBSET Rule
<1> DEFINE allowed == IF l = "block" THEN Blockable ELSE Rule
<1>1. allowed \subseteq Rule
  BY ConstantsAssumption
<1> HIDE DEF allowed
<1>2. CASE n \in {"clear", "wipe"}
  <2>1. Arguments(n, l) = {{}}
    BY <1>2 DEF Arguments
  <2>2. QED BY <2>1
<1>3. CASE n = "add"
  <2>1. Arguments(n, l) = (SUBSET allowed) \ {{}}
    BY <1>3 DEF Arguments, allowed
  <2>2. QED BY <1>1, <2>1
<1>4. CASE n \notin {"clear", "wipe", "add"}
  <2>1. Arguments(n, l) = {{r} : r \in allowed}
    BY <1>4 DEF Arguments, allowed
  <2>2. QED BY <1>1, <2>1
<1>5. QED BY <1>2, <1>3, <1>4

LEMMA BeginCallKeeps ==
    ASSUME IInv, NEW p \in Proc, BeginCall(p)
    PROVE  IInv'
<1>1. PICK o \in Ops : \E rs \in Arguments(o[1], o[2]) :
         job' = [q \in Proc |->
                   IF q = p
                   THEN [Idle EXCEPT !.op = o[1], !.list = o[2], !.rules = rs,
                                     !.todo = Script[o]]
                   ELSE [job[q] EXCEPT !.clean = FALSE]]
  BY DEF BeginCall
<1>2. PICK rs \in Arguments(o[1], o[2]) :
         job' = [q \in Proc |->
                   IF q = p
                   THEN [Idle EXCEPT !.op = o[1], !.list = o[2], !.rules = rs,
                                     !.todo = Script[o]]
                   ELSE [job[q] EXCEPT !.clean = FALSE]]
  BY <1>1
<1>3. o \in AllOps /\ rs \in SUBSET Rule
  <2>1. o \in AllOps
    BY ConstantsAssumption
  <2>2. PICK n \in Operation, l \in ListName : n = o[1] /\ l = o[2]
    BY <2>1, Operations
  <2>3. rs \in Arguments(n, l)
    BY <2>2
  <2>4. QED BY <2>1, <2>3, ArgumentsAreRules
<1>4. UNCHANGED <<mem, whiteExact, memo, disk, bloom, feed, window, want, ever>>
  BY DEF BeginCall
<1>5. ASSUME NEW q \in Proc, q # p
      PROVE  Scripted(job'[q]) /\ job'[q] \in Job /\ Justified(q)'
  <2>1. job[q] \in Job /\ Justified(q)
    BY DEF IInv, Typed
  <2>2. job'[q] = [job[q] EXCEPT !.clean = FALSE, !.fed = job[q].fed]
    BY <1>2, <1>5, <2>1 DEF Job
  <2>3. job[q].fed \subseteq bloom'
    BY <1>4, <2>1 DEF Justified
  <2>4. QED BY <1>4, <2>1, <2>2, <2>3, WatchedJustified DEF IInv
<1>6. PICK j : j = [Idle EXCEPT !.op = o[1], !.list = o[2], !.rules = rs, !.todo = Script[o]]
  OBVIOUS
<1>7. Scripted(j) /\ j \in Job /\ job'[p] = j
  BY <1>2, <1>3, <1>6, CallScripted DEF Scripted
<1>8. Justified(p)'
  <2>1. /\ j.op = o[1] /\ j.todo = Script[o] /\ j.fed = {} /\ o[1] # "query"
    BY <1>3, <1>6, Operations DEF Idle
  <2>2. Sound(j.todo, o[2]) /\ j.todo \in Seq(HandlerStep)
    BY <1>3, <2>1, HandlerScripts DEF Sound
  <2>3. ASSUME j.todo # <<>> PROVE Head(j.todo) \notin {"learn white", "insert exact"}
    <3>1. Head(j.todo) = j.todo[1] /\ 1 \in 1..Len(j.todo) /\ 1 # 2
      <4>1. Len(j.todo) \in Nat \ {0}
        BY <2>2, <2>3, EmptySeq
      <4>2. QED BY <2>2, <2>3, <4>1
    <3>2. j.todo[1] \in HandlerStep
      BY <2>2, <3>1
    <3>3. j.todo[1] # "learn white"
      BY <3>2 DEF HandlerStep
    <3>4. j.todo[1] # "insert exact"
      BY <2>2, <3>1, Zenon DEF Sound
    <3>5. QED BY <3>1, <3>3, <3>4
  <2>4. ~At(p, "learn white")' /\ ~At(p, "insert exact")'
    BY <1>7, <2>3 DEF At
  <2>5. ~Decided(p)' /\ job'[p].fed \subseteq bloom'
    BY <1>7, <2>1 DEF Decided
  <2>6. QED BY <2>4, <2>5 DEF Justified
<1>9. job' \in [Proc -> Job]
  <2>1. job' = [q \in Proc |-> job'[q]]
    BY <1>2
  <2>2. QED BY <1>5, <1>7, <2>1
<1>10. Typed'
  BY <1>4, <1>5, <1>7, <1>9 DEF IInv, Typed, StoresTyped
<1>11. Exempting' /\ feed' \subseteq bloom'
  BY <1>4 DEF IInv, Exempting, Rules, Matches, Above
<1>12. QED BY <1>5, <1>8, <1>10, <1>11 DEF IInv

-----------------------------------------------------------------------------
(* The handlers.                                                           *)

LEMMA AdvanceKeeps ==
    ASSUME IInv, NEW p \in Proc, job[p].todo # <<>>, Advance(p), Growing,
           At(p, "insert") /\ job[p].list = "white" => job[p].rules \subseteq ever'["white"],
           StoresTyped', Exempting', feed' \subseteq bloom'
    PROVE  IInv'
<1>1. Typed /\ \A q \in Proc : Justified(q)
  BY DEF IInv
<1>2. job' \in [Proc -> Job] /\ \A q \in Proc : Scripted(job'[q])
  BY <1>1, AdvanceFacts
<1>3. \A q \in Proc : Justified(q)'
  BY <1>1, AdvanceJustified
<1>4. QED BY <1>2, <1>3 DEF IInv, Typed

\* A step that touches no set an exemption is read from.
LEMMA StillExempting ==
    ASSUME Exempting, UNCHANGED <<whiteExact, disk, ever>>,
           Rules("white")' = Rules("white"), Rules("bypass")' = Rules("bypass")
    PROVE  Exempting'
BY DEF Exempting

LEMMA AppendAndInsertKeeps ==
    ASSUME IInv, NEW p \in Proc, AppendAndInsert(p)
    PROVE  IInv'
<1>1. job[p] \in Job /\ job[p].todo # <<>> /\ ~At(p, "insert") /\ Advance(p)
  BY AtFacts DEF IInv, AppendAndInsert, At
<1>2. PICK l \in ListName, rs \in SUBSET Rule : l = job[p].list /\ rs = job[p].rules
  BY <1>1 DEF Job
<1>3. PICK new \in SUBSET Rule : new = rs \ Rules(l)
  BY <1>2
<1>4. /\ disk' = [disk EXCEPT ![l] = disk[l] \cup new] /\ Put(l, new, "manual")
      /\ ever' = [ever EXCEPT ![l] = ever[l] \cup rs]
      /\ want' = [want EXCEPT ![l] = want[l] \cup rs]
      /\ UNCHANGED <<whiteExact, memo, bloom, feed, window>>
  BY <1>2, <1>3 DEF AppendAndInsert, Ask
<1>5. Typed /\ StoresTyped /\ Exempting
  BY DEF IInv, Typed
<1>6. /\ mem' \in [ListName -> [Rule -> Source \cup {Absent}]]
      /\ \A k \in ListName \ {l} : Rules(k)' = Rules(k)
      /\ Rules(l)' = Rules(l) \cup new
  <2>1. "manual" \in Source \cup {Absent} /\ "manual" # Absent
    BY RuleFacts
  <2>2. QED BY <1>4, <1>5, <2>1, PutFacts
<1>7. /\ \A k \in ListName : disk[k] \subseteq Rule /\ ever[k] \subseteq Rule
      /\ \A k \in ListName \ {l} : disk'[k] = disk[k] /\ ever'[k] = ever[k]
      /\ disk'[l] = disk[l] \cup new /\ ever'[l] = ever[l] \cup rs
  BY <1>4, <1>5 DEF StoresTyped
<1>8. StoresTyped'
  BY <1>4, <1>5, <1>6 DEF StoresTyped
<1>9. Growing
  BY <1>4, <1>7, RuleFacts DEF Growing
<1>10. Exempting'
  <2>1. \A r \in Rules("white")' : Matches(ever'["white"], r)
    <3>1. ASSUME NEW r \in Rules("white") PROVE Matches(ever'["white"], r)
      BY <1>5, <1>9, MatchesMore DEF Exempting, Growing
    <3>2. ASSUME l = "white", NEW r \in new PROVE Matches(ever'["white"], r)
      BY <1>3, <1>7, <3>2 DEF Matches
    <3>3. QED BY <1>6, <3>1, <3>2, RuleFacts
  <2>2. Rules("bypass")' \subseteq ever'["bypass"]
    BY <1>3, <1>5, <1>6, <1>7, RuleFacts DEF Exempting
  <2>3. /\ disk'["white"] \subseteq ever'["white"] /\ disk'["bypass"] \subseteq ever'["bypass"]
        /\ whiteExact' \subseteq ever'["white"]
    BY <1>3, <1>4, <1>5, <1>7, <1>9, RuleFacts DEF Exempting, Growing
  <2>4. QED BY <2>1, <2>2, <2>3 DEF Exempting
<1>11. QED BY <1>1, <1>4, <1>8, <1>9, <1>10, AdvanceKeeps DEF IInv

LEMMA InsertKeeps ==
    ASSUME IInv, NEW p \in Proc, Insert(p)
    PROVE  IInv'
<1>1. job[p] \in Job /\ job[p].todo # <<>> /\ Advance(p)
  BY AtFacts DEF IInv, Insert
<1>2. PICK l \in ListName, rs \in SUBSET Rule : l = job[p].list /\ rs = job[p].rules
  BY <1>1 DEF Job
<1>3. PICK s \in Source : Put(l, rs, s) /\ s # Absent
  <2> DEFINE stamp == IF job[p].op = "auto_add" THEN "ai" ELSE "CONSOLE"
  <2>1. stamp = "ai" \/ stamp = "CONSOLE"
    OBVIOUS
  <2>2. Put(l, rs, stamp)
    BY <1>2 DEF Insert
  <2> HIDE DEF stamp
  <2>3. stamp \in Source /\ stamp # Absent
    BY <2>1, RuleFacts, Zenon
  <2>4. QED BY <2>2, <2>3
<1>4. /\ ever' = [ever EXCEPT ![l] = ever[l] \cup rs]
      /\ want' = [want EXCEPT ![l] = want[l] \cup rs]
      /\ UNCHANGED <<whiteExact, disk, memo, bloom, feed, window>>
  BY <1>2 DEF Insert, Ask
<1>5. Typed /\ StoresTyped /\ Exempting
  BY DEF IInv, Typed
<1>6. /\ mem' \in [ListName -> [Rule -> Source \cup {Absent}]]
      /\ \A k \in ListName \ {l} : Rules(k)' = Rules(k)
      /\ Rules(l)' = Rules(l) \cup rs
  BY <1>3, <1>5, PutFacts
<1>7. /\ \A k \in ListName \ {l} : ever'[k] = ever[k]
      /\ ever'[l] = ever[l] \cup rs
  BY <1>4, <1>5 DEF StoresTyped
<1>8. StoresTyped'
  BY <1>4, <1>5, <1>6 DEF StoresTyped
<1>9. Growing
  BY <1>4, <1>7, RuleFacts DEF Growing
<1>10. Exempting'
  <2>1. \A r \in Rules("white")' : Matches(ever'["white"], r)
    <3>1. ASSUME NEW r \in Rules("white") PROVE Matches(ever'["white"], r)
      BY <1>5, <1>9, MatchesMore DEF Exempting, Growing
    <3>2. ASSUME l = "white", NEW r \in rs PROVE Matches(ever'["white"], r)
      BY <1>7, <3>2 DEF Matches
    <3>3. QED BY <1>6, <3>1, <3>2, RuleFacts
  <2>2. Rules("bypass")' \subseteq ever'["bypass"]
    BY <1>5, <1>6, <1>7, RuleFacts DEF Exempting
  <2>3. /\ disk'["white"] \subseteq ever'["white"] /\ disk'["bypass"] \subseteq ever'["bypass"]
        /\ whiteExact' \subseteq ever'["white"]
    BY <1>4, <1>5, <1>9 DEF Exempting, Growing
  <2>4. QED BY <2>1, <2>2, <2>3 DEF Exempting
<1>11. At(p, "insert") /\ job[p].list = "white" => job[p].rules \subseteq ever'["white"]
  BY <1>2, <1>7
<1>12. QED BY <1>1, <1>4, <1>8, <1>9, <1>10, <1>11, AdvanceKeeps DEF IInv

LEMMA AppendLateKeeps ==
    ASSUME IInv, NEW p \in Proc, AppendLate(p)
    PROVE  IInv'
<1>1. /\ job[p] \in Job /\ job[p].todo # <<>> /\ job[p].list = "block" /\ Advance(p)
      /\ ~At(p, "insert")
  BY AtFacts DEF IInv, AppendLate, At
<1>2. PICK rs \in SUBSET Rule : rs = job[p].rules
  BY <1>1 DEF Job
<1>3. /\ disk' = [disk EXCEPT !["block"] = disk["block"] \cup rs]
      /\ UNCHANGED <<mem, whiteExact, memo, bloom, feed, window, want, ever>>
  BY <1>1, <1>2 DEF AppendLate
<1>4. StoresTyped /\ Exempting /\ feed \subseteq bloom
  BY DEF IInv, Typed
<1>5. StoresTyped'
  BY <1>3, <1>4 DEF StoresTyped
<1>6. disk'["white"] = disk["white"] /\ disk'["bypass"] = disk["bypass"]
  BY <1>3, <1>4 DEF StoresTyped
<1>7. Exempting'
  BY <1>3, <1>4, <1>6 DEF Exempting, Rules
<1>8. QED BY <1>1, <1>3, <1>4, <1>5, <1>7, AdvanceKeeps DEF Growing

LEMMA AppendRemovalKeeps ==
    ASSUME IInv, NEW p \in Proc, AppendRemoval(p)
    PROVE  IInv'
<1>1. /\ job[p] \in Job /\ job[p].todo # <<>> /\ Advance(p) /\ ~At(p, "insert")
  BY AtFacts DEF IInv, AppendRemoval, At
<1>2. PICK l \in ListName, rs \in SUBSET Rule : l = job[p].list /\ rs = job[p].rules
  BY <1>1 DEF Job
<1>3. /\ disk' = [disk EXCEPT ![l] = disk[l] \ rs]
      /\ UNCHANGED <<mem, whiteExact, memo, bloom, feed, window, want, ever>>
  BY <1>2 DEF AppendRemoval
<1>4. StoresTyped /\ Exempting /\ feed \subseteq bloom
  BY DEF IInv, Typed
<1>5. StoresTyped' /\ \A k \in ListName : disk'[k] \subseteq disk[k]
  BY <1>3, <1>4 DEF StoresTyped
<1>6. Exempting'
  BY <1>3, <1>4, <1>5, RuleFacts DEF Exempting, Rules
<1>7. QED BY <1>1, <1>3, <1>4, <1>5, <1>6, AdvanceKeeps DEF Growing

\* Lists that lose entries exempt no more than before.
LEMMA FewerExempting ==
    ASSUME Exempting, UNCHANGED <<disk, ever>>, whiteExact' \subseteq whiteExact,
           Rules("white")' \subseteq Rules("white"), Rules("bypass")' \subseteq Rules("bypass")
    PROVE  Exempting'
BY DEF Exempting

LEMMA RemoveKeeps ==
    ASSUME IInv, NEW p \in Proc, Remove(p)
    PROVE  IInv'
<1>1. /\ job[p] \in Job /\ job[p].todo # <<>> /\ Advance(p) /\ ~At(p, "insert")
  BY AtFacts DEF IInv, Remove, At
<1>2. PICK l \in ListName, rs \in SUBSET Rule : l = job[p].list /\ rs = job[p].rules
  BY <1>1 DEF Job
<1>3. /\ Put(l, rs, Absent)
      /\ want' = [want EXCEPT ![l] = want[l] \ rs]
      /\ UNCHANGED <<whiteExact, memo, disk, bloom, feed, window, ever>>
  BY <1>2 DEF Remove
<1>4. Typed /\ StoresTyped /\ Exempting /\ feed \subseteq bloom
  BY DEF IInv, Typed
<1>5. /\ mem' \in [ListName -> [Rule -> Source \cup {Absent}]]
      /\ \A k \in ListName : Rules(k)' \subseteq Rules(k)
  BY <1>3, <1>4, PutFacts
<1>6. StoresTyped'
  BY <1>3, <1>4, <1>5 DEF StoresTyped
<1>7. Exempting'
  BY <1>3, <1>4, <1>5, RuleFacts, FewerExempting
<1>8. QED BY <1>1, <1>3, <1>4, <1>6, <1>7, AdvanceKeeps DEF Growing

LEMMA EmptyListKeeps ==
    ASSUME IInv, NEW p \in Proc, EmptyList(p)
    PROVE  IInv'
<1>1. /\ job[p] \in Job /\ job[p].todo # <<>> /\ Advance(p) /\ ~At(p, "insert")
  BY AtFacts DEF IInv, EmptyList, At
<1>2. PICK l \in ListName : Put(l, Rule, Absent)
  BY <1>1, RuleFacts DEF EmptyList, Job
<1>3. /\ want' = IF job[p].op = "wipe" THEN [k \in ListName |-> {}]
                                        ELSE [want EXCEPT ![job[p].list] = {}]
      /\ UNCHANGED <<whiteExact, memo, disk, bloom, feed, window, ever>>
  BY DEF EmptyList
<1>4. Typed /\ StoresTyped /\ Exempting /\ feed \subseteq bloom
  BY DEF IInv, Typed
<1>5. /\ mem' \in [ListName -> [Rule -> Source \cup {Absent}]]
      /\ \A k \in ListName : Rules(k)' \subseteq Rules(k)
  BY <1>2, <1>4, PutFacts
<1>6. want' \in [ListName -> SUBSET Rule]
  BY <1>3, <1>4 DEF StoresTyped
<1>7. StoresTyped'
  BY <1>3, <1>4, <1>5, <1>6 DEF StoresTyped
<1>8. Exempting'
  BY <1>3, <1>4, <1>5, RuleFacts, FewerExempting
<1>9. QED BY <1>1, <1>3, <1>4, <1>7, <1>8, AdvanceKeeps DEF Growing

LEMMA ClearLogKeeps ==
    ASSUME IInv, NEW p \in Proc, ClearLog(p)
    PROVE  IInv'
<1>1. /\ job[p] \in Job /\ job[p].todo # <<>> /\ Advance(p) /\ ~At(p, "insert")
  BY AtFacts DEF IInv, ClearLog, At
<1>2. /\ disk' = [l \in ListName |-> {}]
      /\ UNCHANGED <<mem, whiteExact, memo, bloom, feed, window, want, ever>>
  BY DEF ClearLog
<1>3. StoresTyped /\ Exempting /\ feed \subseteq bloom
  BY DEF IInv, Typed
<1>4. StoresTyped' /\ \A k \in ListName : disk'[k] = {}
  BY <1>2, <1>3 DEF StoresTyped
<1>5. Exempting'
  BY <1>2, <1>3, <1>4, RuleFacts DEF Exempting, Rules
<1>6. QED BY <1>1, <1>2, <1>3, <1>4, <1>5, AdvanceKeeps DEF Growing

LEMMA WhitelistExactKeeps ==
    ASSUME IInv, NEW p \in Proc, WhitelistExact(p)
    PROVE  IInv'
<1>1. /\ job[p] \in Job /\ job[p].todo # <<>> /\ Advance(p) /\ ~At(p, "insert")
  BY AtFacts DEF IInv, WhitelistExact, At
<1>2. UNCHANGED <<mem, memo, disk, bloom, feed, window, want, ever>>
  BY DEF WhitelistExact
<1>3. StoresTyped /\ Exempting /\ feed \subseteq bloom
  BY DEF IInv, Typed
<1>4. whiteExact' \subseteq Domain /\ whiteExact' \subseteq ever["white"]
  <2>1. CASE At(p, "insert exact") /\ whiteExact' = whiteExact \cup (job[p].rules \cap Domain)
    <3>1. job[p].rules \subseteq ever["white"]
      BY <2>1 DEF IInv, Justified
    <3>2. QED BY <1>3, <2>1, <3>1 DEF StoresTyped, Exempting
  <2>2. CASE whiteExact' = whiteExact \ job[p].rules
    BY <1>3, <2>2 DEF StoresTyped, Exempting
  <2>3. QED BY <2>1, <2>2 DEF WhitelistExact
<1>5. StoresTyped'
  BY <1>2, <1>3, <1>4 DEF StoresTyped
<1>6. Exempting'
  BY <1>2, <1>3, <1>4 DEF Exempting, Rules
<1>7. QED BY <1>1, <1>2, <1>3, <1>5, <1>6, AdvanceKeeps DEF Growing

LEMMA InsertBloomKeeps ==
    ASSUME IInv, NEW p \in Proc, InsertBloom(p)
    PROVE  IInv'
<1>1. /\ job[p] \in Job /\ job[p].todo # <<>> /\ Advance(p) /\ ~At(p, "insert")
  BY AtFacts DEF IInv, InsertBloom, At
<1>2. /\ bloom' = bloom \cup job[p].rules /\ job[p].rules \subseteq Rule
      /\ UNCHANGED <<mem, whiteExact, memo, feed, disk, window, want, ever>>
  BY <1>1 DEF InsertBloom, Job
<1>3. StoresTyped /\ Exempting /\ feed \subseteq bloom
  BY DEF IInv, Typed
<1>4. StoresTyped'
  BY <1>2, <1>3 DEF StoresTyped
<1>5. Exempting' /\ feed' \subseteq bloom'
  BY <1>2, <1>3 DEF Exempting, Rules
<1>6. QED BY <1>1, <1>2, <1>4, <1>5, AdvanceKeeps DEF Growing

LEMMA FlushKeeps ==
    ASSUME IInv, NEW p \in Proc, Flush(p)
    PROVE  IInv'
<1>1. /\ job[p] \in Job /\ job[p].todo # <<>> /\ Advance(p) /\ ~At(p, "insert")
  BY AtFacts DEF IInv, Flush, At
<1>2. /\ memo' = [d \in Domain |-> Absent]
      /\ UNCHANGED <<mem, whiteExact, disk, bloom, feed, window, want, ever>>
  BY DEF Flush
<1>3. StoresTyped /\ Exempting /\ feed \subseteq bloom
  BY DEF IInv, Typed
<1>4. StoresTyped'
  BY <1>2, <1>3 DEF StoresTyped
<1>5. Exempting'
  BY <1>2, <1>3 DEF Exempting, Rules
<1>6. QED BY <1>1, <1>2, <1>3, <1>4, <1>5, AdvanceKeeps DEF Growing

LEMMA ReplyKeeps ==
    ASSUME IInv, NEW p \in Proc, Reply(p)
    PROVE  IInv'
<1>1. /\ UNCHANGED <<mem, whiteExact, memo, disk, bloom, feed, window, want, ever>>
      /\ job' = [job EXCEPT ![p] = Idle]
  BY DEF Reply
<1>2. Typed /\ \A q \in Proc : Justified(q)
  BY DEF IInv
<1>3. /\ job' \in [Proc -> Job] /\ job'[p] = Idle
      /\ \A q \in Proc \ {p} : job'[q] = job[q]
  BY <1>1, <1>2, IdleScripted DEF Typed
<1>4. Typed'
  BY <1>1, <1>2, <1>3, IdleScripted DEF Typed, StoresTyped
<1>5. \A q \in Proc : Justified(q)'
  BY <1>1, <1>2, <1>3, IdleJustified, StillJustified DEF Growing
<1>6. Exempting' /\ feed' \subseteq bloom'
  BY <1>1 DEF IInv, Exempting, Rules
<1>7. QED BY <1>4, <1>5, <1>6 DEF IInv

-----------------------------------------------------------------------------
(* The queries.                                                            *)

\* A step of one thread that changes nothing but its own record.
LEMMA OwnStepKeeps ==
    ASSUME IInv, NEW p \in Proc,
           UNCHANGED <<mem, whiteExact, memo, disk, bloom, feed, window, want, ever>>,
           job' \in [Proc -> Job], \A q \in Proc : Scripted(job'[q]),
           \A q \in Proc \ {p} : job'[q] = job[q], Justified(p)'
    PROVE  IInv'
<1>1. Typed'
  BY DEF IInv, Typed, StoresTyped
<1>2. \A q \in Proc : Justified(q)'
  <2>1. ASSUME NEW q \in Proc \ {p} PROVE Justified(q)'
    <3>1. job'[q] = job[q] /\ Justified(q) /\ Growing
      BY DEF IInv, Growing
    <3>2. QED BY <3>1, StillJustified
  <2>2. QED BY <2>1
<1>3. Exempting' /\ feed' \subseteq bloom'
  BY StillExempting DEF IInv, Rules
<1>4. QED BY <1>1, <1>2, <1>3 DEF IInv

LEMMA BeginQueryKeeps ==
    ASSUME IInv, NEW p \in Proc, BeginQuery(p)
    PROVE  IInv'
<1>1. PICK d \in Domain, proto \in Protos :
         job' = [job EXCEPT ![p] = [Idle EXCEPT !.op = "query", !.rules = {d},
                                                !.todo = QueryScript(proto),
                                                !.clean = Quiet, !.fed = feed]]
  BY DEF BeginQuery
<1>2. UNCHANGED <<mem, whiteExact, memo, disk, bloom, feed, window, want, ever>>
  BY DEF BeginQuery
<1>3. PICK c \in BOOLEAN : c = Quiet
  BY DEF Quiet
<1>4. PICK j : j = [Idle EXCEPT !.op = "query", !.rules = {d}, !.todo = QueryScript(proto),
                                !.clean = c, !.fed = feed]
  OBVIOUS
<1>5. feed \in SUBSET Feed /\ feed \subseteq bloom /\ job \in [Proc -> Job]
      /\ \A q \in Proc : Scripted(job[q])
  BY DEF IInv, Typed, StoresTyped
<1>6. Scripted(j) /\ j \in Job
  <2>1. Scripted(j)
    BY <1>4, <1>5, QueryScripted
  <2>2. QED BY <2>1 DEF Scripted
<1>7. job' = [job EXCEPT ![p] = j]
  BY <1>1, <1>3, <1>4
<1>8. /\ job' \in [Proc -> Job] /\ \A q \in Proc \ {p} : job'[q] = job[q]
      /\ job'[p] = j
  BY <1>5, <1>6, <1>7
<1>9. \A q \in Proc : Scripted(job'[q])
  BY <1>5, <1>6, <1>8
<1>10. Justified(p)'
  <2>1. PICK t \in Seq(LookStep) : t = QueryScript(proto)
    BY QueryScripts
  <2>2. j.todo = t /\ j.verdict = Absent /\ j.fed = feed
    BY <1>4, <2>1 DEF Idle
  <2>3. ASSUME t # <<>> PROVE Head(t) \notin {"learn white", "insert exact"}
    <3>1. Head(t) \in LookStep
      BY <2>1, <2>3
    <3>2. QED BY <3>1 DEF LookStep
  <2>4. ~At(p, "learn white")' /\ ~At(p, "insert exact")'
    BY <1>8, <2>2, <2>3 DEF At
  <2>5. ~Decided(p)' /\ job'[p].fed \subseteq bloom'
    BY <1>2, <1>5, <1>8, <2>2 DEF Decided
  <2>6. QED BY <2>4, <2>5 DEF Justified
<1>11. QED BY <1>2, <1>8, <1>9, <1>10, OwnStepKeeps

\* An answer is justified by the lists the query looked at.
LEMMA DecideKeeps ==
    ASSUME IInv, NEW p \in Proc, job[p].op = "query", NEW v \in {"allow", "block"},
           NEW r \in Reason \cup {Absent}, NEW t \in AfterAllow \cup AfterBlock,
           r \in Reason \/ t \in AfterAllow, Decide(p, v, r, t),
           t = <<"learn white">> => \A d \in job[p].rules : Matches(ever["white"], d),
           v = "allow" => \A d \in job[p].rules : Matches(job[p].fed, d) => Exempt(d),
           UNCHANGED <<mem, whiteExact, memo, disk, bloom, feed, window, want, ever>>
    PROVE  IInv'
<1>1. /\ job' \in [Proc -> Job] /\ \A q \in Proc : Scripted(job'[q])
      /\ \A q \in Proc \ {p} : job'[q] = job[q]
      /\ job'[p].rules = job[p].rules /\ job'[p].fed = job[p].fed
      /\ job'[p].verdict = v /\ job'[p].todo = t
  <2> DEFINE k == [job[p] EXCEPT !.verdict = v, !.reason = r, !.todo = t]
  <2>1. /\ job \in [Proc -> Job] /\ job[p] \in Job /\ Scripted(job[p])
        /\ \A q \in Proc : Scripted(job[q])
    BY DEF IInv, Typed
  <2>2. Scripted(k)
    BY <2>1, DecidedScripted
  <2>3. k \in Job
    BY <2>2 DEF Scripted
  <2>4. job' = [job EXCEPT ![p] = k]
    BY DEF Decide
  <2>5. /\ k.rules = job[p].rules /\ k.fed = job[p].fed
        /\ k.verdict = v /\ k.todo = t
    BY <2>1 DEF Job
  <2> HIDE DEF k
  <2>6. /\ job' \in [Proc -> Job] /\ job'[p] = k
        /\ \A q \in Proc \ {p} : job'[q] = job[q]
    BY <2>1, <2>3, <2>4
  <2>7. QED BY <2>1, <2>2, <2>5, <2>6
<1>2. ASSUME NEW s, At(p, s)'
      PROVE  \/ s \in {"memoise", "learn block"}
             \/ s = "learn white" /\ t = <<"learn white">>
  <2>1. t # <<>> /\ s = Head(t) /\ t \in Seq(QueryStep)
    BY <1>1, <1>2, AfterDecision DEF At
  <2>2. s = t[1] /\ 1 \in 1..Len(t)
    BY <2>1, FirstOf
  <2>3. CASE t \in AfterBlock
    BY <2>2, <2>3, AfterDecision
  <2>4. CASE t \in AfterAllow
    <3>1. t = <<"learn white">>
      BY <2>1, <2>4 DEF AfterAllow
    <3>2. s = "learn white"
      BY <2>2, <2>4, AfterDecision
    <3>3. QED BY <3>1, <3>2
  <2>5. QED BY <2>3, <2>4
<1>3. At(p, "learn white")' => \A d \in job'[p].rules : Matches(ever'["white"], d)
  BY <1>1, <1>2
<1>4. ~At(p, "insert exact")'
  <2>1. "insert exact" \notin {"memoise", "learn block"} /\ "insert exact" # "learn white"
    OBVIOUS
  <2>2. QED BY <1>2, <2>1, Zenon
<1>5. job'[p].verdict = "allow" =>
         \A d \in job'[p].rules : Matches(job'[p].fed, d) => Exempt(d)'
  BY <1>1 DEF Exempt
<1>6. job'[p].fed \subseteq bloom'
  BY <1>1 DEF IInv, Justified
<1>7. Justified(p)'
  BY <1>3, <1>4, <1>5, <1>6 DEF Justified
<1>8. QED BY <1>1, <1>7, OwnStepKeeps

\* A look that does not match goes on to the next.
LEMMA LookOnKeeps ==
    ASSUME IInv, NEW p \in Proc, NEW s \in LookStep, At(p, s), Advance(p),
           UNCHANGED <<mem, whiteExact, memo, disk, bloom, feed, window, want, ever>>
    PROVE  IInv'
<1>1. job[p].todo # <<>> /\ ~At(p, "insert")
  BY DEF At, LookStep
<1>2. StoresTyped' /\ Exempting' /\ feed' \subseteq bloom' /\ Growing
  BY StillExempting DEF IInv, Typed, StoresTyped, Rules, Growing
<1>3. QED BY <1>1, <1>2, AdvanceKeeps

\* A look is taken for a query, and for its only name.
LEMMA LookFacts ==
    ASSUME IInv, NEW p \in Proc, NEW s \in QueryStep, At(p, s), NEW d \in job[p].rules
    PROVE  job[p].op = "query" /\ d \in Domain /\ job[p].rules = {d}
<1>1. s \notin HandlerStep
  BY DEF QueryStep, LookStep, HandlerStep
<1>2. job[p].op = "query"
  BY <1>1, AtFacts DEF IInv
<1>3. \E e \in Domain : job[p].rules = {e}
  BY <1>2 DEF IInv, Typed, Scripted
<1>4. QED BY <1>2, <1>3

\* A pattern above a name that is itself exempt exempts the name.
LEMMA ExemptionReachesDown ==
    ASSUME IInv, NEW d \in Domain, Matches(Rules("white"), d)
    PROVE  Matches(ever["white"], d)
<1>1. ever["white"] \subseteq Rule /\ Rules("white") \subseteq Rule
  BY RuleFacts DEF IInv, Typed, StoresTyped, Rules
<1>2. CASE d \in Rules("white")
  BY <1>2 DEF IInv, Exempting
<1>3. CASE Above(Rules("white"), d) # {}
  <2>1. PICK r \in Rules("white") : <<r, d>> \in Covers
    BY <1>3 DEF Above
  <2>2. Matches(ever["white"], r)
    BY <2>1 DEF IInv, Exempting
  <2>3. CASE r \in ever["white"]
    BY <2>1, <2>3 DEF Matches, Above
  <2>4. CASE Above(ever["white"], r) # {}
    <3>1. PICK s \in ever["white"] : <<s, r>> \in Covers
      BY <2>4 DEF Above
    <3>2. s \in Rule /\ r \in Domain
      BY <1>1, <3>1, ConstantsAssumption
    <3>3. <<s, d>> \in Covers
      BY <2>1, <3>1, <3>2, ConstantsAssumption
    <3>4. QED BY <3>1, <3>3 DEF Matches, Above
  <2>5. QED BY <2>2, <2>3, <2>4 DEF Matches
<1>4. QED BY <1>2, <1>3 DEF Matches

LEMMA ReasonTags == \A source : ReasonTag(source) \in Reason
BY DEF ReasonTag, Reason

LEMMA Afterwards ==
    /\ <<>> \in AfterAllow /\ <<"learn white">> \in AfterAllow
    /\ Learn \in AfterBlock /\ MemoAndLearn \in AfterBlock
    /\ <<"memoise", "learn block">> \in AfterBlock
    /\ \A t \in AfterBlock : t # <<"learn white">>
    /\ <<>> # <<"learn white">>
BY DEF AfterAllow, AfterBlock, Learn, MemoAndLearn

\* A refusal needs a reason only.
LEMMA RefuseKeeps ==
    ASSUME IInv, NEW p \in Proc, job[p].op = "query", NEW r \in Reason,
           NEW t \in AfterBlock, Decide(p, "block", r, t),
           UNCHANGED <<mem, whiteExact, memo, disk, bloom, feed, window, want, ever>>
    PROVE  IInv'
<1>1. "block" # "allow" /\ t # <<"learn white">>
  BY Afterwards
<1>2. QED BY <1>1, DecideKeeps

LEMMA LookKeeps ==
    ASSUME IInv, NEW p \in Proc, Look(p)
    PROVE  IInv'
<1>1. UNCHANGED <<mem, whiteExact, memo, disk, bloom, feed, window, want, ever>>
  BY DEF Look
<1>2. PICK d \in job[p].rules :
         \/ LookBypass(p, d) \/ LookBypassFast(p, d) \/ LookWhite(p, d)
         \/ LookMemo(p, d) \/ LookSchedule(p, d) \/ LookBlock(p, d)
         \/ LookWildcardWhite(p, d) \/ LookWildcardBlock(p, d) \/ LookFeed(p, d)
  BY DEF Look
<1>3. PICK s \in LookStep : At(p, s)
  BY <1>2 DEF LookBypass, LookBypassFast, LookWhite, LookMemo, LookSchedule, LookBlock,
              LookWildcardWhite, LookWildcardBlock, LookFeed, LookStep
<1>4. job[p].op = "query" /\ d \in Domain /\ job[p].rules = {d}
  BY <1>3, LookFacts DEF QueryStep
<1>5. Advance(p) => IInv'
  BY <1>1, <1>3, LookOnKeeps
<1>6. \A r \in Reason, t \in AfterBlock : Decide(p, "block", r, t) => IInv'
  BY <1>1, <1>4, RefuseKeeps
<1>7. ASSUME Decide(p, "allow", Absent, <<"learn white">>), Matches(Rules("white"), d)
      PROVE  IInv'
  <2>1. Matches(ever["white"], d)
    BY <1>4, <1>7, ExemptionReachesDown
  <2>2. Exempt(d)
    BY <2>1, MatchesMore DEF Exempt
  <2>3. QED BY <1>1, <1>4, <1>7, <2>1, <2>2, Afterwards, DecideKeeps
<1>8. ASSUME Decide(p, "allow", Absent, <<>>), Matches(job[p].fed, d) => Exempt(d)
      PROVE  IInv'
  BY <1>1, <1>4, <1>8, Afterwards, DecideKeeps
<1>9. Learn \in AfterBlock /\ MemoAndLearn \in AfterBlock
      /\ <<"memoise", "learn block">> \in AfterBlock
  BY Afterwards
<1>10. CASE LookBypass(p, d)
  <2>1. CASE Matches(Rules("bypass"), d)
    <3>1. Exempt(d)
      <4>1. Rules("bypass") \subseteq ever["white"] \cup ever["bypass"]
        BY DEF IInv, Exempting
      <4>2. QED BY <2>1, <4>1, MatchesMore DEF Exempt
    <3>2. Decide(p, "allow", Absent, <<>>)
      BY <1>10, <2>1 DEF LookBypass
    <3>3. QED BY <1>8, <3>1, <3>2
  <2>2. CASE ~Matches(Rules("bypass"), d)
    BY <1>5, <1>10, <2>2 DEF LookBypass
  <2>3. QED BY <2>1, <2>2
<1>11. CASE LookBypassFast(p, d)
  <2>1. CASE Matches(Rules("bypass"), d)
    <3>1. PICK k : k = [job[p] EXCEPT !.todo = CheckDomain]
      OBVIOUS
    <3>2. /\ job' = [job EXCEPT ![p] = k] /\ job \in [Proc -> Job] /\ job[p] \in Job
          /\ \A q \in Proc : Scripted(job[q]) /\ Justified(q)
      BY <1>11, <2>1, <3>1 DEF LookBypassFast, IInv, Typed
    <3>3. CheckDomain \in Seq(LookStep) /\ CheckDomain \in Seq(QueryStep \cup HandlerStep)
      <4>1. CheckDomain \in Seq(LookStep)
        BY CheckDomainLooks
      <4>2. LookStep \subseteq QueryStep \cup HandlerStep
        BY DEF QueryStep
      <4>3. QED BY <4>1, <4>2, SeqMonotonic
    <3>4. /\ k \in Job /\ k.op = "query" /\ k.rules = {d} /\ k.todo = CheckDomain
          /\ k.verdict = job[p].verdict /\ k.fed = job[p].fed
      BY <1>4, <3>1, <3>2, <3>3 DEF Job
    <3>5. Scripted(k)
      BY <1>4, <3>3, <3>4, LooksScripted
    <3>6. /\ job' \in [Proc -> Job] /\ job'[p] = k
          /\ \A q \in Proc \ {p} : job'[q] = job[q]
      BY <3>2, <3>4
    <3>7. \A q \in Proc : Scripted(job'[q])
      BY <3>2, <3>5, <3>6
    <3>8. ~At(p, "learn white")' /\ ~At(p, "insert exact")'
      <4>1. ASSUME NEW step, At(p, step)' PROVE step \in LookStep
        BY <3>3, <3>4, <3>6, <4>1, FirstOf DEF At
      <4>2. "learn white" \notin LookStep /\ "insert exact" \notin LookStep
        BY DEF LookStep
      <4>3. QED BY <4>1, <4>2
    <3>9. job'[p].verdict = "allow" =>
             \A e \in job'[p].rules : Matches(job'[p].fed, e) => Exempt(e)'
      BY <1>1, <1>4, <3>2, <3>4, <3>6 DEF Justified, Decided, Exempt, Absent
    <3>10. Justified(p)'
      BY <1>1, <3>2, <3>4, <3>6, <3>8, <3>9 DEF Justified
    <3>11. QED BY <1>1, <3>6, <3>7, <3>10, OwnStepKeeps
  <2>2. CASE ~Matches(Rules("bypass"), d)
    BY <1>5, <1>11, <2>2 DEF LookBypassFast
  <2>3. QED BY <2>1, <2>2
<1>12. CASE LookWhite(p, d)
  <2>1. CASE d \in Rules("white")
    BY <1>7, <1>12, <2>1 DEF LookWhite, Matches
  <2>2. CASE d \in whiteExact
    <3>1. Matches(ever["white"], d) /\ Exempt(d)
      BY <2>2 DEF IInv, Exempting, Matches, Exempt
    <3>2. Decide(p, "allow", Absent, <<"learn white">>)
      BY <1>12, <2>2 DEF LookWhite
    <3>3. QED BY <1>1, <1>4, <3>1, <3>2, Afterwards, DecideKeeps
  <2>3. QED BY <1>5, <1>12, <2>1, <2>2 DEF LookWhite
<1>13. CASE LookMemo(p, d)
  <2>1. memo[d] \in Reason \cup {Absent}
    BY <1>4 DEF IInv, Typed, StoresTyped
  <2>2. QED BY <1>5, <1>6, <1>9, <1>13, <2>1 DEF LookMemo
<1>14. CASE LookSchedule(p, d)
  <2>1. "schedule_block" \in Reason
    BY DEF Reason
  <2>2. QED BY <1>5, <1>6, <1>9, <1>14, <2>1 DEF LookSchedule
<1>15. CASE LookBlock(p, d)
  <2>1. "threat_feed_abir" \in Reason
    BY DEF Reason
  <2>2. \/ Decide(p, "block", ReasonTag(mem["block"][d]), MemoAndLearn)
        \/ Decide(p, "block", "threat_feed_abir", MemoAndLearn)
        \/ Advance(p)
    BY <1>15 DEF LookBlock
  <2>3. QED BY <1>5, <1>6, <1>9, <2>1, <2>2, ReasonTags
<1>16. CASE LookWildcardWhite(p, d)
  BY <1>5, <1>7, <1>16 DEF LookWildcardWhite, Matches
<1>17. CASE LookWildcardBlock(p, d)
  BY <1>5, <1>6, <1>9, <1>17, ReasonTags DEF LookWildcardBlock
<1>18. CASE LookFeed(p, d)
  <2>1. CASE Matches(bloom, d)
    <3>1. "threat_feed_abir" \in Reason
      BY DEF Reason
    <3>2. Decide(p, "block", "threat_feed_abir", MemoAndLearn)
      BY <1>18, <2>1 DEF LookFeed
    <3>3. QED BY <1>6, <1>9, <3>1, <3>2
  <2>2. CASE ~Matches(bloom, d)
    <3>1. job[p].fed \subseteq bloom
      BY DEF IInv, Justified
    <3>2. ~Matches(job[p].fed, d)
      BY <2>2, <3>1, MatchesMore
    <3>3. Decide(p, "allow", Absent, <<>>)
      BY <1>18, <2>2 DEF LookFeed
    <3>4. QED BY <1>8, <3>2, <3>3
  <2>3. QED BY <2>1, <2>2
<1>19. QED BY <1>2, <1>10, <1>11, <1>12, <1>13, <1>14, <1>15, <1>16, <1>17, <1>18

LEMMA MemoiseKeeps ==
    ASSUME IInv, NEW p \in Proc, Memoise(p)
    PROVE  IInv'
<1>1. /\ job[p].todo # <<>> /\ job[p].reason \in Reason /\ Advance(p) /\ ~At(p, "insert")
  BY AtFacts DEF IInv, Memoise, At
<1>2. PICK d \in job[p].rules : memo' = [memo EXCEPT ![d] = job[p].reason]
  BY DEF Memoise
<1>3. d \in Domain
  BY LookFacts DEF Memoise, QueryStep
<1>4. UNCHANGED <<mem, whiteExact, disk, bloom, feed, window, want, ever>>
  BY DEF Memoise
<1>5. StoresTyped /\ Exempting /\ feed \subseteq bloom
  BY DEF IInv, Typed
<1>6. StoresTyped'
  BY <1>1, <1>2, <1>3, <1>4, <1>5 DEF StoresTyped
<1>7. Exempting' /\ feed' \subseteq bloom' /\ Growing
  BY <1>4, <1>5, StillExempting DEF Rules, Growing
<1>8. QED BY <1>1, <1>6, <1>7, AdvanceKeeps

\* What is learned as whitelisted already was, as the look that let it learn says.
LEMMA LearnWhiteKeeps ==
    ASSUME IInv, NEW p \in Proc, LearnWhite(p)
    PROVE  IInv'
<1>1. /\ job[p].todo # <<>> /\ Advance(p) /\ ~At(p, "insert") /\ At(p, "learn white")
  BY DEF LearnWhite, At
<1>2. PICK d \in job[p].rules : Put("white", {d}, "system") \/ UNCHANGED mem
  BY DEF LearnWhite
<1>3. UNCHANGED <<whiteExact, memo, disk, bloom, feed, window, want, ever>>
  BY DEF LearnWhite
<1>4. d \in Rule /\ Matches(ever["white"], d)
  <2>1. d \in Domain
    BY <1>1, LookFacts DEF QueryStep
  <2>2. QED BY <1>1, <2>1, RuleFacts DEF IInv, Justified
<1>5. Typed /\ StoresTyped /\ Exempting /\ feed \subseteq bloom
  BY DEF IInv, Typed
<1>6. /\ mem' \in [ListName -> [Rule -> Source \cup {Absent}]]
      /\ Rules("bypass")' = Rules("bypass")
      /\ Rules("white")' \subseteq Rules("white") \cup {d}
  <2>1. CASE Put("white", {d}, "system")
    <3>1. /\ "system" \in Source \cup {Absent} /\ "system" # Absent
          /\ "bypass" \in ListName \ {"white"} /\ "white" \in ListName
      BY RuleFacts
    <3>2. PICK s \in Source \cup {Absent}, rs \in SUBSET Rule :
             s # Absent /\ rs = {d} /\ Put("white", rs, s)
      BY <1>4, <2>1, <3>1
    <3>3. /\ mem' \in [ListName -> [Rule -> Source \cup {Absent}]]
          /\ \A k \in ListName \ {"white"} : Rules(k)' = Rules(k)
          /\ Rules("white")' = Rules("white") \cup rs
      BY <1>5, <3>1, <3>2, PutFacts
    <3>4. QED BY <3>1, <3>2, <3>3
  <2>2. CASE UNCHANGED mem
    BY <1>5, <2>2 DEF StoresTyped, Rules
  <2>3. QED BY <1>2, <2>1, <2>2
<1>7. StoresTyped'
  BY <1>3, <1>5, <1>6 DEF StoresTyped
<1>8. Exempting' /\ feed' \subseteq bloom' /\ Growing
  <2>1. \A r \in Rules("white")' : Matches(ever'["white"], r)
    BY <1>3, <1>4, <1>5, <1>6 DEF Exempting
  <2>2. QED BY <1>3, <1>5, <1>6, <2>1 DEF Exempting, Growing
<1>9. QED BY <1>1, <1>7, <1>8, AdvanceKeeps

\* Detections and the evictions they cause stay within the blocklist.
LEMMA LearnBlockKeeps ==
    ASSUME IInv, NEW p \in Proc, LearnBlock(p)
    PROVE  IInv'
<1>1. /\ job[p].todo # <<>> /\ Advance(p) /\ ~At(p, "insert") /\ At(p, "learn block")
      /\ job[p].reason \in Reason
  BY AtFacts DEF IInv, LearnBlock, At
<1>2. PICK source : source = DetectedSource(job[p].reason)
  OBVIOUS
<1>3. source \in Source \cup {Absent} /\ source # Absent
  BY <1>1, <1>2 DEF DetectedSource, Reason, Source, Absent
<1>4. PICK d \in job[p].rules :
         \/ UNCHANGED mem
         \/ Put("block", {d}, source)
         \/ \E r \in Rule : mem' = [mem EXCEPT !["block"][r] = Absent, !["block"][d] = source]
  BY <1>2 DEF LearnBlock, Oldest, Rules
<1>5. UNCHANGED <<whiteExact, memo, disk, bloom, feed, window, want, ever>>
  BY DEF LearnBlock
<1>6. d \in Rule
  BY <1>1, LookFacts, RuleFacts DEF QueryStep
<1>7. Typed /\ StoresTyped /\ Exempting /\ feed \subseteq bloom
  BY DEF IInv, Typed
<1>8. /\ mem' \in [ListName -> [Rule -> Source \cup {Absent}]]
      /\ \A k \in ListName \ {"block"} : mem'[k] = mem[k]
  <2>1. CASE UNCHANGED mem
    BY <1>7, <2>1 DEF StoresTyped
  <2>2. CASE Put("block", {d}, source)
    BY <1>3, <1>7, <2>2 DEF StoresTyped, Put
  <2>3. ASSUME NEW r \in Rule,
               mem' = [mem EXCEPT !["block"][r] = Absent, !["block"][d] = source]
        PROVE  /\ mem' \in [ListName -> [Rule -> Source \cup {Absent}]]
               /\ \A k \in ListName \ {"block"} : mem'[k] = mem[k]
    BY <1>3, <1>6, <1>7, <2>3 DEF StoresTyped
  <2>4. QED BY <1>4, <2>1, <2>2, <2>3
<1>9. Rules("white")' = Rules("white") /\ Rules("bypass")' = Rules("bypass")
  <2>1. mem'["white"] = mem["white"] /\ mem'["bypass"] = mem["bypass"]
    BY <1>8 DEF ListName
  <2>2. QED BY <2>1 DEF Rules
<1>10. StoresTyped'
  BY <1>5, <1>7, <1>8 DEF StoresTyped
<1>11. Exempting' /\ feed' \subseteq bloom' /\ Growing
  BY <1>5, <1>7, <1>9, StillExempting DEF Growing
<1>12. QED BY <1>1, <1>10, <1>11, AdvanceKeeps

-----------------------------------------------------------------------------
(* The environment.                                                        *)

LEMMA ExpireKeeps ==
    ASSUME IInv, Expire
    PROVE  IInv'
<1>1. PICK d \in Domain : memo' = [memo EXCEPT ![d] = Absent]
  BY DEF Expire
<1>2. UNCHANGED <<mem, whiteExact, disk, bloom, feed, window, job, want, ever>>
  BY DEF Expire
<1>3. StoresTyped'
  BY <1>1, <1>2 DEF IInv, Typed, StoresTyped
<1>4. Typed'
  BY <1>2, <1>3 DEF IInv, Typed
<1>5. Exempting' /\ feed' \subseteq bloom' /\ Growing
  BY <1>2, StillExempting DEF IInv, Rules, Growing
<1>6. \A q \in Proc : Justified(q)'
  BY <1>2, <1>5, StillJustified DEF IInv
<1>7. QED BY <1>4, <1>5, <1>6 DEF IInv

\* Every query under way is told of a change.
LEMMA WatchersKeep ==
    ASSUME IInv, NEW f, \A q \in Proc : job[q].fed \cap f \subseteq bloom',
           job' = Overlap(f), UNCHANGED ever,
           StoresTyped', Exempting', feed' \subseteq bloom'
    PROVE  IInv'
<1>1. ASSUME NEW q \in Proc
      PROVE  Scripted(job'[q]) /\ job'[q] \in Job /\ Justified(q)'
  <2>1. Typed /\ Justified(q)
    BY DEF IInv
  <2>2. PICK g : g = job[q].fed \cap f
    OBVIOUS
  <2>3. job'[q] = [job[q] EXCEPT !.clean = FALSE, !.fed = g]
    BY <2>2 DEF Overlap
  <2>4. g \subseteq job[q].fed /\ g \subseteq bloom'
    BY <2>2
  <2>5. QED BY <2>1, <2>3, <2>4, WatchedJustified
<1>2. job' \in [Proc -> Job]
  <2>1. job' = [q \in Proc |-> job'[q]]
    BY DEF Overlap
  <2>2. QED BY <1>1, <2>1
<1>3. QED BY <1>1, <1>2 DEF IInv, Typed

LEMMA HourChangesKeeps ==
    ASSUME IInv, HourChanges
    PROVE  IInv'
<1>1. /\ window' \subseteq Windows /\ job' = Overlap(feed)
      /\ UNCHANGED <<mem, whiteExact, bloom, feed, memo, disk, want, ever>>
  BY DEF HourChanges
<1>2. StoresTyped'
  BY <1>1 DEF IInv, Typed, StoresTyped
<1>3. Exempting' /\ feed' \subseteq bloom'
  BY <1>1, StillExempting DEF IInv, Rules
<1>4. \A q \in Proc : job[q].fed \cap feed \subseteq bloom'
  BY <1>1 DEF IInv
<1>5. QED BY <1>1, <1>2, <1>3, <1>4, WatchersKeep

LEMMA SyncThreatFeedKeeps ==
    ASSUME IInv, SyncThreatFeed
    PROVE  IInv'
<1>1. /\ feed' \subseteq Feed /\ bloom' = feed' /\ job' = Overlap(feed')
      /\ UNCHANGED <<mem, whiteExact, memo, disk, window, want, ever>>
  BY DEF SyncThreatFeed
<1>2. StoresTyped'
  BY <1>1, ConstantsAssumption DEF IInv, Typed, StoresTyped
<1>3. Exempting' /\ feed' \subseteq bloom'
  BY <1>1, StillExempting DEF IInv, Rules
<1>4. PICK f : f = feed'
  OBVIOUS
<1>5. job' = Overlap(f) /\ \A q \in Proc : job[q].fed \cap f \subseteq bloom'
  BY <1>1, <1>4
<1>6. QED BY <1>1, <1>2, <1>3, <1>5, WatchersKeep

LEMMA SyncWhitelistFeedKeeps ==
    ASSUME IInv, SyncWhitelistFeed
    PROVE  IInv'
<1>1. /\ whiteExact' = {} /\ job' = Overlap(feed)
      /\ UNCHANGED <<mem, bloom, feed, memo, disk, window, want, ever>>
  BY DEF SyncWhitelistFeed
<1>2. StoresTyped'
  BY <1>1 DEF IInv, Typed, StoresTyped
<1>3. Exempting' /\ feed' \subseteq bloom'
  BY <1>1 DEF IInv, Exempting, Rules
<1>4. \A q \in Proc : job[q].fed \cap feed \subseteq bloom'
  BY <1>1 DEF IInv
<1>5. QED BY <1>1, <1>2, <1>3, <1>4, WatchersKeep

\* What a restart loads, an administrator once added.
LEMMA RestartKeeps ==
    ASSUME IInv, Restart
    PROVE  IInv'
<1>1. /\ mem' = [l \in ListName |-> [r \in Rule |-> IF r \in disk[l] THEN "manual" ELSE Absent]]
      /\ whiteExact' = {} /\ bloom' = {} /\ feed' = {}
      /\ memo' = [d \in Domain |-> Absent]
      /\ job' = [p \in Proc |-> Idle]
      /\ UNCHANGED <<disk, window, ever>>
  BY DEF Restart
<1>2. want' \in [ListName -> SUBSET Rule]
  BY DEF Restart
<1>3. StoresTyped /\ Exempting
  BY DEF IInv, Typed
<1>4. "manual" \in Source /\ "manual" # Absent
  BY RuleFacts
<1>5. mem' \in [ListName -> [Rule -> Source \cup {Absent}]]
  BY <1>1, <1>4
<1>6. \A l \in ListName : Rules(l)' \subseteq disk[l]
  BY <1>1 DEF Rules
<1>7. StoresTyped'
  BY <1>1, <1>2, <1>3, <1>5 DEF StoresTyped
<1>8. Exempting' /\ feed' \subseteq bloom'
  BY <1>1, <1>3, <1>6, RuleFacts DEF Exempting, Matches
<1>9. \A q \in Proc : job'[q] = Idle
  BY <1>1
<1>10. job' \in [Proc -> Job] /\ \A q \in Proc : Scripted(job'[q])
  BY <1>1, <1>9, IdleScripted
<1>11. \A q \in Proc : Justified(q)'
  BY <1>9, IdleJustified
<1>12. QED BY <1>7, <1>8, <1>10, <1>11 DEF IInv, Typed

-----------------------------------------------------------------------------
(* The invariant.                                                          *)

LEMMA InitIInv == Init => IInv
<1> SUFFICES ASSUME Init PROVE IInv
  OBVIOUS
<1>1. \A l \in ListName : Rules(l) = {}
  BY DEF Init, Rules
<1>2. StoresTyped
  BY DEF Init, StoresTyped
<1>3. /\ \A q \in Proc : job[q] = Idle
      /\ job \in [Proc -> Job]
  BY IdleScripted DEF Init
<1>4. \A q \in Proc : Scripted(job[q])
  BY <1>3, IdleScripted
<1>5. Exempting /\ feed \subseteq bloom
  <2>1. disk["white"] = {} /\ disk["bypass"] = {} /\ whiteExact = {}
    BY RuleFacts DEF Init
  <2>2. QED BY <1>1, <2>1, RuleFacts DEF Init, Exempting
<1>6. ASSUME NEW q \in Proc PROVE Justified(q)
  <2>1. /\ job[q].op = "idle" /\ job[q].todo = <<>> /\ job[q].fed = {}
    BY <1>3 DEF Idle
  <2>2. ~At(q, "learn white") /\ ~At(q, "insert exact") /\ ~Decided(q)
    BY <2>1 DEF At, Decided
  <2>3. QED BY <2>1, <2>2 DEF Justified
<1>7. QED BY <1>2, <1>3, <1>4, <1>5, <1>6 DEF IInv, Typed

LEMMA StepIInv == IInv /\ [Next]_vars => IInv'
<1> SUFFICES ASSUME IInv, [Next]_vars PROVE IInv'
  OBVIOUS
<1>1. ASSUME NEW p \in Proc, Handler(p) PROVE IInv'
  BY <1>1, BeginCallKeeps, AppendAndInsertKeeps, InsertKeeps, AppendLateKeeps,
     AppendRemovalKeeps, RemoveKeeps, EmptyListKeeps, ClearLogKeeps, WhitelistExactKeeps,
     InsertBloomKeeps, FlushKeeps, ReplyKeeps DEF Handler
<1>2. ASSUME NEW p \in Proc, Resolver(p) PROVE IInv'
  BY <1>2, BeginQueryKeeps, LookKeeps, MemoiseKeeps, LearnWhiteKeeps, LearnBlockKeeps
     DEF Resolver
<1>3. ASSUME Expire \/ HourChanges \/ SyncThreatFeed \/ SyncWhitelistFeed \/ Restart
      PROVE  IInv'
  BY <1>3, ExpireKeeps, HourChangesKeeps, SyncThreatFeedKeeps, SyncWhitelistFeedKeeps,
     RestartKeeps
<1>4. CASE UNCHANGED vars
  <2>1. Typed' /\ Exempting' /\ feed' \subseteq bloom'
    BY <1>4, StillExempting DEF vars, IInv, Typed, StoresTyped, Rules
  <2>2. \A q \in Proc : Justified(q)'
    BY <1>4, StillJustified DEF vars, IInv, Growing
  <2>3. QED BY <2>1, <2>2 DEF IInv
<1>5. QED BY <1>1, <1>2, <1>3, <1>4 DEF Next

LEMMA Invariance == Spec => []IInv
<1>1. QED BY InitIInv, StepIInv, PTL DEF Spec

\* The lists, the log, the memo and what every thread is doing stay in their
\* ranges: a handler names a list it has, a query answers with one of the
\* three reasons check_domain knows, and a detection is stored under a source
\* the log can be replayed with (record_detected_block).
THEOREM TypeCorrect == Spec => []TypeOK
<1>1. IInv => TypeOK
  <2> SUFFICES ASSUME IInv PROVE TypeOK
    OBVIOUS
  <2>1. StoresTyped
    BY DEF IInv, Typed
  <2>2. ASSUME NEW p \in Proc
        PROVE  /\ job[p].op \in {"idle", "query"} \cup {o[1] : o \in AllOps}
               /\ job[p].list \in ListName /\ job[p].rules \subseteq Rule
               /\ job[p].verdict \in {"allow", "block", Absent}
               /\ job[p].reason \in Reason \cup {Absent}
               /\ job[p].clean \in BOOLEAN /\ job[p].fed \subseteq Feed
    <3>1. job[p] \in Job
      BY DEF IInv, Typed
    <3>2. job[p].op \in Operation
      BY <3>1 DEF Job
    <3>3. job[p].op \in {"idle", "query"} \cup {o[1] : o \in AllOps}
      BY <3>2, Operations
    <3>4. QED BY <3>1, <3>3 DEF Job
  <2>3. QED BY <2>1, <2>2 DEF TypeOK, StoresTyped
<1>2. QED BY <1>1, Invariance, PTL

\* However handlers, queries, syncs of the feed, hours and restarts
\* interleave, check_domain lets a name through that the threat feed held
\* all along only if an administrator once listed it, or a pattern above it,
\* as whitelisted or bypassed: record_detected_whitelist, the console's
\* copies in whitelist_exact and the replay of the log exempt nothing that
\* those rules do not.
THEOREM OnlyAdministratorsExempt == Spec => []FeedStopsUnlisted
<1>1. IInv => FeedStopsUnlisted
  BY DEF IInv, Justified, FeedStopsUnlisted, Exempt
<1>2. QED BY <1>1, Invariance, PTL
-----------------------------------------------------------------------------
(* Rules outlive the process.  The log and the rules asked for agree but   *)
(* for the rules of a call that stands between its append and its change   *)
(* of the list; the rest says why a handler that finds a rule in its list  *)
(* need not log it: nothing gets there that was not asked for.             *)

\* The names a query may put on the blocklist by itself.
Learnable ==
    {d \in Domain : \/ d \in Feed \cup Windows
                    \/ Above(Blockable \cup Feed \cup Windows, d) # {}}

\* What RulesSurvive asks of an installation: calls that log what they do,
\* rules that no query learns, and no deletion beside another call.
Orderly ==
    /\ Ops \subseteq ({"add", "delete"} \X ListName) \cup {<<"auto_add", "block">>}
    /\ Blockable \cap Learnable = {}
    /\ Covers = {} \/ <<"add", "white">> \notin Ops
    /\ (\A p, q \in Proc : p = q) \/ (\A l \in ListName : <<"delete", l>> \notin Ops)

Pending(l, r) ==
    \E p \in Proc : /\ At(p, "append") \/ At(p, "remove")
                    /\ job[p].list = l /\ r \in job[p].rules

Agree ==
    \A l \in ListName, r \in Rule : ~Pending(l, r) => (r \in disk[l] <=> r \in want[l])

Blocked == want["block"] \cup Learnable

\* A deletion whose flush is still to come: the memo may be out of date.
Flushing == \E p \in Proc : At(p, "flush") /\ job[p].op = "delete"

Current == \A d \in Domain : memo[d] # Absent => d \in Blocked

Held ==
    /\ Rules("white") \subseteq want["white"] /\ Rules("bypass") \subseteq want["bypass"]
    /\ Rules("block") \subseteq Blocked
    /\ whiteExact = {} /\ bloom \subseteq Feed
    /\ want["block"] \subseteq Blockable
    /\ Covers = {} \/ want["white"] = {}
    /\ Flushing \/ Current

\* What is left of a call that Orderly admits.
Orderlies(j) ==
    /\ j.op = "add" => j.todo \in {AddScript, <<"flush">>, <<>>}
    /\ j.op = "delete" => j.todo \in {DeleteScript, <<"remove", "flush">>, <<"flush">>, <<>>}
    /\ j.op = "auto_add" => j.todo \in {AutoAddScript, <<"append">>, <<>>}
    /\ j.op = "idle" => j.todo = <<>>
    /\ j.op \notin {"idle", "query"} => <<j.op, j.list>> \in Ops
    /\ j.op \in {"add", "auto_add"} /\ j.list = "block" => j.rules \subseteq Blockable

Handling(p) ==
    /\ Orderlies(job[p])
    /\ At(p, "remove") => job[p].rules \cap disk[job[p].list] = {}
    /\ At(p, "append") => job[p].rules \subseteq want[job[p].list]

Asking(p) ==
    /\ job[p].op = "query" /\ job[p].reason # Absent => job[p].rules \subseteq Blocked
    /\ At(p, "learn white") => job[p].rules \subseteq Rules("white")

SInv ==
    /\ Agree
    /\ Held
    /\ \A p \in Proc : Handling(p) /\ Asking(p)

LEMMA TupleParts ==
    /\ \A a : Head(<<a>>) = a /\ Tail(<<a>>) = <<>> /\ <<a>> # <<>>
    /\ \A a, b : Head(<<a, b>>) = a /\ Tail(<<a, b>>) = <<b>> /\ <<a, b>> # <<>>
<1>1. \A a : Head(<<a>>) = a /\ Tail(<<a>>) = <<>> /\ <<a>> # <<>>
  OBVIOUS
<1>2. \A a, b : Head(<<a, b>>) = a /\ Tail(<<a, b>>) = <<b>> /\ <<a, b>> # <<>>
  OBVIOUS
<1>3. QED BY <1>1, <1>2

LEMMA DeleteParts ==
    Head(DeleteScript) = "append removal" /\ Tail(DeleteScript) = <<"remove", "flush">>
<1>1. Head(<<"append removal", "remove", "flush">>) = "append removal"
  OBVIOUS
<1>2. Tail(<<"append removal", "remove", "flush">>) = <<"remove", "flush">>
  OBVIOUS
<1>3. QED BY <1>1, <1>2 DEF DeleteScript

\* Under Orderly there are three handlers.
LEMMA ThreeHandlers ==
    ASSUME Orderly, NEW p \in Proc, Handling(p), job[p] \in Job
    PROVE  job[p].op \in {"idle", "query", "add", "delete", "auto_add"}
<1>1. SUFFICES ASSUME job[p].op \notin {"idle", "query"}
               PROVE  job[p].op \in {"add", "delete", "auto_add"}
  OBVIOUS
<1>2. <<job[p].op, job[p].list>> \in ({"add", "delete"} \X ListName) \cup {<<"auto_add", "block">>}
  BY <1>1 DEF Handling, Orderlies, Orderly
<1>3. QED BY <1>2

\* Which handler stands at a step, and what is left after it.
LEMMA Standing ==
    ASSUME Orderly, IInv, SInv, NEW p \in Proc, NEW s \in HandlerStep, At(p, s)
    PROVE  /\ \/ s = "append and insert" /\ job[p].op = "add" /\ Tail(job[p].todo) = <<"flush">>
              \/ s = "append removal" /\ job[p].op = "delete"
                 /\ Tail(job[p].todo) = <<"remove", "flush">>
              \/ s = "remove" /\ job[p].op = "delete" /\ Tail(job[p].todo) = <<"flush">>
              \/ s = "insert" /\ job[p].op = "auto_add" /\ Tail(job[p].todo) = <<"append">>
              \/ s = "append" /\ job[p].op = "auto_add" /\ Tail(job[p].todo) = <<>>
              \/ s = "flush" /\ job[p].op \in {"add", "delete"} /\ Tail(job[p].todo) = <<>>
           /\ <<job[p].op, job[p].list>> \in Ops
<1>1. /\ job[p] \in Job /\ job[p].todo # <<>> /\ Head(job[p].todo) = s
      /\ Handling(p) /\ Orderlies(job[p])
  BY AtFacts DEF IInv, SInv, At, Handling
<1>2. job[p].op # "query" /\ job[p].op # "idle"
  <2>1. s \notin QueryStep
    BY DEF QueryStep, LookStep, HandlerStep
  <2>2. QED BY <1>1, <2>1, AtFacts DEF IInv, Orderlies
<1>3. job[p].op \in {"add", "delete", "auto_add"}
  BY <1>1, <1>2, ThreeHandlers
<1>4. CASE job[p].op = "add"
  <2>1. job[p].todo \in {<<"append and insert", "flush">>, <<"flush">>}
    BY <1>1, <1>4 DEF Orderlies, AddScript
  <2>2. QED BY <1>1, <1>2, <1>4, <2>1, TupleParts, Zenon DEF Orderlies
<1>5. CASE job[p].op = "delete"
  <2>1. job[p].todo \in {DeleteScript, <<"remove", "flush">>, <<"flush">>}
    BY <1>1, <1>5 DEF Orderlies
  <2>2. \/ s = "append removal" /\ Tail(job[p].todo) = <<"remove", "flush">>
        \/ s = "remove" /\ Tail(job[p].todo) = <<"flush">>
        \/ s = "flush" /\ Tail(job[p].todo) = <<>>
    <3>1. CASE job[p].todo = DeleteScript
      BY <1>1, <3>1, DeleteParts, Zenon
    <3>2. CASE job[p].todo = <<"remove", "flush">>
      BY <1>1, <3>2, TupleParts, Zenon
    <3>3. CASE job[p].todo = <<"flush">>
      BY <1>1, <3>3, TupleParts, Zenon
    <3>4. QED BY <2>1, <3>1, <3>2, <3>3
  <2>3. <<job[p].op, job[p].list>> \in Ops
    BY <1>1, <1>2 DEF Orderlies
  <2>4. QED BY <1>5, <2>2, <2>3
<1>6. CASE job[p].op = "auto_add"
  <2>1. job[p].todo \in {<<"insert", "append">>, <<"append">>}
    BY <1>1, <1>6 DEF Orderlies, AutoAddScript
  <2>2. \/ s = "insert" /\ Tail(job[p].todo) = <<"append">>
        \/ s = "append" /\ Tail(job[p].todo) = <<>>
    <3>1. CASE job[p].todo = <<"insert", "append">>
      BY <1>1, <3>1, TupleParts
    <3>2. CASE job[p].todo = <<"append">>
      BY <1>1, <3>2, TupleParts
    <3>3. QED BY <2>1, <3>1, <3>2
  <2>3. <<job[p].op, job[p].list>> \in Ops
    BY <1>1, <1>2 DEF Orderlies
  <2>4. QED BY <1>6, <2>2, <2>3
<1>7. QED BY <1>3, <1>4, <1>5, <1>6

\* What another thread finds as it left it.
Same(q) ==
    /\ job'[q].op = job[q].op /\ job'[q].list = job[q].list /\ job'[q].rules = job[q].rules
    /\ job'[q].todo = job[q].todo /\ job'[q].reason = job[q].reason

\* Nothing is deleted where two threads are.
LEMMA NoDeletionBeside ==
    ASSUME Orderly, IInv, SInv, NEW p \in Proc, NEW q \in Proc \ {p}
    PROVE  /\ job[p].op # "delete" /\ job[q].op # "delete" /\ ~At(q, "remove")
<1>1. ASSUME NEW r \in Proc, job[r].op = "delete" PROVE FALSE
  <2>1. <<"delete", job[r].list>> \in Ops /\ job[r].list \in ListName
    BY <1>1 DEF IInv, Typed, Job, SInv, Handling, Orderlies
  <2>2. QED BY <2>1 DEF Orderly
<1>2. ASSUME At(q, "remove") PROVE FALSE
  <2>1. "remove" \in HandlerStep /\ "remove" \notin {"append and insert", "append removal", "insert", "append", "flush"}
    BY DEF HandlerStep
  <2>2. job[q].op = "delete"
    BY <1>2, <2>1, Standing, Zenon
  <2>3. QED BY <1>1, <2>2
<1>3. QED BY <1>1, <1>2

\* A thread that did nothing, when rules were added or queries answered.
LEMMA OthersStay ==
    ASSUME Orderly, IInv, SInv, NEW p \in Proc, NEW q \in Proc \ {p}, Same(q),
           \A l \in ListName : want[l] \subseteq want'[l],
           Rules("white") \subseteq Rules("white")'
    PROVE  Handling(q)' /\ Asking(q)'
<1>1. /\ ~At(q, "remove") /\ Handling(q) /\ Asking(q) /\ job[q].list \in ListName
  BY NoDeletionBeside DEF SInv, IInv, Typed, Job
<1>2. \A s : At(q, s)' <=> At(q, s)
  BY DEF At, Same
<1>3. Orderlies(job'[q])
  BY <1>1 DEF Handling, Orderlies, Same
<1>4. Handling(q)'
  BY <1>1, <1>2, <1>3 DEF Handling, Same
<1>5. Blocked \subseteq Blocked'
  BY RuleFacts DEF Blocked
<1>6. Asking(q)'
  BY <1>1, <1>2, <1>5 DEF Asking, Same
<1>7. QED BY <1>4, <1>6

-----------------------------------------------------------------------------
(* Steps that change neither the lists, nor the log, nor what was asked.   *)

StillThere(q) ==
    \/ Same(q)
    \/ /\ ~At(q, "append") /\ ~At(q, "remove") /\ ~At(q, "flush")
       /\ Handling(q)' /\ Asking(q)'

LEMMA Unedited ==
    ASSUME SInv, UNCHANGED <<mem, disk, want>>, whiteExact' \subseteq whiteExact,
           bloom' \subseteq Feed, \A q \in Proc : StillThere(q),
           \A d \in Domain : memo'[d] \in {memo[d], Absent}
    PROVE  SInv'
<1>1. ASSUME NEW q \in Proc, NEW s \in {"append", "remove", "flush"}, At(q, s)
      PROVE  Same(q) /\ At(q, s)'
  BY <1>1 DEF StillThere, At, Same
<1>2. Agree'
  <2>1. ASSUME NEW l \in ListName, NEW r \in Rule, Pending(l, r) PROVE Pending(l, r)'
    <3>1. PICK q \in Proc, s \in {"append", "remove"} :
             At(q, s) /\ job[q].list = l /\ r \in job[q].rules
      BY <2>1 DEF Pending
    <3>2. Same(q) /\ At(q, s)'
      BY <1>1, <3>1
    <3>3. QED BY <3>1, <3>2 DEF Pending, Same
  <2>2. QED BY <2>1 DEF SInv, Agree
<1>3. Held'
  <2>1. Flushing => Flushing'
    BY <1>1 DEF Flushing, Same
  <2>2. Current => Current'
    BY DEF Current, Blocked
  <2>3. QED BY <2>1, <2>2 DEF SInv, Held, Rules, Blocked
<1>4. ASSUME NEW q \in Proc PROVE Handling(q)' /\ Asking(q)'
  <2>1. CASE Same(q)
    <3>1. Handling(q) /\ Asking(q)
      BY DEF SInv
    <3>2. Handling(q)'
      BY <2>1, <3>1 DEF Handling, Orderlies, Same, At
    <3>3. Asking(q)'
      BY <2>1, <3>1 DEF Asking, Same, At, Blocked, Rules
    <3>4. QED BY <3>2, <3>3
  <2>2. QED BY <2>1 DEF StillThere
<1>5. QED BY <1>2, <1>3, <1>4 DEF SInv

LEMMA BloomIsFeed == IInv /\ SInv => bloom \subseteq Feed /\ whiteExact = {}
BY DEF SInv, Held

LEMMA IdleStands ==
    ASSUME NEW q \in Proc, job'[q] = Idle
    PROVE  Handling(q)' /\ Asking(q)'
<1>1. /\ job'[q].op = "idle" /\ job'[q].todo = <<>>
  BY DEF Idle
<1>2. \A s : ~At(q, s)'
  BY <1>1 DEF At
<1>3. Orderlies(job'[q])
  BY <1>1 DEF Orderlies
<1>4. QED BY <1>1, <1>2, <1>3 DEF Handling, Asking

LEMMA OverlapSame ==
    ASSUME IInv, NEW f, job' = Overlap(f)
    PROVE  \A q \in Proc : Same(q)
<1>1. ASSUME NEW q \in Proc PROVE Same(q)
  <2>1. job[q] \in Job
    BY DEF IInv, Typed
  <2>2. PICK g : g = job[q].fed \cap f
    OBVIOUS
  <2>3. job'[q] = [job[q] EXCEPT !.clean = FALSE, !.fed = g]
    BY <2>2 DEF Overlap
  <2>4. QED BY <2>1, <2>3 DEF Same, Job
<1>2. QED BY <1>1

LEMMA EnvironmentSurvives ==
    ASSUME IInv, SInv, Expire \/ HourChanges \/ SyncThreatFeed \/ SyncWhitelistFeed
                       \/ UNCHANGED vars
    PROVE  SInv'
<1>1. bloom \subseteq Feed /\ whiteExact = {}
  BY BloomIsFeed
<1>2. CASE Expire
  <2>1. \A q \in Proc : Same(q)
    BY <1>2 DEF Expire, Same
  <2>2. PICK e \in Domain : memo' = [memo EXCEPT ![e] = Absent]
    BY <1>2 DEF Expire
  <2>3. \A d \in Domain : memo'[d] \in {memo[d], Absent}
    BY <2>2 DEF IInv, Typed, StoresTyped
  <2>4. UNCHANGED <<mem, disk, want, whiteExact, bloom>>
    BY <1>2 DEF Expire
  <2>5. QED BY <1>1, <2>1, <2>3, <2>4, Unedited DEF StillThere
<1>3. CASE HourChanges
  <2>1. \A q \in Proc : Same(q)
    BY <1>3, OverlapSame DEF HourChanges
  <2>2. UNCHANGED <<mem, disk, want, whiteExact, bloom, memo>>
    BY <1>3 DEF HourChanges
  <2>3. QED BY <1>1, <2>1, <2>2, Unedited DEF StillThere
<1>4. CASE SyncThreatFeed
  <2>1. PICK f : f = feed'
    OBVIOUS
  <2>2. job' = Overlap(f)
    BY <1>4, <2>1 DEF SyncThreatFeed
  <2>3. \A q \in Proc : Same(q)
    BY <2>2, OverlapSame
  <2>4. UNCHANGED <<mem, disk, want, whiteExact, memo>> /\ bloom' \subseteq Feed
    BY <1>4 DEF SyncThreatFeed
  <2>5. QED BY <1>1, <2>3, <2>4, Unedited DEF StillThere
<1>5. CASE SyncWhitelistFeed
  <2>1. \A q \in Proc : Same(q)
    BY <1>5, OverlapSame DEF SyncWhitelistFeed
  <2>2. UNCHANGED <<mem, disk, want, bloom, memo>> /\ whiteExact' \subseteq whiteExact
    BY <1>5 DEF SyncWhitelistFeed
  <2>3. QED BY <1>1, <2>1, <2>2, Unedited DEF StillThere
<1>6. CASE UNCHANGED vars
  BY <1>1, <1>6, Unedited DEF vars, StillThere, Same
<1>7. QED BY <1>2, <1>3, <1>4, <1>5, <1>6

LEMMA BeginCallSurvives ==
    ASSUME Orderly, IInv, SInv, NEW p \in Proc, BeginCall(p)
    PROVE  SInv'
<1>1. PICK o \in Ops : \E rs \in Arguments(o[1], o[2]) :
         job' = [q \in Proc |->
                   IF q = p
                   THEN [Idle EXCEPT !.op = o[1], !.list = o[2], !.rules = rs,
                                     !.todo = Script[o]]
                   ELSE [job[q] EXCEPT !.clean = FALSE]]
  BY DEF BeginCall
<1>2. PICK rs \in Arguments(o[1], o[2]) :
         job' = [q \in Proc |->
                   IF q = p
                   THEN [Idle EXCEPT !.op = o[1], !.list = o[2], !.rules = rs,
                                     !.todo = Script[o]]
                   ELSE [job[q] EXCEPT !.clean = FALSE]]
  BY <1>1
<1>3. PICK j : j = [Idle EXCEPT !.op = o[1], !.list = o[2], !.rules = rs, !.todo = Script[o]]
  OBVIOUS
<1>4. job'[p] = j /\ \A q \in Proc \ {p} : job'[q] = [job[q] EXCEPT !.clean = FALSE]
  BY <1>2, <1>3
<1>5. ASSUME NEW q \in Proc \ {p} PROVE Same(q)
  <2>1. job[q] \in Job /\ job'[q] = [job[q] EXCEPT !.clean = FALSE]
    BY <1>4 DEF IInv, Typed
  <2>2. QED BY <2>1 DEF Job, Same
<1>6. PICK n, l : o = <<n, l>> /\ o[1] = n /\ o[2] = l /\ l \in ListName
                  /\ n \in {"add", "delete", "auto_add"} /\ (n = "auto_add" => l = "block")
  BY RuleFacts DEF Orderly
<1>7. o \in AllOps
  BY ConstantsAssumption
<1>8. /\ j.op = n /\ j.list = l /\ j.rules = rs /\ j.todo = Script[o] /\ j.reason = Absent
  BY <1>3, <1>6 DEF Idle
<1>9. /\ n = "add" => j.todo = AddScript
      /\ n = "delete" => j.todo = DeleteScript
      /\ n = "auto_add" => j.todo = AutoAddScript
  BY <1>6, <1>7, <1>8 DEF Script
<1>10. n \in {"add", "auto_add"} /\ l = "block" => rs \subseteq Blockable
  <2>1. CASE n = "add" /\ l = "block"
    <3>1. Arguments(n, l) = (SUBSET Blockable) \ {{}}
      BY <2>1 DEF Arguments
    <3>2. QED BY <1>6, <3>1
  <2>2. CASE n = "auto_add" /\ l = "block"
    <3>1. Arguments(n, l) = {{r} : r \in Blockable}
      BY <2>2 DEF Arguments
    <3>2. QED BY <1>6, <3>1
  <2>3. QED BY <2>1, <2>2
<1>11. Orderlies(j)
  BY <1>6, <1>8, <1>9, <1>10 DEF Orderlies
<1>12. ~At(p, "remove")' /\ ~At(p, "append")' /\ ~At(p, "learn white")'
  <2>1. CASE n = "add"
    <3>1. Head(j.todo) = "append and insert"
      BY <1>9, <2>1, TupleParts DEF AddScript
    <3>2. QED BY <1>4, <3>1 DEF At
  <2>2. CASE n = "delete"
    <3>1. Head(j.todo) = "append removal"
      BY <1>9, <2>2, DeleteParts
    <3>2. QED BY <1>4, <3>1 DEF At
  <2>3. CASE n = "auto_add"
    <3>1. Head(j.todo) = "insert"
      BY <1>9, <2>3, TupleParts DEF AutoAddScript
    <3>2. QED BY <1>4, <3>1 DEF At
  <2>4. QED BY <1>6, <2>1, <2>2, <2>3
<1>13. Handling(p)' /\ Asking(p)'
  BY <1>4, <1>8, <1>11, <1>12 DEF Handling, Asking
<1>14. \A s : ~At(p, s)
  BY DEF BeginCall, At, Idle
<1>15. UNCHANGED <<mem, disk, want, whiteExact, bloom, memo>>
  BY DEF BeginCall
<1>16. QED BY <1>5, <1>13, <1>14, <1>15, BloomIsFeed, Unedited DEF StillThere

LEMMA ReplySurvives ==
    ASSUME IInv, SInv, NEW p \in Proc, Reply(p)
    PROVE  SInv'
<1>1. /\ UNCHANGED <<mem, whiteExact, memo, disk, bloom, want>>
      /\ job' = [job EXCEPT ![p] = Idle] /\ job[p].todo = <<>>
  BY DEF Reply
<1>2. job'[p] = Idle /\ \A q \in Proc \ {p} : Same(q)
  BY <1>1 DEF IInv, Typed, Same
<1>3. Handling(p)' /\ Asking(p)' /\ \A s : ~At(p, s)
  BY <1>1, <1>2, IdleStands DEF At
<1>4. QED BY <1>1, <1>2, <1>3, BloomIsFeed, Unedited DEF StillThere

-----------------------------------------------------------------------------
(* The three handlers.                                                     *)

\* The call goes on; the other threads are where they were.
LEMMA Onward ==
    ASSUME Orderly, IInv, SInv, NEW p \in Proc, NEW s \in HandlerStep, At(p, s), Advance(p)
    PROVE  /\ \A q \in Proc \ {p} : Same(q)
           /\ job'[p].op = job[p].op /\ job'[p].list = job[p].list
           /\ job'[p].rules = job[p].rules /\ job'[p].todo = Tail(job[p].todo)
           /\ job[p].list \in ListName /\ job[p].rules \in SUBSET Rule
           /\ job[p].op # "query" /\ job[p] \in Job
<1>1. Typed /\ job[p].todo # <<>> /\ job[p] \in Job
  BY AtFacts DEF IInv, At
<1>2. job[p].op # "query"
  BY Standing
<1>3. QED BY <1>1, <1>2, AdvanceFacts DEF Same, Job

\* What is left of the call is again the rest of its script.
LEMMA OrderliesOn ==
    ASSUME Orderly, IInv, SInv, NEW p \in Proc, NEW s \in HandlerStep, At(p, s), Advance(p)
    PROVE  Orderlies(job'[p])
<1>1. /\ Orderlies(job[p]) /\ job'[p].op = job[p].op /\ job'[p].list = job[p].list
      /\ job'[p].rules = job[p].rules /\ job'[p].todo = Tail(job[p].todo)
  BY Onward DEF SInv, Handling
<1>2. <<job[p].op, job[p].list>> \in Ops
  BY Standing
<1>3. CASE job[p].op = "add"
  <2>1. Tail(job[p].todo) \in {<<"flush">>, <<>>}
    BY <1>3, Standing
  <2>2. QED BY <1>1, <1>2, <1>3, <2>1 DEF Orderlies
<1>4. CASE job[p].op = "delete"
  <2>1. Tail(job[p].todo) \in {<<"remove", "flush">>, <<"flush">>, <<>>}
    BY <1>4, Standing
  <2>2. QED BY <1>1, <1>2, <1>4, <2>1 DEF Orderlies
<1>5. CASE job[p].op = "auto_add"
  <2>1. Tail(job[p].todo) \in {<<"append">>, <<>>}
    BY <1>5, Standing
  <2>2. QED BY <1>1, <1>2, <1>5, <2>1 DEF Orderlies
<1>6. QED BY <1>3, <1>4, <1>5, Standing

\* A step after which the call stands at no half-done change.
LEMMA HandlingOn ==
    ASSUME Orderly, IInv, SInv, NEW p \in Proc, NEW s \in HandlerStep, At(p, s), Advance(p),
           Tail(job[p].todo) \in {<<"flush">>, <<>>}
    PROVE  Handling(p)' /\ Asking(p)'
<1>1. Orderlies(job'[p]) /\ job'[p].op # "query" /\ job'[p].todo = Tail(job[p].todo)
  BY OrderliesOn, Onward
<1>2. ~At(p, "remove")' /\ ~At(p, "append")' /\ ~At(p, "learn white")'
  <2>1. CASE job'[p].todo = <<>>
    BY <2>1 DEF At
  <2>2. CASE job'[p].todo = <<"flush">>
    <3>1. Head(job'[p].todo) = "flush"
      BY <2>2, TupleParts
    <3>2. QED BY <3>1 DEF At
  <2>3. QED BY <1>1, <2>1, <2>2
<1>3. QED BY <1>1, <1>2 DEF Handling, Asking

\* A half-done change of another thread stays half-done.
LEMMA OthersPending ==
    ASSUME NEW p \in Proc, \A q \in Proc \ {p} : Same(q), ~At(p, "append"), ~At(p, "remove"),
           NEW l, NEW r, Pending(l, r)
    PROVE  Pending(l, r)'
<1>1. PICK q \in Proc : /\ At(q, "append") \/ At(q, "remove")
                        /\ job[q].list = l /\ r \in job[q].rules
  BY DEF Pending
<1>2. Same(q)
  BY <1>1
<1>3. QED BY <1>1, <1>2 DEF Pending, Same, At

\* A rule that a call finds in its list was asked for.
LEMMA FoundIsAsked ==
    ASSUME Orderly, SInv, NEW l \in ListName, NEW rs \in SUBSET Rule,
           l = "block" => rs \subseteq Blockable
    PROVE  Rules(l) \cap rs \subseteq want[l]
<1>1. Rules("white") \subseteq want["white"] /\ Rules("bypass") \subseteq want["bypass"]
  BY DEF SInv, Held
<1>2. CASE l = "block"
  <2>1. rs \cap Learnable = {} /\ Rules("block") \subseteq Blocked
    BY <1>2 DEF SInv, Held, Orderly
  <2>2. QED BY <1>2, <2>1 DEF Blocked
<1>3. QED BY <1>1, <1>2 DEF ListName

LEMMA AppendAndInsertSurvives ==
    ASSUME Orderly, IInv, SInv, NEW p \in Proc, AppendAndInsert(p)
    PROVE  SInv'
<1>1. At(p, "append and insert") /\ Advance(p) /\ "append and insert" \in HandlerStep
  BY DEF AppendAndInsert, HandlerStep
<1>2. PICK l \in ListName, rs \in SUBSET Rule : l = job[p].list /\ rs = job[p].rules
  BY <1>1, Onward
<1>3. PICK new \in SUBSET Rule : new = rs \ Rules(l)
  BY <1>2
<1>4. /\ disk' = [disk EXCEPT ![l] = disk[l] \cup new] /\ Put(l, new, "manual")
      /\ want' = [want EXCEPT ![l] = want[l] \cup rs]
      /\ UNCHANGED <<whiteExact, memo, bloom>>
  BY <1>2, <1>3 DEF AppendAndInsert, Ask
<1>5. Typed /\ StoresTyped
  BY DEF IInv, Typed
<1>6. /\ \A k \in ListName \ {l} : Rules(k)' = Rules(k)
      /\ Rules(l)' = Rules(l) \cup new
  <2>1. "manual" \in Source \cup {Absent} /\ "manual" # Absent
    BY RuleFacts
  <2>2. QED BY <1>4, <1>5, <2>1, PutFacts
<1>7. /\ \A k \in ListName \ {l} : disk'[k] = disk[k] /\ want'[k] = want[k]
      /\ disk'[l] = disk[l] \cup new /\ want'[l] = want[l] \cup rs
  BY <1>4, <1>5 DEF StoresTyped
<1>8. /\ job[p].op = "add" /\ Tail(job[p].todo) = <<"flush">> /\ <<"add", l>> \in Ops
  <2>1. "append and insert" \notin {"append removal", "remove", "insert", "append", "flush"}
    OBVIOUS
  <2>2. QED BY <1>1, <1>2, <2>1, Standing, Zenon
<1>9. \A q \in Proc \ {p} : Same(q)
  BY <1>1, Onward
<1>10. ~At(p, "append") /\ ~At(p, "remove") /\ ~At(p, "flush")
  BY <1>1 DEF At
<1>11. l = "block" => rs \subseteq Blockable
  BY <1>2, <1>8 DEF SInv, Handling, Orderlies
<1>12. Rules(l) \cap rs \subseteq want[l]
  BY <1>11, FoundIsAsked
<1>13. Agree'
  <2>1. ASSUME NEW k \in ListName, NEW r \in Rule, ~Pending(k, r)'
        PROVE  r \in disk'[k] <=> r \in want'[k]
    <3>1. ~Pending(k, r)
      BY <1>9, <1>10, <2>1, OthersPending
    <3>2. r \in disk[k] <=> r \in want[k]
      BY <3>1 DEF SInv, Agree
    <3>3. CASE k = l
      BY <1>3, <1>7, <1>12, <3>2, <3>3
    <3>4. CASE k # l
      BY <1>7, <3>2, <3>4
    <3>5. QED BY <3>3, <3>4
  <2>2. QED BY <2>1 DEF Agree
<1>14. \A k \in ListName : want[k] \subseteq want'[k] /\ Rules(k) \subseteq Rules(k)'
  BY <1>6, <1>7
<1>15. Held'
  <2>1. Held
    BY DEF SInv
  <2>2. /\ Rules("white")' \subseteq want'["white"] /\ Rules("bypass")' \subseteq want'["bypass"]
    BY <1>3, <1>6, <1>7, <2>1, RuleFacts DEF Held
  <2>3. Blocked \subseteq Blocked'
    BY <1>14, RuleFacts DEF Blocked
  <2>4. Rules("block")' \subseteq Blocked'
    BY <1>3, <1>6, <1>7, <2>1, <2>3, RuleFacts DEF Held, Blocked
  <2>5. want'["block"] \subseteq Blockable
    BY <1>7, <1>11, <2>1, RuleFacts DEF Held
  <2>6. Covers = {} \/ want'["white"] = {}
    BY <1>7, <1>8, <2>1, RuleFacts DEF Held, Orderly
  <2>7. Flushing' \/ Current'
    <3>1. Flushing => Flushing'
      BY <1>9, <1>10 DEF Flushing, Same, At
    <3>2. Current => Current'
      BY <1>4, <2>3 DEF Current
    <3>3. QED BY <2>1, <3>1, <3>2 DEF Held
  <2>8. QED BY <1>4, <2>1, <2>2, <2>4, <2>5, <2>6, <2>7 DEF Held
<1>16. \A q \in Proc \ {p} : Handling(q)' /\ Asking(q)'
  BY <1>9, <1>14, RuleFacts, OthersStay
<1>17. Handling(p)' /\ Asking(p)'
  BY <1>1, <1>8, HandlingOn
<1>18. QED BY <1>13, <1>15, <1>16, <1>17 DEF SInv

LEMMA InsertSurvives ==
    ASSUME Orderly, IInv, SInv, NEW p \in Proc, Insert(p)
    PROVE  SInv'
<1>1. At(p, "insert") /\ Advance(p) /\ "insert" \in HandlerStep
  BY DEF Insert, HandlerStep
<1>2. /\ job[p].op = "auto_add" /\ Tail(job[p].todo) = <<"append">>
      /\ <<"auto_add", job[p].list>> \in Ops
  <2>1. "insert" \notin {"append removal", "remove", "append and insert", "append", "flush"}
    OBVIOUS
  <2>2. QED BY <1>1, <2>1, Standing, Zenon
<1>3. job[p].list = "block"
  BY <1>2 DEF Orderly
<1>4. PICK rs \in SUBSET Rule : rs = job[p].rules
  BY <1>1, Onward
<1>5. rs \subseteq Blockable
  BY <1>2, <1>3, <1>4 DEF SInv, Handling, Orderlies
<1>6. /\ Put("block", rs, "ai") /\ want' = [want EXCEPT !["block"] = want["block"] \cup rs]
      /\ UNCHANGED <<whiteExact, disk, memo, bloom>>
  BY <1>2, <1>3, <1>4 DEF Insert, Ask
<1>7. /\ \A k \in ListName \ {"block"} : Rules(k)' = Rules(k)
      /\ Rules("block")' = Rules("block") \cup rs
  <2>1. "ai" \in Source \cup {Absent} /\ "ai" # Absent
    BY RuleFacts
  <2>2. Typed
    BY DEF IInv
  <2>3. QED BY <1>6, <2>1, <2>2, PutFacts, RuleFacts
<1>8. /\ \A k \in ListName \ {"block"} : want'[k] = want[k]
      /\ want'["block"] = want["block"] \cup rs
  BY <1>6, RuleFacts DEF IInv, Typed, StoresTyped
<1>9. \A q \in Proc \ {p} : Same(q)
  BY <1>1, Onward
<1>10. /\ job'[p].list = "block" /\ job'[p].rules = rs /\ job'[p].todo = <<"append">>
       /\ job'[p].op # "query"
  BY <1>1, <1>2, <1>3, <1>4, Onward
<1>11. At(p, "append")' /\ ~At(p, "remove")' /\ ~At(p, "learn white")'
  BY <1>10, TupleParts DEF At
<1>12. ~At(p, "append") /\ ~At(p, "remove") /\ ~At(p, "flush")
  BY <1>1 DEF At
<1>13. Agree'
  <2>1. ASSUME NEW k \in ListName, NEW r \in Rule, ~Pending(k, r)'
        PROVE  r \in disk'[k] <=> r \in want'[k]
    <3>1. ~Pending(k, r)
      BY <1>9, <1>12, <2>1, OthersPending
    <3>2. r \in disk[k] <=> r \in want[k]
      BY <3>1 DEF SInv, Agree
    <3>3. k = "block" => r \notin rs
      BY <1>10, <1>11, <2>1 DEF Pending
    <3>4. CASE k = "block"
      BY <1>6, <1>8, <3>2, <3>3, <3>4
    <3>5. CASE k # "block"
      BY <1>6, <1>8, <3>2, <3>5
    <3>6. QED BY <3>4, <3>5
  <2>2. QED BY <2>1 DEF Agree
<1>14. \A k \in ListName : want[k] \subseteq want'[k] /\ Rules(k) \subseteq Rules(k)'
  BY <1>7, <1>8
<1>15. Held'
  <2>1. /\ Held /\ want'["white"] = want["white"] /\ want'["bypass"] = want["bypass"]
        /\ Rules("white")' = Rules("white") /\ Rules("bypass")' = Rules("bypass")
    BY <1>7, <1>8, RuleFacts DEF SInv, ListName
  <2>2. Blocked' = Blocked \cup rs
    BY <1>8 DEF Blocked
  <2>3. Flushing' \/ Current'
    <3>1. Flushing => Flushing'
      BY <1>9, <1>12 DEF Flushing, Same, At
    <3>2. Current => Current'
      BY <1>6, <2>2 DEF Current
    <3>3. QED BY <2>1, <3>1, <3>2 DEF Held
  <2>4. QED BY <1>5, <1>6, <1>7, <1>8, <2>1, <2>2, <2>3 DEF Held
<1>16. \A q \in Proc \ {p} : Handling(q)' /\ Asking(q)'
  BY <1>9, <1>14, RuleFacts, OthersStay
<1>17. Handling(p)' /\ Asking(p)'
  <2>1. Orderlies(job'[p])
    BY <1>1, OrderliesOn
  <2>2. job'[p].rules \subseteq want'[job'[p].list]
    BY <1>8, <1>10
  <2>3. QED BY <1>10, <1>11, <2>1, <2>2 DEF Handling, Asking
<1>18. QED BY <1>13, <1>15, <1>16, <1>17 DEF SInv

LEMMA AppendLateSurvives ==
    ASSUME Orderly, IInv, SInv, NEW p \in Proc, AppendLate(p)
    PROVE  SInv'
<1>1. At(p, "append") /\ Advance(p) /\ "append" \in HandlerStep
  BY DEF AppendLate, HandlerStep
<1>2. Tail(job[p].todo) = <<>>
  <2>1. "append" \notin {"append removal", "remove", "append and insert", "insert", "flush"}
    OBVIOUS
  <2>2. QED BY <1>1, <2>1, Standing, Zenon
<1>3. PICK l \in ListName, rs \in SUBSET Rule : l = job[p].list /\ rs = job[p].rules
  BY <1>1, Onward
<1>4. rs \subseteq want[l]
  BY <1>1, <1>3 DEF SInv, Handling
<1>5. /\ disk' = [disk EXCEPT ![l] = disk[l] \cup rs]
      /\ UNCHANGED <<mem, whiteExact, memo, bloom, want>>
  BY <1>3 DEF AppendLate
<1>6. /\ \A k \in ListName \ {l} : disk'[k] = disk[k]
      /\ disk'[l] = disk[l] \cup rs
  BY <1>5 DEF IInv, Typed, StoresTyped
<1>7. \A q \in Proc \ {p} : Same(q)
  BY <1>1, Onward
<1>8. ~At(p, "flush") /\ ~At(p, "remove")
  BY <1>1 DEF At
<1>9. Agree'
  <2>1. ASSUME NEW k \in ListName, NEW r \in Rule, ~Pending(k, r)'
        PROVE  r \in disk'[k] <=> r \in want'[k]
    <3>1. CASE k = l /\ r \in rs
      BY <1>4, <1>5, <1>6, <3>1
    <3>2. CASE ~(k = l /\ r \in rs)
      <4>1. ~Pending(k, r)
        <5>1. SUFFICES ASSUME Pending(k, r) PROVE Pending(k, r)'
          BY <2>1
        <5>2. PICK q \in Proc : /\ At(q, "append") \/ At(q, "remove")
                                /\ job[q].list = k /\ r \in job[q].rules
          BY <5>1 DEF Pending
        <5>3. q # p
          BY <1>3, <3>2, <5>2
        <5>4. Same(q)
          BY <1>7, <5>3
        <5>5. QED BY <5>2, <5>4 DEF Pending, Same, At
      <4>2. r \in disk[k] <=> r \in want[k]
        BY <4>1 DEF SInv, Agree
      <4>3. QED BY <1>5, <1>6, <3>2, <4>2
    <3>3. QED BY <3>1, <3>2
  <2>2. QED BY <2>1 DEF Agree
<1>10. Held'
  <2>1. Flushing => Flushing'
    BY <1>7, <1>8 DEF Flushing, Same, At
  <2>2. Current => Current'
    BY <1>5 DEF Current, Blocked
  <2>3. QED BY <1>5, <2>1, <2>2 DEF SInv, Held, Rules, Blocked
<1>11. \A k \in ListName : want[k] \subseteq want'[k] /\ Rules(k) \subseteq Rules(k)'
  BY <1>5 DEF Rules
<1>12. \A q \in Proc \ {p} : Handling(q)' /\ Asking(q)'
  BY <1>7, <1>11, RuleFacts, OthersStay
<1>13. Handling(p)' /\ Asking(p)'
  BY <1>1, <1>2, HandlingOn
<1>14. QED BY <1>9, <1>10, <1>12, <1>13 DEF SInv

\* The log already forgets what the list still holds.
LEMMA AppendRemovalSurvives ==
    ASSUME Orderly, IInv, SInv, NEW p \in Proc, AppendRemoval(p)
    PROVE  SInv'
<1>1. At(p, "append removal") /\ Advance(p) /\ "append removal" \in HandlerStep
  BY DEF AppendRemoval, HandlerStep
<1>2. job[p].op = "delete" /\ Tail(job[p].todo) = <<"remove", "flush">>
  <2>1. "append removal" \notin {"append", "remove", "append and insert", "insert", "flush"}
    OBVIOUS
  <2>2. QED BY <1>1, <2>1, Standing, Zenon
<1>3. PICK l \in ListName, rs \in SUBSET Rule : l = job[p].list /\ rs = job[p].rules
  BY <1>1, Onward
<1>4. /\ disk' = [disk EXCEPT ![l] = disk[l] \ rs]
      /\ UNCHANGED <<mem, whiteExact, memo, bloom, want>>
  BY <1>3 DEF AppendRemoval
<1>5. /\ \A k \in ListName \ {l} : disk'[k] = disk[k]
      /\ disk'[l] = disk[l] \ rs
  BY <1>4 DEF IInv, Typed, StoresTyped
<1>6. \A q \in Proc \ {p} : Same(q)
  BY <1>1, Onward
<1>7. /\ job'[p].list = l /\ job'[p].rules = rs /\ job'[p].todo = <<"remove", "flush">>
      /\ job'[p].op # "query"
  BY <1>1, <1>2, <1>3, Onward
<1>8. At(p, "remove")' /\ ~At(p, "append")' /\ ~At(p, "learn white")'
  BY <1>7, TupleParts DEF At
<1>9. ~At(p, "append") /\ ~At(p, "remove") /\ ~At(p, "flush")
  BY <1>1 DEF At
<1>10. Agree'
  <2>1. ASSUME NEW k \in ListName, NEW r \in Rule, ~Pending(k, r)'
        PROVE  r \in disk'[k] <=> r \in want'[k]
    <3>1. ~Pending(k, r)
      BY <1>6, <1>9, <2>1, OthersPending
    <3>2. r \in disk[k] <=> r \in want[k]
      BY <3>1 DEF SInv, Agree
    <3>3. k = l => r \notin rs
      BY <1>7, <1>8, <2>1 DEF Pending
    <3>4. QED BY <1>4, <1>5, <3>2, <3>3
  <2>2. QED BY <2>1 DEF Agree
<1>11. Held'
  <2>1. Flushing => Flushing'
    BY <1>6, <1>9 DEF Flushing, Same, At
  <2>2. Current => Current'
    BY <1>4 DEF Current, Blocked
  <2>3. QED BY <1>4, <2>1, <2>2 DEF SInv, Held, Rules, Blocked
<1>12. \A q \in Proc \ {p} : Handling(q)' /\ Asking(q)'
  <2>1. \A k \in ListName : want[k] \subseteq want'[k] /\ Rules(k) \subseteq Rules(k)'
    BY <1>4 DEF Rules
  <2>2. QED BY <1>6, <2>1, RuleFacts, OthersStay
<1>13. Handling(p)' /\ Asking(p)'
  <2>1. Orderlies(job'[p])
    BY <1>1, OrderliesOn
  <2>2. job'[p].rules \cap disk'[job'[p].list] = {}
    BY <1>5, <1>7
  <2>3. QED BY <1>7, <1>8, <2>1, <2>2 DEF Handling, Asking
<1>14. QED BY <1>10, <1>11, <1>12, <1>13 DEF SInv

\* A deletion is alone, so nothing logged or learned the rule since.
LEMMA RemoveSurvives ==
    ASSUME Orderly, IInv, SInv, NEW p \in Proc, Remove(p)
    PROVE  SInv'
<1>1. At(p, "remove") /\ Advance(p) /\ "remove" \in HandlerStep
  BY DEF Remove, HandlerStep
<1>2. job[p].op = "delete" /\ Tail(job[p].todo) = <<"flush">>
  <2>1. "remove" \notin {"append", "append removal", "append and insert", "insert", "flush"}
    OBVIOUS
  <2>2. QED BY <1>1, <2>1, Standing, Zenon
<1>3. PICK l \in ListName, rs \in SUBSET Rule : l = job[p].list /\ rs = job[p].rules
  BY <1>1, Onward
<1>4. /\ Put(l, rs, Absent) /\ want' = [want EXCEPT ![l] = want[l] \ rs]
      /\ UNCHANGED <<whiteExact, memo, disk, bloom>>
  BY <1>3 DEF Remove
<1>5. /\ \A k \in ListName \ {l} : Rules(k)' = Rules(k)
      /\ Rules(l)' = Rules(l) \ rs
  <2>1. Typed
    BY DEF IInv
  <2>2. QED BY <1>4, <2>1, PutFacts
<1>6. /\ \A k \in ListName \ {l} : want'[k] = want[k]
      /\ want'[l] = want[l] \ rs
  BY <1>4 DEF IInv, Typed, StoresTyped
<1>7. \A q \in Proc : q = p
  BY <1>2, NoDeletionBeside
<1>8. rs \cap disk[l] = {}
  BY <1>1, <1>3 DEF SInv, Handling
<1>9. job'[p].todo = <<"flush">> /\ job'[p].op = "delete"
  BY <1>1, <1>2, Onward
<1>10. At(p, "flush")'
  BY <1>9, TupleParts DEF At
<1>11. ~At(p, "append")
  BY <1>1 DEF At
<1>12. Agree'
  <2>1. ASSUME NEW k \in ListName, NEW r \in Rule
        PROVE  r \in disk'[k] <=> r \in want'[k]
    <3>1. CASE k = l /\ r \in rs
      BY <1>4, <1>6, <1>8, <3>1
    <3>2. CASE ~(k = l /\ r \in rs)
      <4>1. ~Pending(k, r)
        BY <1>3, <1>7, <3>2 DEF Pending
      <4>2. r \in disk[k] <=> r \in want[k]
        BY <4>1 DEF SInv, Agree
      <4>3. QED BY <1>4, <1>6, <3>2, <4>2
    <3>3. QED BY <3>1, <3>2
  <2>2. QED BY <2>1 DEF Agree
<1>13. Held'
  <2>1. Held
    BY DEF SInv
  <2>2. Flushing'
    BY <1>9, <1>10 DEF Flushing
  <2>3. Rules("white")' \subseteq want'["white"] /\ Rules("bypass")' \subseteq want'["bypass"]
    BY <1>5, <1>6, <2>1, RuleFacts DEF Held
  <2>4. Rules("block")' \subseteq Blocked' /\ want'["block"] \subseteq Blockable
    BY <1>5, <1>6, <2>1, RuleFacts DEF Held, Blocked
  <2>5. Covers = {} \/ want'["white"] = {}
    BY <1>6, <2>1, RuleFacts DEF Held
  <2>6. QED BY <1>4, <2>1, <2>2, <2>3, <2>4, <2>5 DEF Held
<1>14. Handling(p)' /\ Asking(p)'
  BY <1>1, <1>2, HandlingOn
<1>15. QED BY <1>7, <1>12, <1>13, <1>14 DEF SInv

LEMMA FlushSurvives ==
    ASSUME Orderly, IInv, SInv, NEW p \in Proc, Flush(p)
    PROVE  SInv'
<1>1. At(p, "flush") /\ Advance(p) /\ "flush" \in HandlerStep
  BY DEF Flush, HandlerStep
<1>2. /\ memo' = [d \in Domain |-> Absent]
      /\ UNCHANGED <<mem, whiteExact, disk, bloom, want>>
  BY DEF Flush
<1>3. Tail(job[p].todo) = <<>>
  <2>1. "flush" \notin {"append", "append removal", "append and insert", "insert", "remove"}
    OBVIOUS
  <2>2. QED BY <1>1, <2>1, Standing, Zenon
<1>4. \A q \in Proc \ {p} : Same(q)
  BY <1>1, Onward
<1>5. ~At(p, "append") /\ ~At(p, "remove")
  BY <1>1 DEF At
<1>6. Agree'
  <2>1. ASSUME NEW k \in ListName, NEW r \in Rule, ~Pending(k, r)'
        PROVE  r \in disk'[k] <=> r \in want'[k]
    <3>1. ~Pending(k, r)
      BY <1>4, <1>5, <2>1, OthersPending
    <3>2. QED BY <1>2, <3>1 DEF SInv, Agree
  <2>2. QED BY <2>1 DEF Agree
<1>7. Held'
  <2>1. Current'
    BY <1>2 DEF Current
  <2>2. QED BY <1>2, <2>1 DEF SInv, Held, Rules, Blocked
<1>8. \A q \in Proc \ {p} : Handling(q)' /\ Asking(q)'
  <2>1. \A k \in ListName : want[k] \subseteq want'[k] /\ Rules(k) \subseteq Rules(k)'
    BY <1>2 DEF Rules
  <2>2. QED BY <1>4, <2>1, RuleFacts, OthersStay
<1>9. Handling(p)' /\ Asking(p)'
  BY <1>1, <1>3, HandlingOn
<1>10. QED BY <1>6, <1>7, <1>8, <1>9 DEF SInv

\* Under Orderly no call clears a list or the log, or comes from the console.
LEMMA NotOrderly ==
    ASSUME Orderly, IInv, SInv, NEW p \in Proc
    PROVE  ~EmptyList(p) /\ ~ClearLog(p) /\ ~WhitelistExact(p) /\ ~InsertBloom(p)
<1>1. ASSUME NEW s \in {"empty", "empty whitelist", "clear log", "insert exact",
                        "remove exact", "insert bloom"}, At(p, s)
      PROVE  FALSE
  <2>1. s \in HandlerStep
    BY DEF HandlerStep
  <2>2. s \notin {"append and insert", "append removal", "remove", "insert", "append", "flush"}
    OBVIOUS
  <2>3. QED BY <1>1, <2>1, <2>2, Standing, Zenon
<1>2. QED BY <1>1 DEF EmptyList, ClearLog, WhitelistExact, InsertBloom

-----------------------------------------------------------------------------
(* The queries learn what is blocked already, or what may be learned.      *)

LEMMA LearnableReachesDown ==
    ASSUME SInv, NEW d \in Domain, Above(Rules("block"), d) # {}
    PROVE  d \in Learnable
<1>1. PICK r \in Rules("block") : <<r, d>> \in Covers
  BY DEF Above
<1>2. r \in Blockable \cup Learnable
  BY <1>1 DEF SInv, Held, Blocked
<1>3. CASE r \in Blockable
  BY <1>1, <1>3 DEF Learnable, Above
<1>4. CASE r \in Learnable
  <2>1. r \in Domain
    BY <1>4 DEF Learnable
  <2>2. CASE r \in Feed \cup Windows
    BY <1>1, <2>2 DEF Learnable, Above
  <2>3. CASE Above(Blockable \cup Feed \cup Windows, r) # {}
    <3>1. PICK s \in Blockable \cup Feed \cup Windows : <<s, r>> \in Covers
      BY <2>3 DEF Above
    <3>2. s \in Rule /\ r \in Domain /\ d \in Domain /\ r \in Rule
      BY <2>1, <3>1, RuleFacts, ConstantsAssumption
    <3>3. <<s, d>> \in Covers
      BY <1>1, <3>1, <3>2, ConstantsAssumption
    <3>4. QED BY <3>1, <3>3 DEF Learnable, Above
  <2>4. QED BY <1>4, <2>2, <2>3 DEF Learnable
<1>5. QED BY <1>2, <1>3, <1>4

\* A query is never beside a deletion.
LEMMA MemoIsCurrent ==
    ASSUME Orderly, IInv, SInv, NEW p \in Proc, job[p].op = "query"
    PROVE  Current
<1>1. SUFFICES ASSUME Flushing PROVE FALSE
  BY DEF SInv, Held
<1>2. PICK q \in Proc : job[q].op = "delete"
  BY <1>1 DEF Flushing
<1>3. q # p
  BY <1>2
<1>4. QED BY <1>2, <1>3, NoDeletionBeside

LEMMA QueryStands ==
    ASSUME NEW q \in Proc, job'[q].op = "query", \A s : At(q, s)' => s \in QueryStep
    PROVE  Handling(q)'
<1>1. "remove" \notin QueryStep /\ "append" \notin QueryStep
  BY DEF QueryStep, LookStep
<1>2. ~At(q, "remove")' /\ ~At(q, "append")'
  BY <1>1
<1>3. Orderlies(job'[q])
  BY DEF Orderlies
<1>4. QED BY <1>2, <1>3 DEF Handling

\* Where a query stands, and where it goes on.
LEMMA AskingAt ==
    ASSUME IInv, SInv, NEW p \in Proc, NEW s \in QueryStep, At(p, s)
    PROVE  /\ job[p].op = "query" /\ job[p] \in Job /\ job[p].todo # <<>>
           /\ ~At(p, "append") /\ ~At(p, "remove") /\ ~At(p, "flush")
           /\ \E d \in Domain : job[p].rules = {d}
<1>1. "remove" \notin QueryStep /\ "append" \notin QueryStep /\ "flush" \notin QueryStep
  BY DEF QueryStep, LookStep
<1>2. ~At(p, "append") /\ ~At(p, "remove") /\ ~At(p, "flush")
  BY <1>1 DEF At
<1>3. s \notin HandlerStep
  BY DEF QueryStep, LookStep, HandlerStep
<1>4. job[p].op = "query" /\ job[p] \in Job /\ job[p].todo # <<>>
  BY <1>3, AtFacts DEF IInv
<1>5. \E d \in Domain : job[p].rules = {d}
  BY <1>4 DEF IInv, Typed, Scripted
<1>6. QED BY <1>2, <1>4, <1>5

LEMMA AskingOnward ==
    ASSUME IInv, SInv, NEW p \in Proc, NEW s \in QueryStep, At(p, s), Advance(p)
    PROVE  /\ \A q \in Proc \ {p} : Same(q)
           /\ job'[p].op = "query" /\ job'[p].rules = job[p].rules
           /\ job'[p].reason = job[p].reason
           /\ Handling(p)' /\ ~At(p, "learn white")'
<1>1. Typed /\ job[p].op = "query" /\ job[p] \in Job /\ job[p].todo # <<>>
  BY AskingAt DEF IInv
<1>2. /\ \A q \in Proc \ {p} : job'[q] = job[q]
      /\ job'[p].op = job[p].op /\ job'[p].rules = job[p].rules
  BY <1>1, AdvanceFacts
<1>3. job'[p].reason = job[p].reason
  BY <1>1 DEF Advance, Typed, Job
<1>4. ASSUME NEW step, At(p, step)' PROVE step # "learn white" /\ step \in QueryStep
  BY <1>1, <1>4, SecondStep
<1>5. QED BY <1>1, <1>2, <1>3, <1>4, QueryStands DEF Same

LEMMA LookOnSurvives ==
    ASSUME IInv, SInv, NEW p \in Proc, NEW s \in QueryStep, At(p, s), Advance(p),
           UNCHANGED <<mem, whiteExact, memo, disk, bloom, want>>
    PROVE  SInv'
<1>1. Asking(p)'
  <2>1. Asking(p)
    BY DEF SInv
  <2>2. QED BY <2>1, AskingAt, AskingOnward DEF Asking, Blocked
<1>2. \A q \in Proc : StillThere(q)
  BY <1>1, AskingAt, AskingOnward DEF StillThere
<1>3. QED BY <1>2, BloomIsFeed, Unedited

LEMMA DecideSurvives ==
    ASSUME IInv, SInv, NEW p \in Proc, NEW s \in QueryStep, At(p, s), NEW v \in {"allow", "block"},
           NEW r \in Reason \cup {Absent}, NEW t \in AfterAllow \cup AfterBlock,
           Decide(p, v, r, t),
           t = <<"learn white">> => job[p].rules \subseteq Rules("white"),
           r # Absent => job[p].rules \subseteq Blocked,
           UNCHANGED <<mem, whiteExact, memo, disk, bloom, want>>
    PROVE  SInv'
<1>1. /\ job \in [Proc -> Job] /\ job[p] \in Job /\ job[p].op = "query"
  BY AskingAt DEF IInv, Typed
<1>2. /\ \A q \in Proc \ {p} : Same(q)
      /\ job'[p].op = "query" /\ job'[p].rules = job[p].rules
      /\ job'[p].reason = r /\ job'[p].todo = t
  <2> DEFINE k == [job[p] EXCEPT !.verdict = v, !.reason = r, !.todo = t]
  <2>1. job' = [job EXCEPT ![p] = k]
    BY DEF Decide
  <2>2. k.op = job[p].op /\ k.rules = job[p].rules /\ k.reason = r /\ k.todo = t
    BY <1>1 DEF Job
  <2> HIDE DEF k
  <2>3. job'[p] = k /\ \A q \in Proc \ {p} : job'[q] = job[q]
    BY <1>1, <2>1
  <2>4. QED BY <1>1, <2>2, <2>3 DEF Same
<1>3. ASSUME NEW step, At(p, step)'
      PROVE  step \in QueryStep /\ (step = "learn white" => t = <<"learn white">>)
  <2>1. t # <<>> /\ step = Head(t) /\ t \in Seq(QueryStep)
    BY <1>2, <1>3, AfterDecision DEF At
  <2>2. step = t[1] /\ 1 \in 1..Len(t) /\ step \in QueryStep
    <3>1. Head(t) = t[1] /\ 1 \in 1..Len(t)
      BY <2>1, FirstOf
    <3>2. PICK u \in Seq(QueryStep) : u = t
      BY <2>1
    <3>3. u[1] \in QueryStep
      BY <2>1, <3>2, FirstOf
    <3>4. QED BY <2>1, <3>1, <3>2, <3>3
  <2>3. CASE t \in AfterBlock
    <3>1. step \in {"memoise", "learn block"}
      BY <2>2, <2>3, AfterDecision
    <3>2. QED BY <2>2, <3>1
  <2>4. CASE t \in AfterAllow
    BY <2>1, <2>2, <2>4 DEF AfterAllow
  <2>5. QED BY <2>3, <2>4
<1>4. Handling(p)'
  BY <1>2, <1>3, QueryStands
<1>5. Asking(p)'
  BY <1>2, <1>3 DEF Asking, Blocked, Rules
<1>6. \A q \in Proc : StillThere(q)
  BY <1>2, <1>4, <1>5, AskingAt DEF StillThere
<1>7. QED BY <1>6, BloomIsFeed, Unedited

LEMMA BeginQuerySurvives ==
    ASSUME IInv, SInv, NEW p \in Proc, BeginQuery(p)
    PROVE  SInv'
<1>1. PICK d \in Domain, proto \in Protos :
         job' = [job EXCEPT ![p] = [Idle EXCEPT !.op = "query", !.rules = {d},
                                                !.todo = QueryScript(proto),
                                                !.clean = Quiet, !.fed = feed]]
  BY DEF BeginQuery
<1>2. PICK j : j = [Idle EXCEPT !.op = "query", !.rules = {d}, !.todo = QueryScript(proto),
                                !.clean = Quiet, !.fed = feed]
  OBVIOUS
<1>3. job' = [job EXCEPT ![p] = j]
  BY <1>1, <1>2
<1>4. job'[p] = j /\ \A q \in Proc \ {p} : job'[q] = job[q]
  BY <1>3 DEF IInv, Typed
<1>5. PICK t \in Seq(LookStep) : t = QueryScript(proto)
  BY QueryScripts
<1>6. j.op = "query" /\ j.todo = t /\ j.reason = Absent
  BY <1>2, <1>5 DEF Idle
<1>7. ASSUME NEW s, At(p, s)' PROVE s \in LookStep
  BY <1>4, <1>5, <1>6, <1>7, FirstOf DEF At
<1>8. Handling(p)' /\ Asking(p)'
  <2>1. LookStep \subseteq QueryStep /\ "learn white" \notin LookStep
    BY DEF QueryStep, LookStep
  <2>2. \A s : At(p, s)' => s \in QueryStep
    BY <1>7, <2>1
  <2>3. Handling(p)'
    BY <1>4, <1>6, <2>2, QueryStands
  <2>4. ~At(p, "learn white")'
    BY <1>7, <2>1
  <2>5. QED BY <1>4, <1>6, <2>3, <2>4 DEF Asking
<1>9. \A s : ~At(p, s)
  BY DEF BeginQuery, At, Idle
<1>10. UNCHANGED <<mem, disk, want, whiteExact, bloom, memo>>
  BY DEF BeginQuery
<1>11. \A q \in Proc : StillThere(q)
  BY <1>4, <1>8, <1>9 DEF StillThere, Same
<1>12. QED BY <1>10, <1>11, BloomIsFeed, Unedited

LEMMA LookSurvives ==
    ASSUME Orderly, IInv, SInv, NEW p \in Proc, Look(p)
    PROVE  SInv'
<1>1. UNCHANGED <<mem, whiteExact, memo, disk, bloom, want>>
  BY DEF Look
<1>2. PICK d \in job[p].rules :
         \/ LookBypass(p, d) \/ LookBypassFast(p, d) \/ LookWhite(p, d)
         \/ LookMemo(p, d) \/ LookSchedule(p, d) \/ LookBlock(p, d)
         \/ LookWildcardWhite(p, d) \/ LookWildcardBlock(p, d) \/ LookFeed(p, d)
  BY DEF Look
<1>3. PICK s \in LookStep : At(p, s)
  BY <1>2 DEF LookBypass, LookBypassFast, LookWhite, LookMemo, LookSchedule, LookBlock,
              LookWildcardWhite, LookWildcardBlock, LookFeed, LookStep
<1>4. s \in QueryStep /\ job[p].op = "query" /\ d \in Domain /\ job[p].rules = {d}
  BY <1>3, LookFacts DEF QueryStep
<1>5. Advance(p) => SInv'
  BY <1>1, <1>3, <1>4, LookOnSurvives
<1>6. \A r \in Reason, t \in AfterBlock :
         d \in Blocked /\ Decide(p, "block", r, t) => SInv'
  <2>1. \A t \in AfterBlock : t # <<"learn white">>
    BY Afterwards
  <2>2. QED BY <1>1, <1>3, <1>4, <2>1, DecideSurvives
<1>7. ASSUME Decide(p, "allow", Absent, <<"learn white">>), d \in Rules("white")
      PROVE  SInv'
  BY <1>1, <1>3, <1>4, <1>7, Afterwards, DecideSurvives
<1>8. Decide(p, "allow", Absent, <<>>) => SInv'
  BY <1>1, <1>3, <1>4, Afterwards, DecideSurvives
<1>9. Learn \in AfterBlock /\ MemoAndLearn \in AfterBlock
      /\ <<"memoise", "learn block">> \in AfterBlock
  BY Afterwards
<1>10. Learnable \subseteq Blocked /\ Held
  BY DEF Blocked, SInv
<1>11. CASE LookBypass(p, d)
  BY <1>5, <1>8, <1>11 DEF LookBypass
<1>12. CASE LookBypassFast(p, d)
  <2>1. CASE Matches(Rules("bypass"), d)
    <3>1. PICK k : k = [job[p] EXCEPT !.todo = CheckDomain]
      OBVIOUS
    <3>2. job' = [job EXCEPT ![p] = k] /\ job \in [Proc -> Job] /\ job[p] \in Job
      BY <1>12, <2>1, <3>1 DEF LookBypassFast, IInv, Typed
    <3>3. job'[p] = k /\ \A q \in Proc \ {p} : job'[q] = job[q]
      BY <3>2
    <3>4. /\ k.op = "query" /\ k.todo = CheckDomain /\ k.rules = job[p].rules
          /\ k.reason = job[p].reason
      BY <1>4, <3>1, <3>2 DEF Job
    <3>5. ASSUME NEW step, At(p, step)' PROVE step \in LookStep
      BY <3>3, <3>4, <3>5, CheckDomainLooks, FirstOf DEF At
    <3>6. LookStep \subseteq QueryStep /\ "learn white" \notin LookStep
      BY DEF QueryStep, LookStep
    <3>7. Handling(p)'
      <4>1. \A step : At(p, step)' => step \in QueryStep
        BY <3>5, <3>6
      <4>2. QED BY <3>3, <3>4, <4>1, QueryStands
    <3>8. Asking(p)'
      <4>1. ~At(p, "learn white")' /\ Asking(p)
        BY <3>5, <3>6 DEF SInv
      <4>2. QED BY <1>1, <1>4, <3>3, <3>4, <4>1 DEF Asking, Blocked
    <3>9. \A q \in Proc : StillThere(q)
      BY <1>3, <1>4, <3>3, <3>7, <3>8, AskingAt DEF StillThere, Same
    <3>10. QED BY <1>1, <3>9, BloomIsFeed, Unedited
  <2>2. CASE ~Matches(Rules("bypass"), d)
    BY <1>5, <1>12, <2>2 DEF LookBypassFast
  <2>3. QED BY <2>1, <2>2
<1>13. CASE LookWhite(p, d)
  <2>1. CASE d \in Rules("white")
    BY <1>7, <1>13, <2>1 DEF LookWhite
  <2>2. CASE d \notin Rules("white")
    BY <1>5, <1>13, <2>2, BloomIsFeed DEF LookWhite
  <2>3. QED BY <2>1, <2>2
<1>14. CASE LookMemo(p, d)
  <2>1. memo[d] \in Reason \cup {Absent} /\ Current
    BY <1>4, MemoIsCurrent DEF IInv, Typed, StoresTyped
  <2>2. CASE memo[d] # Absent
    <3>1. d \in Blocked /\ memo[d] \in Reason
      BY <1>4, <2>1, <2>2 DEF Current
    <3>2. Decide(p, "block", memo[d], Learn)
      BY <1>14, <2>2 DEF LookMemo
    <3>3. QED BY <1>6, <1>9, <3>1, <3>2
  <2>3. CASE memo[d] = Absent
    BY <1>5, <1>14, <2>3 DEF LookMemo
  <2>4. QED BY <2>2, <2>3
<1>15. CASE LookSchedule(p, d)
  <2>1. CASE d \in window
    <3>1. d \in Blocked /\ "schedule_block" \in Reason
      BY <1>4, <1>10, <2>1 DEF IInv, Typed, StoresTyped, Learnable, Reason
    <3>2. Decide(p, "block", "schedule_block", <<"memoise", "learn block">>)
      BY <1>15, <2>1 DEF LookSchedule
    <3>3. QED BY <1>6, <1>9, <3>1, <3>2
  <2>2. CASE d \notin window
    BY <1>5, <1>15, <2>2 DEF LookSchedule
  <2>3. QED BY <2>1, <2>2
<1>16. CASE LookBlock(p, d)
  <2>1. "threat_feed_abir" \in Reason /\ ReasonTag(mem["block"][d]) \in Reason
    BY ReasonTags DEF Reason
  <2>2. CASE d \in Rules("block")
    <3>1. d \in Blocked
      BY <1>10, <2>2 DEF Held
    <3>2. Decide(p, "block", ReasonTag(mem["block"][d]), MemoAndLearn)
      BY <1>16, <2>2 DEF LookBlock
    <3>3. QED BY <1>6, <1>9, <2>1, <3>1, <3>2
  <2>3. CASE d \in bloom \ Rules("block")
    <3>1. d \in Blocked
      BY <1>4, <1>10, <2>3 DEF Held, Learnable
    <3>2. Decide(p, "block", "threat_feed_abir", MemoAndLearn)
      BY <1>16, <2>3 DEF LookBlock
    <3>3. QED BY <1>6, <1>9, <2>1, <3>1, <3>2
  <2>4. CASE d \notin bloom \cup Rules("block")
    BY <1>5, <1>16, <2>4 DEF LookBlock
  <2>5. QED BY <2>2, <2>3, <2>4
<1>17. CASE LookWildcardWhite(p, d)
  <2>1. Above(Rules("white"), d) = {}
    BY <1>10 DEF Held, Above
  <2>2. QED BY <1>5, <1>17, <2>1 DEF LookWildcardWhite
<1>18. CASE LookWildcardBlock(p, d)
  <2>1. CASE Above(Rules("block"), d) # {}
    <3>1. d \in Blocked
      BY <1>4, <1>10, <2>1, LearnableReachesDown
    <3>2. \E r \in Above(Rules("block"), d) :
             Decide(p, "block", ReasonTag(mem["block"][r]), MemoAndLearn)
      BY <1>18, <2>1 DEF LookWildcardBlock
    <3>3. QED BY <1>6, <1>9, <3>1, <3>2, ReasonTags
  <2>2. CASE Above(Rules("block"), d) = {}
    BY <1>5, <1>18, <2>2 DEF LookWildcardBlock
  <2>3. QED BY <2>1, <2>2
<1>19. CASE LookFeed(p, d)
  <2>1. CASE Matches(bloom, d)
    <3>1. d \in Blocked
      BY <1>4, <1>10, <2>1 DEF Held, Learnable, Matches, Above
    <3>2. "threat_feed_abir" \in Reason
      BY DEF Reason
    <3>3. Decide(p, "block", "threat_feed_abir", MemoAndLearn)
      BY <1>19, <2>1 DEF LookFeed
    <3>4. QED BY <1>6, <1>9, <3>1, <3>2, <3>3
  <2>2. CASE ~Matches(bloom, d)
    BY <1>8, <1>19, <2>2 DEF LookFeed
  <2>3. QED BY <2>1, <2>2
<1>20. QED BY <1>2, <1>11, <1>12, <1>13, <1>14, <1>15, <1>16, <1>17, <1>18, <1>19

\* A step of a query that changes the memo or the blocklist.
LEMMA LearningSurvives ==
    ASSUME Orderly, IInv, SInv, NEW p \in Proc, NEW s \in QueryStep, At(p, s), Advance(p),
           UNCHANGED <<whiteExact, disk, bloom, want>>,
           Rules("white")' = Rules("white"), Rules("bypass")' = Rules("bypass"),
           Rules("block")' \subseteq Rules("block") \cup Blocked,
           \A d \in Domain : memo'[d] # Absent => memo[d] # Absent \/ d \in Blocked
    PROVE  SInv'
<1>1. /\ job[p].op = "query" /\ ~At(p, "append") /\ ~At(p, "remove") /\ ~At(p, "flush")
      /\ \A q \in Proc \ {p} : Same(q)
  BY AskingAt, AskingOnward
<1>2. Agree'
  <2>1. ASSUME NEW l \in ListName, NEW r \in Rule, ~Pending(l, r)'
        PROVE  r \in disk'[l] <=> r \in want'[l]
    <3>1. ~Pending(l, r)
      BY <1>1, <2>1, OthersPending
    <3>2. QED BY <3>1 DEF SInv, Agree
  <2>2. QED BY <2>1 DEF Agree
<1>3. Held'
  <2>1. Current /\ Held
    BY <1>1, MemoIsCurrent DEF SInv
  <2>2. Blocked' = Blocked
    BY DEF Blocked
  <2>3. Current'
    BY <2>1, <2>2 DEF Current
  <2>4. QED BY <2>1, <2>2, <2>3 DEF Held
<1>4. \A q \in Proc \ {p} : Handling(q)' /\ Asking(q)'
  BY <1>1, OthersStay
<1>5. Asking(p)'
  <2>1. Asking(p)
    BY DEF SInv
  <2>2. QED BY <1>1, <2>1, AskingOnward DEF Asking, Blocked
<1>6. Handling(p)'
  BY AskingOnward
<1>7. QED BY <1>2, <1>3, <1>4, <1>5, <1>6 DEF SInv

LEMMA MemoiseSurvives ==
    ASSUME Orderly, IInv, SInv, NEW p \in Proc, Memoise(p)
    PROVE  SInv'
<1>1. /\ At(p, "memoise") /\ Advance(p) /\ "memoise" \in QueryStep
      /\ UNCHANGED <<mem, whiteExact, disk, bloom, want>>
  BY DEF Memoise, QueryStep
<1>2. PICK d \in job[p].rules : memo' = [memo EXCEPT ![d] = job[p].reason]
  BY DEF Memoise
<1>3. job[p].op = "query" /\ job[p].reason \in Reason /\ Asking(p)
  BY <1>1, AskingAt, AtFacts DEF IInv, SInv
<1>4. job[p].rules \subseteq Blocked
  BY <1>3, RuleFacts DEF Asking
<1>5. \A e \in Domain : memo'[e] # Absent => memo[e] # Absent \/ e \in Blocked
  BY <1>2, <1>4 DEF IInv, Typed, StoresTyped
<1>6. \A l \in ListName : Rules(l)' = Rules(l)
  BY <1>1 DEF Rules
<1>7. QED BY <1>1, <1>5, <1>6, RuleFacts, LearningSurvives

\* What is learned as whitelisted is in the whitelist already.
LEMMA LearnWhiteSurvives ==
    ASSUME IInv, SInv, NEW p \in Proc, LearnWhite(p)
    PROVE  SInv'
<1>1. /\ At(p, "learn white") /\ Advance(p) /\ "learn white" \in QueryStep
      /\ UNCHANGED <<whiteExact, memo, disk, bloom, want>>
  BY DEF LearnWhite, QueryStep
<1>2. job[p].rules \subseteq Rules("white")
  BY <1>1 DEF SInv, Asking
<1>3. UNCHANGED mem
  BY <1>2 DEF LearnWhite
<1>4. QED BY <1>1, <1>3, LookOnSurvives

LEMMA LearnBlockSurvives ==
    ASSUME Orderly, IInv, SInv, NEW p \in Proc, LearnBlock(p)
    PROVE  SInv'
<1>1. /\ At(p, "learn block") /\ Advance(p) /\ "learn block" \in QueryStep
      /\ UNCHANGED <<whiteExact, memo, disk, bloom, want>>
  BY DEF LearnBlock, QueryStep
<1>2. /\ job[p].op = "query" /\ job[p].reason \in Reason /\ Asking(p)
      /\ \E d \in Domain : job[p].rules = {d}
  BY <1>1, AskingAt, AtFacts DEF IInv, SInv
<1>3. PICK source : source = DetectedSource(job[p].reason)
  OBVIOUS
<1>4. PICK d \in job[p].rules :
         \/ UNCHANGED mem
         \/ Put("block", {d}, source)
         \/ \E r \in Rule : mem' = [mem EXCEPT !["block"][r] = Absent, !["block"][d] = source]
  BY <1>3 DEF LearnBlock, Oldest, Rules
<1>5. d \in Blocked /\ d \in Domain /\ d \in Rule
  BY <1>2, RuleFacts DEF Asking
<1>6. mem \in [ListName -> [Rule -> Source \cup {Absent}]]
  BY DEF IInv, Typed, StoresTyped
<1>7. /\ \A k \in ListName \ {"block"} : mem'[k] = mem[k]
      /\ \A r \in Rule \ {d} : mem'["block"][r] \in {mem["block"][r], Absent}
  <2>1. CASE UNCHANGED mem
    BY <2>1
  <2>2. CASE Put("block", {d}, source)
    BY <1>6, <2>2, RuleFacts DEF Put
  <2>3. ASSUME NEW r \in Rule,
               mem' = [mem EXCEPT !["block"][r] = Absent, !["block"][d] = source]
        PROVE  /\ \A k \in ListName \ {"block"} : mem'[k] = mem[k]
               /\ \A s \in Rule \ {d} : mem'["block"][s] \in {mem["block"][s], Absent}
    BY <1>5, <1>6, <2>3, RuleFacts
  <2>4. QED BY <1>4, <2>1, <2>2, <2>3
<1>8. Rules("white")' = Rules("white") /\ Rules("bypass")' = Rules("bypass")
  <2>1. mem'["white"] = mem["white"] /\ mem'["bypass"] = mem["bypass"]
    BY <1>7 DEF ListName
  <2>2. QED BY <2>1 DEF Rules
<1>9. Rules("block")' \subseteq Rules("block") \cup Blocked
  BY <1>5, <1>7 DEF Rules, Blocked
<1>10. QED BY <1>1, <1>8, <1>9, LearningSurvives

-----------------------------------------------------------------------------
(* The restart, and the theorem.                                           *)

\* Whatever was half-done, what the log yields is then what is asked for.
LEMMA RestartLoads ==
    ASSUME Orderly, IInv, SInv, Restart
    PROVE  \A l \in ListName : want'[l] = disk[l] /\ Rules(l)' = disk[l]
<1>1. /\ mem' = [l \in ListName |-> [r \in Rule |-> IF r \in disk[l] THEN "manual" ELSE Absent]]
      /\ whiteExact' = {} /\ bloom' = {}
      /\ memo' = [d \in Domain |-> Absent]
      /\ job' = [p \in Proc |-> Idle]
      /\ want' = [l \in ListName |->
                    {r \in Rule : IF UnderWay(l, r) THEN r \in disk[l] ELSE r \in want[l]}]
      /\ UNCHANGED disk
  BY DEF Restart
<1>2. ASSUME NEW l \in ListName, NEW r \in Rule, Pending(l, r) PROVE UnderWay(l, r)
  <2>1. PICK q \in Proc, s \in {"append", "remove"} :
           At(q, s) /\ job[q].list = l /\ r \in job[q].rules
    BY <1>2 DEF Pending
  <2>2. s \in HandlerStep
    BY DEF HandlerStep
  <2>3. job[q].op \in {"add", "delete", "auto_add"}
    BY <2>1, <2>2, Standing
  <2>4. IsHandler(job[q]) /\ job[q].todo # <<>>
    BY <2>1, <2>3 DEF IsHandler, At
  <2>5. QED BY <2>1, <2>4 DEF UnderWay
<1>3. \A l \in ListName : disk[l] \subseteq Rule /\ want[l] \subseteq Rule
  BY DEF IInv, Typed, StoresTyped
<1>4. ASSUME NEW l \in ListName PROVE want'[l] = disk[l]
  <2>1. ASSUME NEW r \in Rule PROVE r \in want'[l] <=> r \in disk[l]
    <3>1. CASE UnderWay(l, r)
      BY <1>1, <3>1
    <3>2. CASE ~UnderWay(l, r)
      <4>1. r \in disk[l] <=> r \in want[l]
        BY <1>2, <3>2 DEF SInv, Agree
      <4>2. QED BY <1>1, <3>2, <4>1
    <3>3. QED BY <3>1, <3>2
  <2>2. want'[l] \subseteq Rule
    BY <1>1
  <2>3. QED BY <1>3, <2>1, <2>2
<1>5. ASSUME NEW l \in ListName PROVE Rules(l)' = disk[l]
  BY <1>1, <1>3, RuleFacts DEF Rules
<1>6. QED BY <1>4, <1>5

LEMMA RestartSurvives ==
    ASSUME Orderly, IInv, SInv, Restart
    PROVE  SInv'
<1>1. /\ whiteExact' = {} /\ bloom' = {} /\ memo' = [d \in Domain |-> Absent]
      /\ job' = [p \in Proc |-> Idle] /\ UNCHANGED disk
  BY DEF Restart
<1>2. \A l \in ListName : disk[l] \subseteq Rule
  BY DEF IInv, Typed, StoresTyped
<1>3. \A l \in ListName : want'[l] = disk[l] /\ Rules(l)' = want'[l]
  BY RestartLoads
<1>4. ASSUME NEW l \in ListName PROVE want'[l] \subseteq want[l]
  <2>1. ASSUME NEW r \in disk[l], Pending(l, r) PROVE r \in want[l]
    <3>1. PICK q \in Proc : /\ At(q, "append") \/ At(q, "remove")
                            /\ job[q].list = l /\ r \in job[q].rules
      BY <2>1 DEF Pending
    <3>2. QED BY <3>1 DEF SInv, Handling
  <2>2. disk[l] \subseteq want[l]
    BY <1>2, <2>1 DEF SInv, Agree
  <2>3. QED BY <1>3, <2>2
<1>5. Agree'
  <2>1. \A l \in ListName, r \in Rule : r \in disk'[l] <=> r \in want'[l]
    BY <1>1, <1>3
  <2>2. QED BY <2>1 DEF Agree
<1>6. Held'
  <2>1. Current'
    BY <1>1 DEF Current
  <2>2. /\ want'["block"] \subseteq Blockable /\ bloom' \subseteq Feed
        /\ Covers = {} \/ want'["white"] = {}
    BY <1>1, <1>4, RuleFacts DEF SInv, Held
  <2>3. Rules("block")' \subseteq Blocked'
    BY <1>3, RuleFacts DEF Blocked
  <2>4. QED BY <1>1, <1>3, <2>1, <2>2, <2>3, RuleFacts DEF Held
<1>7. \A q \in Proc : Handling(q)' /\ Asking(q)'
  BY <1>1, IdleStands
<1>8. QED BY <1>5, <1>6, <1>7 DEF SInv

LEMMA InitSInv == Init => SInv
<1> SUFFICES ASSUME Init PROVE SInv
  OBVIOUS
<1>1. /\ \A l \in ListName : Rules(l) = {} /\ disk[l] = {} /\ want[l] = {}
      /\ whiteExact = {} /\ bloom = {} /\ memo = [d \in Domain |-> Absent]
      /\ \A q \in Proc : job[q] = Idle
  BY DEF Init, Rules
<1>2. Agree
  BY <1>1 DEF Agree
<1>3. Held
  <2>1. Current
    BY <1>1 DEF Current
  <2>2. QED BY <1>1, <2>1, RuleFacts DEF Held
<1>4. ASSUME NEW q \in Proc PROVE Handling(q) /\ Asking(q)
  <2>1. job[q].op = "idle" /\ job[q].todo = <<>>
    BY <1>1 DEF Idle
  <2>2. QED BY <2>1 DEF Handling, Asking, Orderlies, At
<1>5. QED BY <1>2, <1>3, <1>4 DEF SInv

LEMMA StepSInv == Orderly /\ IInv /\ SInv /\ [Next]_vars => SInv'
<1> SUFFICES ASSUME Orderly, IInv, SInv, [Next]_vars PROVE SInv'
  OBVIOUS
<1>1. ASSUME NEW p \in Proc, Handler(p) PROVE SInv'
  BY <1>1, BeginCallSurvives, AppendAndInsertSurvives, InsertSurvives, AppendLateSurvives,
     AppendRemovalSurvives, RemoveSurvives, FlushSurvives, ReplySurvives, NotOrderly
     DEF Handler
<1>2. ASSUME NEW p \in Proc, Resolver(p) PROVE SInv'
  BY <1>2, BeginQuerySurvives, LookSurvives, MemoiseSurvives, LearnWhiteSurvives,
     LearnBlockSurvives DEF Resolver
<1>3. ASSUME Expire \/ HourChanges \/ SyncThreatFeed \/ SyncWhitelistFeed \/ UNCHANGED vars
      PROVE  SInv'
  BY <1>3, EnvironmentSurvives
<1>4. Restart => SInv'
  BY RestartSurvives
<1>5. QED BY <1>1, <1>2, <1>3, <1>4 DEF Next

LEMMA SInvariance == Orderly => (Spec => []SInv)
<1>1. SUFFICES ASSUME Orderly PROVE Spec => []SInv
  OBVIOUS
<1>2. IInv /\ SInv /\ [Next]_vars => SInv'
  BY <1>1, StepSInv
<1>3. QED BY <1>2, InitSInv, Invariance, PTL DEF Spec

\* Where the calls log what they do, no query can learn a rule the
\* administrators set, no wildcard whitelists a name beside them and nothing
\* is deleted beside another call, a restart at any point keeps every list:
\* the handlers of rules.rs skip the log only for a rule that is in it.
\* Without any one of the four the code loses or invents a rule.
THEOREM RulesOutliveRestarts == Orderly => (Spec => []RulesSurvive)
<1>1. IInv /\ SInv => RulesSurvive
  <2> SUFFICES ASSUME IInv, SInv, Quiet PROVE disk = want
    BY DEF RulesSurvive
  <2>1. ASSUME NEW l \in ListName, NEW r \in Rule PROVE ~Pending(l, r)
    <3>1. ASSUME NEW q \in Proc, NEW s \in {"append", "remove"}, At(q, s) PROVE FALSE
      <4>1. s \in HandlerStep /\ s \notin QueryStep
        BY DEF HandlerStep, QueryStep, LookStep
      <4>2. job[q].op # "query"
        BY <3>1, <4>1, AtFacts DEF IInv
      <4>3. job[q].op # "idle"
        BY <3>1 DEF SInv, Handling, Orderlies, At
      <4>4. QED BY <4>2, <4>3 DEF Quiet, IsHandler
    <3>2. QED BY <3>1 DEF Pending
  <2>2. \A l \in ListName, r \in Rule : r \in disk[l] <=> r \in want[l]
    BY <2>1 DEF SInv, Agree
  <2>3. disk \in [ListName -> SUBSET Rule] /\ want \in [ListName -> SUBSET Rule]
    BY DEF IInv, Typed, StoresTyped
  <2>4. \A l \in ListName : disk[l] = want[l]
    BY <2>2, <2>3
  <2>5. QED BY <2>3, <2>4
<1>2. QED BY <1>1, Invariance, SInvariance, PTL

-----------------------------------------------------------------------------
(* Answers follow the rules.  The lists are exactly what was asked for and *)
(* what that and the feed catch; a query remembers, by where it stands in  *)
(* its script, which rules it has found not to match.                      *)

Alone == \A p, q \in Proc : p = q

\* What AnswersMatchRules asks beyond that: no detection may evict a rule, the
\* hours and the feed do not come and go, a name is not learned from a rule
\* that is later deleted, and port 53, which asks the memo before the
\* whitelist, is not served beside another thread.
Faithful ==
    /\ Orderly
    /\ <<"auto_add", "block">> \notin Ops
    /\ Windows = {} /\ \A a, b \in Feed : a = b
    /\ Covers = {} \/ <<"delete", "block">> \notin Ops
    /\ Alone \/ "plain" \notin Protos

Caught == {d \in Domain : Matches(want["block"] \cup feed, d)}

FlushDue == \E p \in Proc : At(p, "flush")

Exact ==
    /\ Rules("bypass") = want["bypass"] /\ Rules("white") = want["white"]
    /\ \A r \in want["block"] : mem["block"][r] = "manual"
    /\ bloom = feed
    /\ Rules("block") \subseteq want["block"] \cup Caught
    /\ Flushing \/ \A d \in Domain : memo[d] # Absent => d \in Caught
    /\ Alone => FlushDue \/ \A d \in Domain : memo[d] # Absent => d \notin want["white"]

\* The order of the steps of a query.
Order ==
    {<<"bypass fast", "memo fast">>, <<"memo fast", "bypass">>, <<"bypass", "white">>,
     <<"white", "memo">>, <<"memo", "schedule">>, <<"schedule", "block">>,
     <<"block", "wildcard white">>, <<"wildcard white", "wildcard block">>,
     <<"wildcard block", "feed">>, <<"memoise", "learn block">>,
     <<"learn block", "learn block">>}

Fast == {"bypass fast", "memo fast"}
PastBlock == {"wildcard white", "wildcard block", "feed"}
PastWhite == {"memo", "schedule", "block"} \cup PastBlock
PastBypass == {"memo fast", "white"} \cup PastWhite

Ordered(t) ==
    \A i \in 1..Len(t) : /\ i > 1 => <<t[i - 1], t[i]>> \in Order
                         /\ t[i] \in Fast => "plain" \in Protos

\* What a query knows of the rules asked for when it stands at step s.
Knows(s, d) ==
    /\ s \in PastBypass => ~Matches(want["bypass"], d)
    /\ s \in PastWhite => d \notin want["white"]
    /\ s \in PastBlock => d \notin want["block"]
    /\ s = "feed" => Above(want["block"], d) = {}

Passed(p) ==
    job[p].op = "query" =>
       /\ Ordered(job[p].todo)
       /\ job[p].clean => Quiet
       /\ job[p].reason # Absent => job[p].rules \subseteq Caught
       /\ Alone /\ job[p].reason # Absent => job[p].rules \cap want["white"] = {}
       /\ \A d \in job[p].rules :
             /\ job[p].clean \/ Alone => \A s \in QueryStep : At(p, s) => Knows(s, d)
             /\ job[p].clean /\ Decided(p) => job[p].verdict = Intended(want, d)

AInv ==
    /\ Exact
    /\ \A p \in Proc : Passed(p)

-----------------------------------------------------------------------------
(* The order of a query's steps.                                           *)

LEMMA OrderFacts ==
    \A a, b : <<a, b>> \in Order =>
       /\ b \in PastBypass => a \in PastBypass \cup {"bypass", "bypass fast"}
       /\ b \in PastWhite => a \in PastWhite \cup {"white"}
       /\ b \in PastBlock => a \in PastBlock \cup {"block"}
       /\ b = "feed" => a = "wildcard block"
<1>1. ASSUME NEW a, NEW b, <<a, b>> \in Order
      PROVE  /\ b \in PastBypass => a \in PastBypass \cup {"bypass", "bypass fast"}
             /\ b \in PastWhite => a \in PastWhite \cup {"white"}
             /\ b \in PastBlock => a \in PastBlock \cup {"block"}
             /\ b = "feed" => a = "wildcard block"
  BY <1>1 DEF Order, PastBypass, PastWhite, PastBlock
<1>2. QED BY <1>1

LEMMA Links ==
    /\ <<"bypass", "white">> \in Order /\ <<"white", "memo">> \in Order
    /\ <<"memo", "schedule">> \in Order /\ <<"schedule", "block">> \in Order
    /\ <<"block", "wildcard white">> \in Order
    /\ <<"wildcard white", "wildcard block">> \in Order
    /\ <<"wildcard block", "feed">> \in Order
    /\ <<"bypass fast", "memo fast">> \in Order /\ <<"memo fast", "bypass">> \in Order
    /\ <<"memoise", "learn block">> \in Order /\ <<"learn block", "learn block">> \in Order
BY DEF Order

LEMMA OrderedCheck == Ordered(CheckDomain) /\ Head(CheckDomain) = "bypass" /\ CheckDomain # <<>>
<1>1. /\ Len(CheckDomain) = 8
      /\ CheckDomain[1] = "bypass" /\ CheckDomain[2] = "white" /\ CheckDomain[3] = "memo"
      /\ CheckDomain[4] = "schedule" /\ CheckDomain[5] = "block"
      /\ CheckDomain[6] = "wildcard white" /\ CheckDomain[7] = "wildcard block"
      /\ CheckDomain[8] = "feed"
  BY DEF CheckDomain
<1>2. \A i \in 2..8 : <<CheckDomain[i - 1], CheckDomain[i]>> \in Order
  <2> DEFINE P(i) == <<CheckDomain[i - 1], CheckDomain[i]>> \in Order
  <2>1. /\ 2 - 1 = 1 /\ 3 - 1 = 2 /\ 4 - 1 = 3 /\ 5 - 1 = 4 /\ 6 - 1 = 5 /\ 7 - 1 = 6
        /\ 8 - 1 = 7
    OBVIOUS
  <2>2. P(2) /\ P(3) /\ P(4) /\ P(5) /\ P(6) /\ P(7) /\ P(8)
    BY <1>1, <2>1, Links, Zenon
  <2> HIDE DEF P
  <2>3. \A i \in 2..8 : i \in {2, 3, 4, 5, 6, 7, 8}
    OBVIOUS
  <2>4. \A i \in 2..8 : P(i)
    BY <2>2, <2>3, Zenon
  <2>5. QED BY <2>4 DEF P
<1>3. \A i \in 1..8 : CheckDomain[i] \notin Fast
  <2>1. \A i \in 1..8 : i \in {1, 2, 3, 4, 5, 6, 7, 8}
    OBVIOUS
  <2>2. \A s \in {"bypass", "white", "memo", "schedule", "block", "wildcard white",
                  "wildcard block", "feed"} : s \notin Fast
    BY DEF Fast
  <2>3. QED BY <1>1, <2>1, <2>2, Zenon
<1>4. Ordered(CheckDomain)
  <2>1. \A i \in 1..8 : i > 1 => i \in 2..8
    OBVIOUS
  <2>2. QED BY <1>1, <1>2, <1>3, <2>1, Zenon DEF Ordered
<1>5. Head(CheckDomain) = CheckDomain[1] /\ CheckDomain # <<>>
  BY DEF CheckDomain
<1>6. QED BY <1>1, <1>4, <1>5

\* Two steps before the rest.
LEMMA OrderedPlain ==
    LET t == <<"bypass fast", "memo fast">> \o CheckDomain
    IN  "plain" \in Protos => Ordered(t) /\ Head(t) = "bypass fast" /\ t # <<>>
<1> DEFINE t == <<"bypass fast", "memo fast">> \o CheckDomain
<1> SUFFICES ASSUME "plain" \in Protos
             PROVE  Ordered(t) /\ Head(t) = "bypass fast" /\ t # <<>>
  OBVIOUS
<1>1. /\ Len(t) = 10 /\ t # <<>> /\ Head(t) = t[1]
      /\ t[1] = "bypass fast" /\ t[2] = "memo fast"
      /\ t[3] = "bypass" /\ t[4] = "white" /\ t[5] = "memo"
      /\ t[6] = "schedule" /\ t[7] = "block"
      /\ t[8] = "wildcard white" /\ t[9] = "wildcard block" /\ t[10] = "feed"
  <2> DEFINE f == <<"bypass fast", "memo fast">>
             c == CheckDomain
  <2>1. /\ f \in Seq(LookStep) /\ Len(f) = 2 /\ f[1] = "bypass fast" /\ f[2] = "memo fast"
    <3>1. "bypass fast" \in LookStep /\ "memo fast" \in LookStep
      BY DEF LookStep
    <3>2. QED BY <3>1, TuplesAreSequences
  <2>2. c \in Seq(LookStep)
    BY CheckDomainLooks
  <2>3. /\ Len(c) = 8 /\ c[1] = "bypass" /\ c[2] = "white" /\ c[3] = "memo"
        /\ c[4] = "schedule" /\ c[5] = "block"
        /\ c[6] = "wildcard white" /\ c[7] = "wildcard block" /\ c[8] = "feed"
    BY DEF CheckDomain
  <2>4. t = f \o c
    OBVIOUS
  <2> HIDE DEF f, c, t
  <2>5. /\ t \in Seq(LookStep) /\ Len(t) = Len(f) + Len(c)
        /\ \A i \in 1..Len(f) + Len(c) : t[i] = IF i <= Len(f) THEN f[i] ELSE c[i - Len(f)]
    BY <2>1, <2>2, <2>4, ConcatProperties
  <2>6. /\ Len(t) = 10
        /\ t[1] = f[1] /\ t[2] = f[2] /\ t[3] = c[1] /\ t[4] = c[2] /\ t[5] = c[3]
        /\ t[6] = c[4] /\ t[7] = c[5] /\ t[8] = c[6] /\ t[9] = c[7] /\ t[10] = c[8]
    <3>1. PICK m, n \in Nat : m = Len(f) /\ n = Len(c) /\ m = 2 /\ n = 8
      BY <2>1, <2>3
    <3>2. Len(t) = m + n /\ \A i \in 1..m + n : t[i] = IF i <= m THEN f[i] ELSE c[i - m]
      BY <2>5, <3>1, Zenon
    <3>3. m + n = 10 /\ m = 2
      BY <3>1
    <3>4. \A i \in 1..10 : t[i] = IF i <= 2 THEN f[i] ELSE c[i - 2]
      BY <3>2, <3>3, Zenon
    <3>5. QED BY <3>2, <3>3, <3>4
  <2>7. t # <<>> /\ Head(t) = t[1]
    <3>1. t # <<>>
      <4>1. Len(t) # 0
        BY <2>6
      <4>2. QED BY <2>5, <4>1, EmptySeq, Zenon
    <3>2. QED BY <2>5, <3>1, FirstOf, Zenon
  <2>8. QED BY <2>1, <2>3, <2>6, <2>7, Zenon
<1> HIDE DEF t
<1>2. \A i \in 2..10 : <<t[i - 1], t[i]>> \in Order
  <2> DEFINE P(i) == <<t[i - 1], t[i]>> \in Order
  <2>1. /\ 2 - 1 = 1 /\ 3 - 1 = 2 /\ 4 - 1 = 3 /\ 5 - 1 = 4 /\ 6 - 1 = 5 /\ 7 - 1 = 6
        /\ 8 - 1 = 7 /\ 9 - 1 = 8 /\ 10 - 1 = 9
    OBVIOUS
  <2>2. P(2) /\ P(3) /\ P(4) /\ P(5) /\ P(6) /\ P(7) /\ P(8) /\ P(9) /\ P(10)
    BY <1>1, <2>1, Links, Zenon
  <2> HIDE DEF P
  <2>3. \A i \in 2..10 : i \in {2, 3, 4, 5, 6, 7, 8, 9, 10}
    OBVIOUS
  <2>4. \A i \in 2..10 : P(i)
    BY <2>2, <2>3, Zenon
  <2>5. QED BY <2>4 DEF P
<1>3. Ordered(t)
  <2>1. \A i \in 1..10 : i > 1 => i \in 2..10
    OBVIOUS
  <2>2. QED BY <1>1, <1>2, <2>1, Zenon DEF Ordered
<1>4. QED BY <1>1, <1>3

LEMMA OrderedQuery ==
    ASSUME NEW proto \in Protos
    PROVE  /\ Ordered(QueryScript(proto)) /\ QueryScript(proto) # <<>>
           /\ Head(QueryScript(proto)) \in {"bypass", "bypass fast"}
<1>1. CASE proto # "plain"
  <2>1. QueryScript(proto) = CheckDomain
    BY <1>1 DEF QueryScript
  <2>2. QED BY <2>1, OrderedCheck
<1>2. CASE proto = "plain"
  <2>1. QueryScript(proto) = <<"bypass fast", "memo fast">> \o CheckDomain
    BY <1>2, Zenon DEF QueryScript
  <2>2. "plain" \in Protos
    BY <1>2
  <2>3. QED BY <2>1, <2>2, OrderedPlain, Zenon
<1>3. QED BY <1>1, <1>2

LEMMA OrderedAfter == \A t \in AfterBlock \cup AfterAllow : Ordered(t)
<1>1. Ordered(<<>>)
  BY DEF Ordered
<1>2. ~(1 > 1)
  OBVIOUS
<1>3. ASSUME NEW a \in {"learn white", "learn block"} PROVE Ordered(<<a>>)
  <2>1. Len(<<a>>) = 1 /\ <<a>>[1] = a /\ a \notin Fast
    BY <1>3 DEF Fast
  <2>2. QED BY <1>2, <2>1, Indices, Zenon DEF Ordered
<1>4. Ordered(<<"memoise", "learn block">>)
  <2> DEFINE t == <<"memoise", "learn block">>
  <2>1. Len(t) = 2 /\ t[1] = "memoise" /\ t[2] = "learn block"
    BY TuplesAreSequences
  <2>2. "memoise" \notin Fast /\ "learn block" \notin Fast
    BY DEF Fast
  <2> HIDE DEF t
  <2>3. 2 - 1 = 1
    OBVIOUS
  <2>4. Ordered(t)
    BY <1>2, <2>1, <2>2, <2>3, Indices, Links, Zenon DEF Ordered
  <2>5. QED BY <2>4 DEF t
<1>5. Ordered(<<"memoise", "learn block", "learn block">>)
  <2> DEFINE t == <<"memoise", "learn block", "learn block">>
  <2>1. Len(t) = 3 /\ t[1] = "memoise" /\ t[2] = "learn block" /\ t[3] = "learn block"
    BY TuplesAreSequences
  <2>2. "memoise" \notin Fast /\ "learn block" \notin Fast
    BY DEF Fast
  <2> HIDE DEF t
  <2>3. 2 - 1 = 1 /\ 3 - 1 = 2
    OBVIOUS
  <2>4. Ordered(t)
    BY <1>2, <2>1, <2>2, <2>3, Indices, Links, Zenon DEF Ordered
  <2>5. QED BY <2>4 DEF t
<1>6. QED BY <1>1, <1>3, <1>4, <1>5 DEF AfterBlock, AfterAllow, Learn, MemoAndLearn

\* A query goes on in order.
LEMMA OrderedOn ==
    ASSUME Typed, NEW p \in Proc, NEW h, At(p, h), Advance(p), Ordered(job[p].todo)
    PROVE  /\ Ordered(job'[p].todo)
           /\ \A s : At(p, s)' => <<h, s>> \in Order
<1> DEFINE t == job[p].todo
           u == Tail(job[p].todo)
<1>1. /\ t \in Seq(QueryStep \cup HandlerStep) /\ t # <<>> /\ h = Head(t)
      /\ job'[p].todo = u
  BY AdvanceFacts DEF Typed, Scripted, Job, At
<1>2. /\ u \in Seq(QueryStep \cup HandlerStep) /\ Len(t) \in Nat \ {0} /\ Len(u) = Len(t) - 1
      /\ \A i \in 1..Len(u) : u[i] = t[i + 1]
      /\ h = t[1]
  BY <1>1, HeadTailProperties, LenProperties, EmptySeq
<1> HIDE DEF t, u
<1>3. ASSUME NEW i \in 1..Len(u)
      PROVE  /\ <<t[i], u[i]>> \in Order
             /\ u[i] \in Fast => "plain" \in Protos
  <2>1. i + 1 \in 1..Len(t) /\ i + 1 > 1 /\ (i + 1) - 1 = i /\ u[i] = t[i + 1]
    BY <1>2
  <2>2. Ordered(t)
    BY DEF t
  <2>3. QED BY <2>1, <2>2 DEF Ordered
<1>4. Ordered(u)
  <2>1. ASSUME NEW i \in 1..Len(u), i > 1 PROVE <<u[i - 1], u[i]>> \in Order
    <3>1. i - 1 \in 1..Len(u) /\ (i - 1) + 1 = i
      BY <1>2, <2>1
    <3>2. u[i - 1] = t[i]
      BY <1>2, <3>1
    <3>3. QED BY <1>3, <3>2
  <2>2. QED BY <1>3, <2>1 DEF Ordered
<1>5. ASSUME NEW s, At(p, s)' PROVE <<h, s>> \in Order
  <2>1. u # <<>> /\ s = Head(u)
    BY <1>1, <1>5 DEF At
  <2>2. 1 \in 1..Len(u) /\ Head(u) = u[1]
    BY <1>2, <2>1, FirstOf
  <2>3. QED BY <1>2, <1>3, <2>1, <2>2
<1>6. QED BY <1>1, <1>4, <1>5

-----------------------------------------------------------------------------
(* What a query may rely on.                                               *)

\* A pattern above a name that is caught catches the name.
LEMMA CaughtReachesDown ==
    ASSUME IInv, NEW d \in Domain, NEW r, <<r, d>> \in Covers,
           r \in want["block"] \cup Caught
    PROVE  d \in Caught
<1>1. feed \subseteq Rule /\ want["block"] \subseteq Rule
  BY RuleFacts, ConstantsAssumption DEF IInv, Typed, StoresTyped
<1>2. CASE r \in want["block"]
  BY <1>2 DEF Caught, Matches, Above
<1>3. CASE r \in Caught
  <2>1. r \in Domain /\ Matches(want["block"] \cup feed, r)
    BY <1>3 DEF Caught
  <2>2. CASE r \in want["block"] \cup feed
    BY <2>2 DEF Caught, Matches, Above
  <2>3. CASE Above(want["block"] \cup feed, r) # {}
    <3>1. PICK s \in want["block"] \cup feed : <<s, r>> \in Covers
      BY <2>3 DEF Above
    <3>2. s \in Rule
      BY <1>1, <3>1
    <3>3. <<s, d>> \in Covers
      BY <2>1, <3>1, <3>2, ConstantsAssumption
    <3>4. QED BY <3>1, <3>3 DEF Caught, Matches, Above
  <2>4. QED BY <2>1, <2>2, <2>3 DEF Matches
<1>4. QED BY <1>2, <1>3

LEMMA CaughtGrows ==
    ASSUME want["block"] \cup feed \subseteq want'["block"] \cup feed'
    PROVE  Caught \subseteq Caught'
<1>1. ASSUME NEW d \in Caught PROVE d \in Caught'
  <2>1. d \in Domain /\ Matches(want["block"] \cup feed, d)
    BY DEF Caught
  <2>2. Matches(want'["block"] \cup feed', d)
    BY <2>1, MatchesMore
  <2>3. QED BY <2>1, <2>2 DEF Caught
<1>2. QED BY <1>1

\* The hierarchy, where no wildcard whitelists and no schedule blocks.
LEMMA HierarchyIs ==
    ASSUME Faithful, IInv, SInv, NEW d \in Domain
    PROVE  /\ Matches(want["bypass"], d) \/ d \in want["white"] => Intended(want, d) = "allow"
           /\ d \notin Caught => Intended(want, d) = "allow"
           /\ ~Matches(want["bypass"], d) /\ d \notin want["white"] /\ d \in Caught
                 => Intended(want, d) = "block"
<1>1. window = {} /\ (Covers = {} \/ want["white"] = {})
  BY DEF Faithful, IInv, SInv, Typed, StoresTyped, Held
<1>2. d \notin want["white"] => ~Matches(want["white"], d)
  BY <1>1 DEF Matches, Above
<1>3. d \in Caught <=> Matches(want["block"] \cup feed, d)
  BY DEF Caught
<1>4. d \in want["block"] \cup feed => Matches(want["block"] \cup feed, d)
  BY DEF Matches
<1>5. QED BY <1>1, <1>2, <1>3, <1>4, Zenon DEF Intended

\* A query that nothing overlapped meets a memo that is up to date.
LEMMA MemoIsExact ==
    ASSUME Faithful, IInv, SInv, AInv, NEW p \in Proc, job[p].op = "query",
           NEW d \in Domain, memo[d] # Absent
    PROVE  /\ d \in Caught
           /\ Alone => d \notin want["white"]
<1>1. ~Flushing
  <2>1. SUFFICES ASSUME Flushing PROVE FALSE
    OBVIOUS
  <2>2. PICK q \in Proc : job[q].op = "delete"
    BY <2>1 DEF Flushing
  <2>3. q # p
    BY <2>2
  <2>4. QED BY <2>2, <2>3, NoDeletionBeside DEF Faithful
<1>2. d \in Caught
  BY <1>1 DEF AInv, Exact
<1>3. ASSUME Alone PROVE d \notin want["white"]
  <2>1. ~FlushDue
    <3>1. SUFFICES ASSUME NEW q \in Proc, At(q, "flush") PROVE FALSE
      BY DEF FlushDue
    <3>2. q = p
      BY <1>3 DEF Alone
    <3>3. "flush" \notin QueryStep
      BY DEF QueryStep, LookStep
    <3>4. QED BY <3>1, <3>2, <3>3, AtFacts DEF IInv
  <2>2. QED BY <1>3, <2>1 DEF AInv, Exact
<1>4. QED BY <1>2, <1>3

-----------------------------------------------------------------------------
(* Steps that leave a query where it was.                                  *)

Unmoved(q) ==
    /\ Same(q)
    /\ job'[q].verdict = job[q].verdict
    /\ Caught \subseteq Caught'
    /\ job'[q].clean \/ Alone => want' = want
    /\ job'[q].clean => /\ job[q].clean /\ feed' = feed /\ window' = window
                        /\ Quiet'

LEMMA PassedStays ==
    ASSUME NEW q \in Proc, Passed(q), Unmoved(q)
    PROVE  Passed(q)'
<1> SUFFICES ASSUME job'[q].op = "query" PROVE Passed(q)'
  BY DEF Passed
<1>1. /\ job[q].op = "query" /\ job'[q].rules = job[q].rules /\ job'[q].todo = job[q].todo
      /\ job'[q].reason = job[q].reason /\ job'[q].verdict = job[q].verdict
      /\ Caught \subseteq Caught'
      /\ job'[q].clean \/ Alone => want' = want
      /\ job'[q].clean => job[q].clean /\ feed' = feed /\ window' = window /\ Quiet'
  BY DEF Unmoved, Same
<1>2. Ordered(job'[q].todo)
  BY <1>1 DEF Passed
<1>3. job'[q].reason # Absent => job'[q].rules \subseteq Caught'
  BY <1>1 DEF Passed
<1>4. Alone /\ job'[q].reason # Absent => job'[q].rules \cap want'["white"] = {}
  BY <1>1 DEF Passed
<1>5. ASSUME NEW d \in job'[q].rules, job'[q].clean \/ Alone,
             NEW s \in QueryStep, At(q, s)'
      PROVE  Knows(s, d)'
  <2>1. At(q, s) /\ want' = want /\ d \in job[q].rules /\ (job[q].clean \/ Alone)
    BY <1>1, <1>5 DEF At
  <2>2. Knows(s, d)
    BY <1>1, <2>1 DEF Passed
  <2>3. QED BY <2>1, <2>2 DEF Knows
<1>6. ASSUME NEW d \in job'[q].rules, job'[q].clean, Decided(q)'
      PROVE  job'[q].verdict = Intended(want, d)'
  <2>1. /\ want' = want /\ feed' = feed /\ window' = window
        /\ d \in job[q].rules /\ job[q].clean /\ Decided(q)
    BY <1>1, <1>6 DEF Decided
  <2>2. job[q].verdict = Intended(want, d)
    BY <1>1, <2>1 DEF Passed
  <2>3. Intended(want, d)' = Intended(want, d)
    BY <2>1 DEF Intended
  <2>4. QED BY <1>1, <2>2, <2>3
<1>7. QED BY <1>1, <1>2, <1>3, <1>4, <1>5, <1>6, Zenon DEF Passed, Alone

LEMMA NoQueryPassed ==
    ASSUME NEW q \in Proc, job'[q].op # "query"
    PROVE  Passed(q)'
BY DEF Passed

\* The lists and the memo are as they were, or the memo forgets.
LEMMA ExactStays ==
    ASSUME Exact, UNCHANGED <<mem, want, bloom, feed>>,
           \A d \in Domain : memo'[d] \in {memo[d], Absent},
           FlushDue => FlushDue', Flushing => Flushing'
    PROVE  Exact'
<1>1. Caught' = Caught
  BY DEF Caught
<1>2. \A l \in ListName : Rules(l)' = Rules(l)
  BY DEF Rules
<1>3. Flushing' \/ \A d \in Domain : memo'[d] # Absent => d \in Caught'
  BY <1>1 DEF Exact
<1>4. Alone => FlushDue' \/ \A d \in Domain : memo'[d] # Absent => d \notin want'["white"]
  BY DEF Exact
<1>5. QED BY <1>1, <1>2, <1>3, <1>4, RuleFacts DEF Exact

-----------------------------------------------------------------------------
(* The environment.                                                        *)

LEMMA EnvironmentAnswers ==
    ASSUME Faithful, IInv, SInv, AInv, Expire \/ HourChanges \/ SyncThreatFeed
                       \/ SyncWhitelistFeed \/ UNCHANGED vars
    PROVE  AInv'
<1>1. Exact /\ \A q \in Proc : Passed(q) /\ (job[q].op = "query" /\ job[q].clean => Quiet)
  BY DEF AInv, Passed
<1>2. CASE Expire \/ UNCHANGED vars
  <2>1. UNCHANGED <<mem, want, bloom, feed, window, job>>
    BY <1>2 DEF Expire, vars
  <2>2. \A d \in Domain : memo'[d] \in {memo[d], Absent}
    <3>1. CASE Expire
      <4>1. PICK e \in Domain : memo' = [memo EXCEPT ![e] = Absent]
        BY <3>1 DEF Expire
      <4>2. QED BY <4>1 DEF IInv, Typed, StoresTyped
    <3>2. CASE UNCHANGED vars
      BY <3>2 DEF vars
    <3>3. QED BY <1>2, <3>1, <3>2
  <2>3. (FlushDue => FlushDue') /\ (Flushing => Flushing') /\ (Quiet => Quiet')
    BY <2>1 DEF FlushDue, Flushing, At, Quiet
  <2>4. Exact'
    BY <1>1, <2>1, <2>2, <2>3, ExactStays
  <2>5. ASSUME NEW q \in Proc, job'[q].op = "query" PROVE Passed(q)'
    <3>1. Unmoved(q)
      BY <1>1, <2>1, <2>3, <2>5 DEF Unmoved, Same, Caught
    <3>2. QED BY <1>1, <3>1, PassedStays
  <2>6. QED BY <2>4, <2>5, NoQueryPassed DEF AInv
<1>3. CASE HourChanges
  <2>1. window = {} /\ Windows = {}
    BY DEF Faithful, IInv, Typed, StoresTyped
  <2>2. PICK w \in SUBSET Windows : w # window
    BY <1>3 DEF HourChanges
  <2>3. QED BY <2>1, <2>2
<1>4. CASE SyncThreatFeed
  <2>1. /\ feed' \in (SUBSET Feed) \ {{}} /\ bloom' = feed'
        /\ UNCHANGED <<mem, memo, want, window>>
    BY <1>4 DEF SyncThreatFeed
  <2>2. PICK f : job' = Overlap(f)
    BY <1>4 DEF SyncThreatFeed
  <2>3. \A q \in Proc : Same(q)
    BY <2>2, OverlapSame
  <2>4. ASSUME NEW q \in Proc PROVE job'[q].verdict = job[q].verdict /\ ~job'[q].clean
    <3>1. job[q] \in Job
      BY DEF IInv, Typed
    <3>2. PICK g : g = job[q].fed \cap f
      OBVIOUS
    <3>3. job'[q] = [job[q] EXCEPT !.clean = FALSE, !.fed = g]
      BY <2>2, <3>2 DEF Overlap
    <3>4. QED BY <3>1, <3>3 DEF Job
  <2>5. feed \subseteq feed'
    <3>1. PICK y \in feed' : y \in Feed
      BY <2>1
    <3>2. ASSUME NEW x \in feed PROVE x \in feed'
      <4>1. x \in Feed
        BY DEF IInv, Typed, StoresTyped
      <4>2. x = y
        BY <3>1, <4>1 DEF Faithful
      <4>3. QED BY <4>2
    <3>3. QED BY <3>2
  <2>6. Caught \subseteq Caught'
    BY <2>1, <2>5, CaughtGrows
  <2>7. (FlushDue => FlushDue') /\ (Flushing => Flushing')
    BY <2>3 DEF FlushDue, Flushing, At, Same
  <2>8. \A l \in ListName : Rules(l)' = Rules(l)
    BY <2>1 DEF Rules
  <2>9. Exact'
    BY <1>1, <2>1, <2>6, <2>7, <2>8, RuleFacts DEF Exact
  <2>10. ASSUME NEW q \in Proc PROVE Passed(q)'
    <3>1. Unmoved(q)
      BY <2>1, <2>3, <2>4, <2>6 DEF Unmoved
    <3>2. QED BY <1>1, <3>1, PassedStays
  <2>11. QED BY <2>9, <2>10 DEF AInv
<1>5. CASE SyncWhitelistFeed
  BY <1>5, BloomIsFeed DEF SyncWhitelistFeed
<1>6. QED BY <1>2, <1>3, <1>4, <1>5

LEMMA RestartAnswers ==
    ASSUME Faithful, IInv, SInv, Restart
    PROVE  AInv'
<1>1. /\ bloom' = {} /\ feed' = {} /\ memo' = [d \in Domain |-> Absent]
      /\ job' = [p \in Proc |-> Idle]
      /\ mem' = [l \in ListName |-> [r \in Rule |-> IF r \in disk[l] THEN "manual" ELSE Absent]]
  BY DEF Restart
<1>2. \A l \in ListName : want'[l] = disk[l] /\ Rules(l)' = disk[l] /\ disk[l] \subseteq Rule
  BY RestartLoads DEF Faithful, IInv, Typed, StoresTyped
<1>3. \A r \in want'["block"] : mem'["block"][r] = "manual"
  BY <1>1, <1>2, RuleFacts
<1>4. Exact'
  BY <1>1, <1>2, <1>3, RuleFacts DEF Exact
<1>5. ASSUME NEW q \in Proc PROVE Passed(q)'
  <2>1. job'[q].op = "idle"
    BY <1>1 DEF Idle
  <2>2. QED BY <2>1, NoQueryPassed
<1>6. QED BY <1>4, <1>5 DEF AInv

-----------------------------------------------------------------------------
(* The handlers.                                                           *)

\* A handler is under way: no other query is undisturbed, and none is alone.
LEMMA BesideHandler ==
    ASSUME AInv, NEW p \in Proc, IsHandler(job[p]), NEW q \in Proc \ {p}, Same(q),
           job'[q].verdict = job[q].verdict, job'[q].clean => job[q].clean,
           Caught \subseteq Caught'
    PROVE  Passed(q)'
<1>1. SUFFICES ASSUME job'[q].op = "query" PROVE Passed(q)'
  BY NoQueryPassed
<1>2. Passed(q) /\ job[q].op = "query" /\ ~Alone
  BY <1>1 DEF AInv, Same, Alone
<1>3. ~Quiet
  BY DEF Quiet
<1>4. ~job'[q].clean
  BY <1>2, <1>3 DEF Passed
<1>5. Unmoved(q)
  BY <1>2, <1>4 DEF Unmoved
<1>6. QED BY <1>2, <1>5, PassedStays

\* What every step of a handler leaves as it was.
LEMMA HandlerMoves ==
    ASSUME Faithful, IInv, SInv, NEW p \in Proc, NEW s \in HandlerStep, At(p, s), Advance(p)
    PROVE  /\ IsHandler(job[p]) /\ job'[p].op # "query"
           /\ \A q \in Proc \ {p} : /\ Same(q) /\ job'[q].verdict = job[q].verdict
                                    /\ job'[q].clean = job[q].clean
           /\ s # "flush" => (FlushDue => FlushDue') /\ (Flushing => Flushing')
           /\ Tail(job[p].todo) = <<"flush">> =>
                 FlushDue' /\ (job[p].op = "delete" => Flushing')
<1>1. Orderly /\ Typed
  BY DEF Faithful, IInv
<1>2. /\ \A q \in Proc \ {p} : Same(q)
      /\ job'[p].op = job[p].op /\ job'[p].todo = Tail(job[p].todo) /\ job[p].op # "query"
  BY <1>1, Onward
<1>3. IsHandler(job[p])
  <2>1. job[p].op \in {"add", "delete", "auto_add"}
    BY <1>1, Standing
  <2>2. QED BY <2>1 DEF IsHandler
<1>4. ASSUME NEW q \in Proc \ {p} PROVE job'[q] = job[q]
  BY <1>1, AdvanceFacts DEF At
<1>5. s # "flush" => (FlushDue => FlushDue') /\ (Flushing => Flushing')
  <2>1. s # "flush" => ~At(p, "flush")
    BY DEF At
  <2>2. QED BY <1>4, <2>1 DEF FlushDue, Flushing, At
<1>6. ASSUME Tail(job[p].todo) = <<"flush">>
      PROVE  FlushDue' /\ (job[p].op = "delete" => Flushing')
  <2>1. At(p, "flush")'
    BY <1>2, <1>6, TupleParts DEF At
  <2>2. QED BY <1>2, <2>1 DEF FlushDue, Flushing
<1>7. QED BY <1>2, <1>3, <1>4, <1>5, <1>6

LEMMA AppendAndInsertAnswers ==
    ASSUME Faithful, IInv, SInv, AInv, NEW p \in Proc, AppendAndInsert(p)
    PROVE  AInv'
<1>1. /\ At(p, "append and insert") /\ Advance(p) /\ "append and insert" \in HandlerStep
      /\ Orderly /\ Exact
  BY DEF AppendAndInsert, HandlerStep, Faithful, AInv
<1>2. PICK l \in ListName, rs \in SUBSET Rule : l = job[p].list /\ rs = job[p].rules
  BY <1>1, Onward
<1>3. PICK new \in SUBSET Rule : new = rs \ Rules(l)
  BY <1>2
<1>4. /\ Put(l, new, "manual") /\ want' = [want EXCEPT ![l] = want[l] \cup rs]
      /\ UNCHANGED <<memo, bloom, feed>>
  BY <1>2, <1>3 DEF AppendAndInsert, Ask
<1>5. /\ \A k \in ListName \ {l} : Rules(k)' = Rules(k)
      /\ Rules(l)' = Rules(l) \cup new
  <2>1. "manual" \in Source \cup {Absent} /\ "manual" # Absent /\ Typed
    BY RuleFacts DEF IInv
  <2>2. QED BY <1>4, <2>1, PutFacts
<1>6. /\ \A k \in ListName \ {l} : want'[k] = want[k]
      /\ want'[l] = want[l] \cup rs
  BY <1>4 DEF IInv, Typed, StoresTyped
<1>7. job[p].op = "add" /\ Tail(job[p].todo) = <<"flush">>
  <2>1. "append and insert" \notin {"append removal", "remove", "insert", "append", "flush"}
    OBVIOUS
  <2>2. QED BY <1>1, <2>1, Standing, Zenon
<1>8. Rules(l) \cap rs \subseteq want[l]
  <2>1. l = "block" => rs \subseteq Blockable
    BY <1>2, <1>7 DEF SInv, Handling, Orderlies
  <2>2. QED BY <1>1, <2>1, FoundIsAsked
<1>9. Caught \subseteq Caught'
  <2>1. want["block"] \subseteq want'["block"]
    BY <1>6, RuleFacts
  <2>2. QED BY <1>4, <2>1, CaughtGrows
<1>10. Rules("bypass")' = want'["bypass"] /\ Rules("white")' = want'["white"]
  <2>1. ASSUME NEW k \in {"bypass", "white"} PROVE Rules(k)' = want'[k]
    <3>1. Rules(k) = want[k] /\ k \in ListName
      BY <1>1, RuleFacts DEF Exact
    <3>2. CASE k = l
      BY <1>3, <1>5, <1>6, <1>8, <3>1, <3>2
    <3>3. CASE k # l
      BY <1>5, <1>6, <3>1, <3>3
    <3>4. QED BY <3>2, <3>3
  <2>2. QED BY <2>1
<1>11. \A r \in want'["block"] : mem'["block"][r] = "manual"
  <2>1. \A k \in ListName, r \in Rule :
           mem'[k][r] = IF k = l /\ r \in new THEN "manual" ELSE mem[k][r]
    BY <1>4 DEF Put, IInv, Typed, StoresTyped
  <2>2. \A r \in want["block"] : mem["block"][r] = "manual" /\ r \in Rule
    BY <1>1, RuleFacts DEF Exact, IInv, Typed, StoresTyped
  <2>3. CASE l = "block"
    BY <1>3, <1>6, <1>8, <2>1, <2>2, <2>3, RuleFacts
  <2>4. CASE l # "block"
    BY <1>6, <2>1, <2>2, <2>4, RuleFacts
  <2>5. QED BY <2>3, <2>4
<1>12. Rules("block")' \subseteq want'["block"] \cup Caught'
  <2>1. Rules("block") \subseteq want["block"] \cup Caught
    BY <1>1 DEF Exact
  <2>2. CASE l = "block"
    BY <1>3, <1>5, <1>6, <1>9, <2>1, <2>2
  <2>3. CASE l # "block"
    BY <1>5, <1>6, <1>9, <2>1, <2>3, RuleFacts
  <2>4. QED BY <2>2, <2>3
<1>13. Exact'
  <2>1. FlushDue' /\ (Flushing => Flushing')
    BY <1>1, <1>7, HandlerMoves
  <2>2. Flushing' \/ \A d \in Domain : memo'[d] # Absent => d \in Caught'
    BY <1>1, <1>4, <1>9, <2>1 DEF Exact
  <2>3. bloom' = feed'
    BY <1>1, <1>4 DEF Exact
  <2>4. QED BY <1>10, <1>11, <1>12, <2>1, <2>2, <2>3 DEF Exact
<1>14. ASSUME NEW q \in Proc PROVE Passed(q)'
  <2>1. CASE q = p
    BY <1>1, <2>1, HandlerMoves, NoQueryPassed
  <2>2. CASE q # p
    BY <1>1, <1>9, <2>2, HandlerMoves, BesideHandler
  <2>3. QED BY <2>1, <2>2
<1>15. QED BY <1>13, <1>14 DEF AInv

\* A step of a handler that changes neither a list nor what was asked for.
LEMMA LoggingAnswers ==
    ASSUME Faithful, IInv, SInv, AInv, NEW p \in Proc, NEW s \in HandlerStep, At(p, s),
           Advance(p), s # "flush", UNCHANGED <<mem, memo, want, bloom, feed>>
    PROVE  AInv'
<1>1. Exact'
  <2>1. (FlushDue => FlushDue') /\ (Flushing => Flushing')
    BY HandlerMoves
  <2>2. \A d \in Domain : memo'[d] \in {memo[d], Absent}
    OBVIOUS
  <2>3. QED BY <2>1, <2>2, ExactStays DEF AInv
<1>2. Caught \subseteq Caught'
  BY DEF Caught
<1>3. ASSUME NEW q \in Proc PROVE Passed(q)'
  <2>1. CASE q = p
    BY <2>1, HandlerMoves, NoQueryPassed
  <2>2. CASE q # p
    BY <1>2, <2>2, HandlerMoves, BesideHandler
  <2>3. QED BY <2>1, <2>2
<1>4. QED BY <1>1, <1>3 DEF AInv

LEMMA AppendRemovalAnswers ==
    ASSUME Faithful, IInv, SInv, AInv, NEW p \in Proc, AppendRemoval(p)
    PROVE  AInv'
<1>1. /\ At(p, "append removal") /\ Advance(p) /\ "append removal" \in HandlerStep
      /\ "append removal" # "flush" /\ UNCHANGED <<mem, memo, want, bloom, feed>>
  BY DEF AppendRemoval, HandlerStep
<1>2. QED BY <1>1, LoggingAnswers

LEMMA NoAutoBlock ==
    ASSUME Faithful, IInv, SInv, NEW p \in Proc
    PROVE  ~Insert(p) /\ ~AppendLate(p)
<1>1. ASSUME NEW s \in {"insert", "append"}, At(p, s) PROVE FALSE
  <2>1. s \in HandlerStep /\ Orderly
    BY DEF HandlerStep, Faithful
  <2>2. s \notin {"append and insert", "append removal", "remove", "flush"}
    OBVIOUS
  <2>3. job[p].op = "auto_add" /\ <<job[p].op, job[p].list>> \in Ops
    BY <1>1, <2>1, <2>2, Standing, Zenon
  <2>4. <<"auto_add", job[p].list>> \in Ops
    BY <2>3
  <2>5. job[p].list = "block"
    BY <2>1, <2>4 DEF Orderly
  <2>6. QED BY <2>4, <2>5 DEF Faithful
<1>2. QED BY <1>1 DEF Insert, AppendLate

\* The rule that is deleted takes with it only what it was learned from.
LEMMA RemoveAnswers ==
    ASSUME Faithful, IInv, SInv, AInv, NEW p \in Proc, Remove(p)
    PROVE  AInv'
<1>1. /\ At(p, "remove") /\ Advance(p) /\ "remove" \in HandlerStep
      /\ Orderly /\ Exact
  BY DEF Remove, HandlerStep, Faithful, AInv
<1>2. job[p].op = "delete" /\ Tail(job[p].todo) = <<"flush">>
      /\ <<job[p].op, job[p].list>> \in Ops
  <2>1. "remove" \notin {"append", "append removal", "append and insert", "insert", "flush"}
    OBVIOUS
  <2>2. QED BY <1>1, <2>1, Standing, Zenon
<1>3. PICK l \in ListName, rs \in SUBSET Rule : l = job[p].list /\ rs = job[p].rules
  BY <1>1, Onward
<1>4. /\ Put(l, rs, Absent) /\ want' = [want EXCEPT ![l] = want[l] \ rs]
      /\ UNCHANGED <<memo, bloom, feed>>
  BY <1>3 DEF Remove
<1>5. /\ \A k \in ListName \ {l} : Rules(k)' = Rules(k)
      /\ Rules(l)' = Rules(l) \ rs
  <2>1. Typed
    BY DEF IInv
  <2>2. QED BY <1>4, <2>1, PutFacts
<1>6. /\ \A k \in ListName \ {l} : want'[k] = want[k]
      /\ want'[l] = want[l] \ rs
  BY <1>4 DEF IInv, Typed, StoresTyped
<1>7. \A q \in Proc : q = p
  BY <1>1, <1>2, NoDeletionBeside
<1>8. Rules("bypass")' = want'["bypass"] /\ Rules("white")' = want'["white"]
  <2>1. ASSUME NEW k \in {"bypass", "white"} PROVE Rules(k)' = want'[k]
    <3>1. Rules(k) = want[k] /\ k \in ListName
      BY <1>1, RuleFacts DEF Exact
    <3>2. CASE k = l
      BY <1>5, <1>6, <3>1, <3>2
    <3>3. CASE k # l
      BY <1>5, <1>6, <3>1, <3>3
    <3>4. QED BY <3>2, <3>3
  <2>2. QED BY <2>1
<1>9. \A r \in want'["block"] : mem'["block"][r] = "manual"
  <2>1. \A k \in ListName, r \in Rule :
           mem'[k][r] = IF k = l /\ r \in rs THEN Absent ELSE mem[k][r]
    BY <1>4 DEF Put, IInv, Typed, StoresTyped
  <2>2. \A r \in want["block"] : mem["block"][r] = "manual" /\ r \in Rule
    BY <1>1, RuleFacts DEF Exact, IInv, Typed, StoresTyped
  <2>3. CASE l = "block"
    BY <1>6, <2>1, <2>2, <2>3, RuleFacts
  <2>4. CASE l # "block"
    BY <1>6, <2>1, <2>2, <2>4, RuleFacts
  <2>5. QED BY <2>3, <2>4
<1>10. Rules("block")' \subseteq want'["block"] \cup Caught'
  <2>1. Rules("block") \subseteq want["block"] \cup Caught
    BY <1>1 DEF Exact
  <2>2. CASE l # "block"
    <3>1. want'["block"] = want["block"] /\ Rules("block")' = Rules("block")
      BY <1>5, <1>6, <2>2, RuleFacts
    <3>2. Caught \subseteq Caught'
      BY <1>4, <3>1, CaughtGrows
    <3>3. QED BY <2>1, <3>1, <3>2
  <2>3. CASE l = "block"
    <3>1. Covers = {}
      BY <1>2, <1>3, <2>3 DEF Faithful
    <3>2. ASSUME NEW d \in Rules("block")' PROVE d \in want'["block"] \cup Caught'
      <4>1. d \in Rules("block") \ rs
        BY <1>5, <2>3, <3>2
      <4>2. CASE d \in want["block"]
        BY <1>6, <2>3, <4>1, <4>2
      <4>3. CASE d \in Caught \ want["block"]
        <5>1. d \in Domain /\ Matches(want["block"] \cup feed, d)
          BY <4>3 DEF Caught
        <5>2. d \in feed'
          BY <1>4, <3>1, <4>3, <5>1 DEF Matches, Above
        <5>3. Matches(want'["block"] \cup feed', d)
          BY <5>2 DEF Matches
        <5>4. QED BY <5>1, <5>3 DEF Caught
      <4>4. QED BY <2>1, <4>1, <4>2, <4>3
    <3>3. QED BY <3>2
  <2>4. QED BY <2>2, <2>3
<1>11. Exact'
  <2>1. FlushDue' /\ Flushing'
    BY <1>1, <1>2, HandlerMoves
  <2>2. bloom' = feed'
    BY <1>1, <1>4 DEF Exact
  <2>3. QED BY <1>8, <1>9, <1>10, <2>1, <2>2 DEF Exact
<1>12. ASSUME NEW q \in Proc PROVE Passed(q)'
  <2>1. q = p
    BY <1>7
  <2>2. QED BY <1>1, <2>1, HandlerMoves, NoQueryPassed
<1>13. QED BY <1>11, <1>12 DEF AInv

LEMMA FlushAnswers ==
    ASSUME Faithful, IInv, SInv, AInv, NEW p \in Proc, Flush(p)
    PROVE  AInv'
<1>1. /\ At(p, "flush") /\ Advance(p) /\ "flush" \in HandlerStep
      /\ UNCHANGED <<mem, want, bloom, feed>> /\ memo' = [d \in Domain |-> Absent]
  BY DEF Flush, HandlerStep
<1>2. Caught' = Caught /\ \A l \in ListName : Rules(l)' = Rules(l)
  BY <1>1 DEF Caught, Rules
<1>3. \A d \in Domain : memo'[d] = Absent
  BY <1>1
<1>4. Exact'
  BY <1>1, <1>2, <1>3, RuleFacts DEF AInv, Exact
<1>5. ASSUME NEW q \in Proc PROVE Passed(q)'
  <2>1. CASE q = p
    BY <1>1, <2>1, HandlerMoves, NoQueryPassed
  <2>2. CASE q # p
    BY <1>1, <1>2, <2>2, HandlerMoves, BesideHandler
  <2>3. QED BY <2>1, <2>2
<1>6. QED BY <1>4, <1>5 DEF AInv

\* A call that begins disturbs every query under way.
LEMMA BeginCallAnswers ==
    ASSUME Faithful, IInv, SInv, AInv, NEW p \in Proc, BeginCall(p)
    PROVE  AInv'
<1>1. PICK o \in Ops : \E rs \in Arguments(o[1], o[2]) :
         job' = [q \in Proc |->
                   IF q = p
                   THEN [Idle EXCEPT !.op = o[1], !.list = o[2], !.rules = rs,
                                     !.todo = Script[o]]
                   ELSE [job[q] EXCEPT !.clean = FALSE]]
  BY DEF BeginCall
<1>2. PICK rs \in Arguments(o[1], o[2]) :
         job' = [q \in Proc |->
                   IF q = p
                   THEN [Idle EXCEPT !.op = o[1], !.list = o[2], !.rules = rs,
                                     !.todo = Script[o]]
                   ELSE [job[q] EXCEPT !.clean = FALSE]]
  BY <1>1
<1>3. PICK j : j = [Idle EXCEPT !.op = o[1], !.list = o[2], !.rules = rs, !.todo = Script[o]]
  OBVIOUS
<1>4. job'[p] = j /\ \A q \in Proc \ {p} : job'[q] = [job[q] EXCEPT !.clean = FALSE]
  BY <1>2, <1>3
<1>5. job'[p].op # "query"
  <2>1. o \in AllOps
    BY ConstantsAssumption
  <2>2. o[1] # "query"
    BY <2>1, Operations
  <2>3. j.op = o[1]
    BY <1>3 DEF Idle
  <2>4. QED BY <1>4, <2>2, <2>3
<1>6. ASSUME NEW q \in Proc \ {p}
      PROVE  Same(q) /\ job'[q].verdict = job[q].verdict /\ ~job'[q].clean
  <2>1. job[q] \in Job /\ job'[q] = [job[q] EXCEPT !.clean = FALSE]
    BY <1>4 DEF IInv, Typed
  <2>2. QED BY <2>1 DEF Same, Job
<1>7. UNCHANGED <<mem, memo, want, bloom, feed, window>> /\ \A s : ~At(p, s)
  BY DEF BeginCall, At, Idle
<1>8. Exact'
  <2>1. (FlushDue => FlushDue') /\ (Flushing => Flushing')
    BY <1>6, <1>7 DEF FlushDue, Flushing, At, Same
  <2>2. QED BY <1>7, <2>1, ExactStays DEF AInv
<1>9. ASSUME NEW q \in Proc PROVE Passed(q)'
  <2>1. CASE q = p
    BY <1>5, <2>1, NoQueryPassed
  <2>2. CASE q # p
    <3>1. Unmoved(q)
      BY <1>6, <1>7, <2>2 DEF Unmoved, Caught
    <3>2. QED BY <3>1, PassedStays DEF AInv
  <2>3. QED BY <2>1, <2>2
<1>10. QED BY <1>8, <1>9 DEF AInv

LEMMA ReplyAnswers ==
    ASSUME Faithful, IInv, SInv, AInv, NEW p \in Proc, Reply(p)
    PROVE  AInv'
<1>1. /\ UNCHANGED <<mem, memo, want, bloom, feed, window>>
      /\ job' = [job EXCEPT ![p] = Idle] /\ job[p].todo = <<>>
  BY DEF Reply
<1>2. job'[p] = Idle /\ \A q \in Proc \ {p} : job'[q] = job[q]
  BY <1>1 DEF IInv, Typed
<1>3. job'[p].op = "idle" /\ \A s : ~At(p, s)
  BY <1>1, <1>2 DEF Idle, At
<1>4. Exact'
  <2>1. (FlushDue => FlushDue') /\ (Flushing => Flushing')
    BY <1>2, <1>3 DEF FlushDue, Flushing, At
  <2>2. QED BY <1>1, <2>1, ExactStays DEF AInv
<1>5. Quiet => Quiet'
  BY <1>2, <1>3 DEF Quiet, IsHandler
<1>6. ASSUME NEW q \in Proc, job'[q].op = "query" PROVE Passed(q)'
  <2>1. q # p /\ Passed(q)
    BY <1>3, <1>6 DEF AInv
  <2>2. Unmoved(q)
    BY <1>1, <1>2, <1>5, <1>6, <2>1 DEF Unmoved, Same, Caught, Passed
  <2>3. QED BY <2>1, <2>2, PassedStays
<1>7. QED BY <1>4, <1>6, NoQueryPassed DEF AInv

-----------------------------------------------------------------------------
(* The queries.                                                            *)

\* A step of a query leaves the other threads as they were.
LEMMA QueryMoves ==
    ASSUME AInv, NEW p \in Proc, ~At(p, "flush"), ~IsHandler(job[p]),
           \A q \in Proc \ {p} : job'[q] = job[q], job'[p].op = "query",
           UNCHANGED <<want, feed, window>>
    PROVE  /\ Caught' = Caught /\ (Quiet => Quiet')
           /\ (FlushDue => FlushDue') /\ (Flushing => Flushing')
           /\ \A q \in Proc \ {p} : Passed(q)'
<1>1. Caught' = Caught
  BY DEF Caught
<1>2. Quiet => Quiet'
  BY DEF Quiet, IsHandler
<1>3. (FlushDue => FlushDue') /\ (Flushing => Flushing')
  BY DEF FlushDue, Flushing, At
<1>4. ASSUME NEW q \in Proc \ {p} PROVE Passed(q)'
  <2>1. SUFFICES ASSUME job'[q].op = "query" PROVE Passed(q)'
    BY NoQueryPassed
  <2>2. Passed(q) /\ job'[q] = job[q]
    BY DEF AInv
  <2>3. job'[q].clean => Quiet'
    BY <1>2, <2>1, <2>2 DEF Passed
  <2>4. Unmoved(q)
    BY <1>1, <2>2, <2>3 DEF Unmoved, Same
  <2>5. QED BY <2>2, <2>4, PassedStays
<1>5. QED BY <1>1, <1>2, <1>3, <1>4

\* The query goes on: it knows at the next step what this one found out.
LEMMA PassedOn ==
    ASSUME Faithful, IInv, SInv, AInv, NEW p \in Proc, NEW h \in QueryStep, At(p, h),
           Advance(p), UNCHANGED <<want, feed, window>>,
           \A d \in job[p].rules, s \in QueryStep :
              (job[p].clean \/ Alone) /\ <<h, s>> \in Order => Knows(s, d)
    PROVE  /\ Passed(p)'
           /\ Caught' = Caught /\ (FlushDue => FlushDue') /\ (Flushing => Flushing')
           /\ \A q \in Proc \ {p} : Passed(q)'
<1>1. /\ job[p] \in Job /\ job[p].op = "query" /\ job[p].todo # <<>> /\ ~At(p, "flush")
      /\ Typed /\ Passed(p)
  BY AskingAt DEF IInv, AInv
<1>2. /\ \A q \in Proc \ {p} : job'[q] = job[q]
      /\ job'[p].op = "query" /\ job'[p].rules = job[p].rules
      /\ job'[p].verdict = job[p].verdict
  BY <1>1, AdvanceFacts
<1>3. job'[p].reason = job[p].reason /\ job'[p].clean = job[p].clean
  BY <1>1 DEF Advance, Typed, Job
<1>4. /\ Caught' = Caught /\ (Quiet => Quiet')
      /\ (FlushDue => FlushDue') /\ (Flushing => Flushing')
      /\ \A q \in Proc \ {p} : Passed(q)'
  BY <1>1, <1>2, QueryMoves DEF IsHandler
<1>5. /\ Ordered(job'[p].todo)
      /\ \A s : At(p, s)' => <<h, s>> \in Order
  BY <1>1, OrderedOn DEF Passed
<1>6. ASSUME NEW d \in job'[p].rules, job'[p].clean \/ Alone,
             NEW s \in QueryStep, At(p, s)'
      PROVE  Knows(s, d)'
  <2>1. Knows(s, d)
    BY <1>2, <1>3, <1>5, <1>6
  <2>2. QED BY <2>1 DEF Knows
<1>7. ASSUME NEW d \in job'[p].rules, job'[p].clean, Decided(p)'
      PROVE  job'[p].verdict = Intended(want, d)'
  <2>1. job[p].verdict = Intended(want, d)
    BY <1>1, <1>2, <1>3, <1>7 DEF Passed, Decided
  <2>2. Intended(want, d)' = Intended(want, d)
    BY DEF Intended
  <2>3. QED BY <1>2, <2>1, <2>2
<1>8. job'[p].clean => Quiet'
  BY <1>1, <1>3, <1>4 DEF Passed
<1>9. /\ job'[p].reason # Absent => job'[p].rules \subseteq Caught'
      /\ Alone /\ job'[p].reason # Absent => job'[p].rules \cap want'["white"] = {}
  BY <1>1, <1>2, <1>3, <1>4 DEF Passed
<1>10. Passed(p)'
  BY <1>5, <1>6, <1>7, <1>8, <1>9, Zenon DEF Passed, Alone
<1>11. QED BY <1>4, <1>10

\* After a decision nothing more is looked at.
LEMMA NothingToKnow ==
    \A s \in {"memoise", "learn block", "learn white", "bypass", "bypass fast"} :
       \A d : Knows(s, d)
<1>1. \A s \in {"memoise", "learn block", "learn white", "bypass", "bypass fast"} :
         s \notin PastBypass /\ s \notin PastWhite /\ s \notin PastBlock /\ s # "feed"
  BY DEF PastBypass, PastWhite, PastBlock
<1>2. QED BY <1>1, Zenon DEF Knows

LEMMA AfterSteps ==
    ASSUME NEW t \in AfterAllow \cup AfterBlock, t # <<>>
    PROVE  Head(t) \in {"memoise", "learn block", "learn white"}
<1>1. t \in Seq(QueryStep)
  BY AfterDecision
<1>2. Head(t) = t[1] /\ 1 \in 1..Len(t)
  BY <1>1, FirstOf
<1>3. CASE t \in AfterBlock
  <2>1. t[1] \in {"memoise", "learn block"}
    BY <1>2, <1>3, AfterDecision
  <2>2. QED BY <1>2, <2>1
<1>4. CASE t \in AfterAllow
  <2>1. t[1] = "learn white"
    BY <1>2, <1>4, AfterDecision
  <2>2. QED BY <1>2, <2>1
<1>5. QED BY <1>3, <1>4

LEMMA DecideAnswers ==
    ASSUME Faithful, IInv, SInv, AInv, NEW p \in Proc, NEW h \in QueryStep, At(p, h),
           NEW v \in {"allow", "block"}, NEW r \in Reason \cup {Absent},
           NEW t \in AfterAllow \cup AfterBlock, Decide(p, v, r, t),
           NEW d \in Domain, job[p].rules = {d},
           r # Absent => d \in Caught /\ (Alone => d \notin want["white"]),
           job[p].clean => v = Intended(want, d),
           UNCHANGED <<mem, memo, bloom, want, feed, window>>
    PROVE  AInv'
<1>1. /\ job \in [Proc -> Job] /\ job[p] \in Job /\ job[p].op = "query" /\ ~At(p, "flush")
      /\ Passed(p)
  BY AskingAt DEF IInv, Typed, AInv
<1>2. /\ \A q \in Proc \ {p} : job'[q] = job[q]
      /\ job'[p].op = "query" /\ job'[p].rules = {d} /\ job'[p].clean = job[p].clean
      /\ job'[p].reason = r /\ job'[p].todo = t /\ job'[p].verdict = v
  <2> DEFINE k == [job[p] EXCEPT !.verdict = v, !.reason = r, !.todo = t]
  <2>1. job' = [job EXCEPT ![p] = k]
    BY DEF Decide
  <2>2. /\ k.op = job[p].op /\ k.rules = job[p].rules /\ k.clean = job[p].clean
        /\ k.reason = r /\ k.todo = t /\ k.verdict = v
    BY <1>1 DEF Job
  <2> HIDE DEF k
  <2>3. job'[p] = k /\ \A q \in Proc \ {p} : job'[q] = job[q]
    BY <1>1, <2>1
  <2>4. QED BY <1>1, <2>2, <2>3
<1>3. /\ Caught' = Caught /\ (Quiet => Quiet')
      /\ (FlushDue => FlushDue') /\ (Flushing => Flushing')
      /\ \A q \in Proc \ {p} : Passed(q)'
  BY <1>1, <1>2, QueryMoves DEF IsHandler
<1>4. Exact'
  <2>1. \A e \in Domain : memo'[e] \in {memo[e], Absent}
    OBVIOUS
  <2>2. QED BY <1>3, <2>1, ExactStays DEF AInv
<1>5. Ordered(job'[p].todo)
  BY <1>2, OrderedAfter
<1>6. ASSUME NEW e \in job'[p].rules, NEW s \in QueryStep, At(p, s)' PROVE Knows(s, e)'
  <2>1. s \in {"memoise", "learn block", "learn white"}
    BY <1>2, <1>6, AfterSteps DEF At
  <2>2. Knows(s, e)
    BY <2>1, NothingToKnow
  <2>3. QED BY <2>2 DEF Knows
<1>7. ASSUME NEW e \in job'[p].rules, job'[p].clean
      PROVE  job'[p].verdict = Intended(want, e)'
  <2>1. e = d /\ v = Intended(want, d)
    BY <1>2, <1>7
  <2>2. Intended(want, d)' = Intended(want, d)
    BY DEF Intended
  <2>3. QED BY <1>2, <2>1, <2>2
<1>8. job'[p].clean => Quiet'
  BY <1>1, <1>2, <1>3 DEF Passed
<1>9. /\ job'[p].reason # Absent => job'[p].rules \subseteq Caught'
      /\ Alone /\ job'[p].reason # Absent => job'[p].rules \cap want'["white"] = {}
  BY <1>2, <1>3
<1>10. Passed(p)'
  BY <1>5, <1>6, <1>7, <1>8, <1>9, Zenon DEF Passed, Alone
<1>11. QED BY <1>3, <1>4, <1>10 DEF AInv

LEMMA BeginQueryAnswers ==
    ASSUME Faithful, IInv, SInv, AInv, NEW p \in Proc, BeginQuery(p)
    PROVE  AInv'
<1>1. PICK d \in Domain, proto \in Protos :
         job' = [job EXCEPT ![p] = [Idle EXCEPT !.op = "query", !.rules = {d},
                                                !.todo = QueryScript(proto),
                                                !.clean = Quiet, !.fed = feed]]
  BY DEF BeginQuery
<1>2. PICK j : j = [Idle EXCEPT !.op = "query", !.rules = {d}, !.todo = QueryScript(proto),
                                !.clean = Quiet, !.fed = feed]
  OBVIOUS
<1>3. job' = [job EXCEPT ![p] = j]
  BY <1>1, <1>2
<1>4. job'[p] = j /\ \A q \in Proc \ {p} : job'[q] = job[q]
  BY <1>3 DEF IInv, Typed
<1>5. PICK t : t = QueryScript(proto)
  OBVIOUS
<1>6. /\ j.op = "query" /\ j.todo = t /\ j.reason = Absent /\ j.verdict = Absent
      /\ j.clean = Quiet
  BY <1>2, <1>5 DEF Idle
<1>7. /\ UNCHANGED <<mem, memo, want, bloom, feed, window>>
      /\ \A s : ~At(p, s) /\ ~IsHandler(job[p])
  BY DEF BeginQuery, At, Idle, IsHandler
<1>8. /\ (Quiet => Quiet')
      /\ (FlushDue => FlushDue') /\ (Flushing => Flushing')
      /\ \A q \in Proc \ {p} : Passed(q)'
  BY <1>4, <1>6, <1>7, QueryMoves
<1>9. Exact'
  BY <1>7, <1>8, ExactStays DEF AInv
<1>10. Ordered(t) /\ t # <<>> /\ Head(t) \in {"bypass", "bypass fast"}
  BY <1>5, OrderedQuery
<1>11. ASSUME NEW e, NEW s, At(p, s)' PROVE Knows(s, e)'
  <2>1. s \in {"bypass", "bypass fast"}
    BY <1>4, <1>6, <1>10, <1>11 DEF At
  <2>2. Knows(s, e)
    BY <2>1, NothingToKnow
  <2>3. QED BY <1>7, <2>2 DEF Knows
<1>12. ~Decided(p)'
  BY <1>4, <1>6 DEF Decided
<1>13. job'[p].clean => Quiet'
  BY <1>4, <1>6, <1>8
<1>14. job'[p].reason = Absent
  BY <1>4, <1>6
<1>15. Passed(p)'
  BY <1>4, <1>6, <1>10, <1>11, <1>12, <1>13, <1>14, Zenon DEF Passed
<1>16. QED BY <1>8, <1>9, <1>15 DEF AInv

\* A look that does not match teaches the query what it looked for.
LEMMA LookOnAnswers ==
    ASSUME Faithful, IInv, SInv, AInv, NEW p \in Proc, NEW h \in LookStep, At(p, h),
           Advance(p), UNCHANGED <<mem, memo, bloom, want, feed, window>>,
           NEW d \in Domain, job[p].rules = {d},
           h \in {"bypass", "bypass fast"} => ~Matches(want["bypass"], d),
           h = "white" => d \notin want["white"],
           h = "block" => d \notin want["block"],
           h = "wildcard block" => Above(want["block"], d) = {}
    PROVE  AInv'
<1>1. h \in QueryStep /\ job[p].op = "query" /\ Passed(p)
  <2>1. h \in QueryStep
    BY DEF QueryStep
  <2>2. QED BY <2>1, AskingAt DEF AInv
<1>2. ASSUME NEW s \in QueryStep, job[p].clean \/ Alone, <<h, s>> \in Order PROVE Knows(s, d)
  <2>1. Knows(h, d)
    BY <1>1, <1>2 DEF Passed
  <2>2. /\ s \in PastBypass => h \in PastBypass \cup {"bypass", "bypass fast"}
        /\ s \in PastWhite => h \in PastWhite \cup {"white"}
        /\ s \in PastBlock => h \in PastBlock \cup {"block"}
        /\ s = "feed" => h = "wildcard block"
    BY <1>2, OrderFacts
  <2>3. s \in PastBypass => ~Matches(want["bypass"], d)
    BY <2>1, <2>2 DEF Knows
  <2>4. s \in PastWhite => d \notin want["white"]
    BY <2>1, <2>2 DEF Knows
  <2>5. s \in PastBlock => d \notin want["block"]
    BY <2>1, <2>2 DEF Knows
  <2>6. s = "feed" => Above(want["block"], d) = {}
    BY <2>2
  <2>7. QED BY <2>3, <2>4, <2>5, <2>6 DEF Knows
<1>3. /\ Passed(p)' /\ Caught' = Caught /\ (FlushDue => FlushDue') /\ (Flushing => Flushing')
      /\ \A q \in Proc \ {p} : Passed(q)'
  BY <1>1, <1>2, PassedOn
<1>4. Exact'
  BY <1>3, ExactStays DEF AInv
<1>5. QED BY <1>3, <1>4 DEF AInv

\* On port 53 a bypassed name begins check_domain at once.
LEMMA BypassedFast ==
    ASSUME Faithful, IInv, SInv, AInv, NEW p \in Proc, At(p, "bypass fast"),
           job' = [job EXCEPT ![p].todo = CheckDomain],
           UNCHANGED <<mem, memo, bloom, want, feed, window>>
    PROVE  AInv'
<1>1. /\ job \in [Proc -> Job] /\ job[p] \in Job /\ job[p].op = "query" /\ ~At(p, "flush")
      /\ Passed(p)
  <2>1. "bypass fast" \in QueryStep
    BY DEF QueryStep, LookStep
  <2>2. QED BY <2>1, AskingAt DEF IInv, Typed, AInv
<1>2. /\ \A q \in Proc \ {p} : job'[q] = job[q]
      /\ job'[p].op = "query" /\ job'[p].rules = job[p].rules
      /\ job'[p].clean = job[p].clean /\ job'[p].reason = job[p].reason
      /\ job'[p].todo = CheckDomain /\ job'[p].verdict = job[p].verdict
  <2>1. PICK k : k = [job[p] EXCEPT !.todo = CheckDomain]
    OBVIOUS
  <2>2. job' = [job EXCEPT ![p] = k]
    BY <2>1
  <2>3. job'[p] = k /\ \A q \in Proc \ {p} : job'[q] = job[q]
    BY <1>1, <2>2
  <2>4. /\ k.op = job[p].op /\ k.rules = job[p].rules /\ k.clean = job[p].clean
        /\ k.reason = job[p].reason /\ k.todo = CheckDomain /\ k.verdict = job[p].verdict
    BY <1>1, <2>1 DEF Job
  <2>5. QED BY <1>1, <2>3, <2>4
<1>3. /\ Caught' = Caught /\ (Quiet => Quiet')
      /\ (FlushDue => FlushDue') /\ (Flushing => Flushing')
      /\ \A q \in Proc \ {p} : Passed(q)'
  BY <1>1, <1>2, QueryMoves DEF IsHandler
<1>4. Exact'
  BY <1>3, ExactStays DEF AInv
<1>5. ASSUME NEW e, NEW s, At(p, s)' PROVE Knows(s, e)'
  <2>1. s = "bypass"
    BY <1>2, <1>5, OrderedCheck DEF At
  <2>2. Knows(s, e)
    BY <2>1, NothingToKnow
  <2>3. QED BY <2>2 DEF Knows
<1>6. ASSUME NEW d \in job'[p].rules, job'[p].clean, Decided(p)'
      PROVE  job'[p].verdict = Intended(want, d)'
  <2>1. job[p].verdict = Intended(want, d)
    BY <1>1, <1>2, <1>6 DEF Passed, Decided
  <2>2. Intended(want, d)' = Intended(want, d)
    BY DEF Intended
  <2>3. QED BY <1>2, <2>1, <2>2
<1>7. job'[p].clean => Quiet'
  BY <1>1, <1>2, <1>3 DEF Passed
<1>8. /\ job'[p].reason # Absent => job'[p].rules \subseteq Caught'
      /\ Alone /\ job'[p].reason # Absent => job'[p].rules \cap want'["white"] = {}
  BY <1>1, <1>2, <1>3 DEF Passed
<1>9. Ordered(job'[p].todo)
  BY <1>2, OrderedCheck
<1>10. Passed(p)'
  BY <1>5, <1>6, <1>7, <1>8, <1>9, Zenon DEF Passed, Alone
<1>11. QED BY <1>3, <1>4, <1>10 DEF AInv

LEMMA LookAnswers ==
    ASSUME Faithful, IInv, SInv, AInv, NEW p \in Proc, Look(p)
    PROVE  AInv'
<1>1. UNCHANGED <<mem, memo, bloom, want, feed, window>>
  BY DEF Look
<1>2. PICK d \in job[p].rules :
         \/ LookBypass(p, d) \/ LookBypassFast(p, d) \/ LookWhite(p, d)
         \/ LookMemo(p, d) \/ LookSchedule(p, d) \/ LookBlock(p, d)
         \/ LookWildcardWhite(p, d) \/ LookWildcardBlock(p, d) \/ LookFeed(p, d)
  BY DEF Look
<1>3. PICK s \in LookStep : At(p, s)
  BY <1>2 DEF LookBypass, LookBypassFast, LookWhite, LookMemo, LookSchedule, LookBlock,
              LookWildcardWhite, LookWildcardBlock, LookFeed, LookStep
<1>4. s \in QueryStep /\ job[p].op = "query" /\ d \in Domain /\ job[p].rules = {d}
      /\ Passed(p) /\ Exact
  BY <1>3, LookFacts DEF QueryStep, AInv
<1>5. job[p].clean \/ Alone => Knows(s, d)
  BY <1>3, <1>4 DEF Passed
<1>6. \A h : At(p, h) => h = s
  BY <1>3 DEF At
<1>7. /\ Rules("bypass") = want["bypass"] /\ Rules("white") = want["white"]
      /\ bloom = feed /\ whiteExact = {}
      /\ want["block"] \subseteq Rules("block") /\ want["block"] \subseteq Rule
      /\ Rules("block") \subseteq want["block"] \cup Caught
  <2>1. want["block"] \subseteq Rule
    BY RuleFacts DEF IInv, Typed, StoresTyped
  <2>2. "manual" # Absent
    BY RuleFacts
  <2>3. want["block"] \subseteq Rules("block")
    BY <1>4, <2>1, <2>2 DEF Exact, Rules
  <2>4. QED BY <1>4, <2>1, <2>3, BloomIsFeed DEF Exact
<1>8. ASSUME Advance(p),
             s \in {"bypass", "bypass fast"} => ~Matches(want["bypass"], d),
             s = "white" => d \notin want["white"],
             s = "block" => d \notin want["block"],
             s = "wildcard block" => Above(want["block"], d) = {}
      PROVE  AInv'
  BY <1>1, <1>3, <1>4, <1>8, LookOnAnswers
<1>9. ASSUME NEW r \in Reason, NEW t \in AfterBlock, Decide(p, "block", r, t),
             d \in Caught, job[p].clean \/ Alone => d \notin want["white"],
             job[p].clean => ~Matches(want["bypass"], d)
      PROVE  AInv'
  <2>1. job[p].clean => Intended(want, d) = "block"
    BY <1>4, <1>9, HierarchyIs
  <2>2. QED BY <1>1, <1>3, <1>4, <1>9, <2>1, DecideAnswers
<1>10. ASSUME NEW t \in AfterAllow, Decide(p, "allow", Absent, t),
              job[p].clean => Intended(want, d) = "allow"
       PROVE  AInv'
  BY <1>1, <1>3, <1>4, <1>10, DecideAnswers
<1>11. /\ Learn \in AfterBlock /\ MemoAndLearn \in AfterBlock
       /\ <<>> \in AfterAllow /\ <<"learn white">> \in AfterAllow
  BY Afterwards
<1>12. CASE LookBypass(p, d)
  <2>1. s = "bypass"
    BY <1>6, <1>12 DEF LookBypass
  <2>2. CASE Matches(want["bypass"], d)
    <3>1. Intended(want, d) = "allow"
      BY <1>4, <2>2, HierarchyIs
    <3>2. Decide(p, "allow", Absent, <<>>)
      BY <1>7, <1>12, <2>2 DEF LookBypass
    <3>3. QED BY <1>10, <1>11, <3>1, <3>2
  <2>3. CASE ~Matches(want["bypass"], d)
    <3>1. Advance(p)
      BY <1>7, <1>12, <2>3 DEF LookBypass
    <3>2. QED BY <1>8, <2>1, <2>3, <3>1
  <2>4. QED BY <2>2, <2>3
<1>13. CASE LookBypassFast(p, d)
  <2>1. s = "bypass fast" /\ At(p, "bypass fast")
    BY <1>6, <1>13 DEF LookBypassFast
  <2>2. CASE Matches(want["bypass"], d)
    <3>1. job' = [job EXCEPT ![p].todo = CheckDomain]
      BY <1>7, <1>13, <2>2 DEF LookBypassFast
    <3>2. QED BY <1>1, <2>1, <3>1, BypassedFast
  <2>3. CASE ~Matches(want["bypass"], d)
    <3>1. Advance(p)
      BY <1>7, <1>13, <2>3 DEF LookBypassFast
    <3>2. QED BY <1>8, <2>1, <2>3, <3>1
  <2>4. QED BY <2>2, <2>3
<1>14. CASE LookWhite(p, d)
  <2>1. s = "white"
    BY <1>6, <1>14 DEF LookWhite
  <2>2. CASE d \in want["white"]
    <3>1. Intended(want, d) = "allow"
      BY <1>4, <2>2, HierarchyIs
    <3>2. Decide(p, "allow", Absent, <<"learn white">>)
      BY <1>7, <1>14, <2>2 DEF LookWhite
    <3>3. QED BY <1>10, <1>11, <3>1, <3>2
  <2>3. CASE d \notin want["white"]
    <3>1. Advance(p)
      BY <1>7, <1>14, <2>3 DEF LookWhite
    <3>2. QED BY <1>8, <2>1, <2>3, <3>1
  <2>4. QED BY <2>2, <2>3
<1>15. CASE LookMemo(p, d)
  <2>1. s \in {"memo", "memo fast"}
    BY <1>6, <1>15 DEF LookMemo
  <2>2. CASE memo[d] # Absent
    <3>1. d \in Caught /\ (Alone => d \notin want["white"])
      BY <1>4, <2>2, MemoIsExact
    <3>2. s = "memo fast" => Alone
      <4>1. SUFFICES ASSUME s = "memo fast" PROVE "plain" \in Protos
        BY DEF Faithful
      <4>2. job[p].todo \in Seq(QueryStep \cup HandlerStep) /\ job[p].todo # <<>>
        BY <1>3 DEF IInv, Typed, Job, At
      <4>3. 1 \in 1..Len(job[p].todo) /\ job[p].todo[1] = "memo fast"
        BY <1>3, <4>1, <4>2, FirstOf DEF At
      <4>4. "memo fast" \in Fast
        BY DEF Fast
      <4>5. QED BY <1>4, <4>3, <4>4 DEF Passed, Ordered
    <3>3. job[p].clean \/ Alone => ~Matches(want["bypass"], d)
      <4>1. s \in PastBypass
        BY <2>1 DEF PastBypass, PastWhite
      <4>2. QED BY <1>5, <4>1 DEF Knows
    <3>4. s = "memo" /\ job[p].clean => d \notin want["white"]
      <4>1. s = "memo" => s \in PastWhite
        BY DEF PastWhite
      <4>2. QED BY <1>5, <4>1 DEF Knows
    <3>5. memo[d] \in Reason
      BY <1>4, <2>2 DEF IInv, Typed, StoresTyped
    <3>6. Decide(p, "block", memo[d], Learn)
      BY <1>15, <2>2 DEF LookMemo
    <3>7. job[p].clean \/ Alone => d \notin want["white"]
      BY <2>1, <3>1, <3>2, <3>4
    <3>8. QED BY <1>9, <1>11, <3>1, <3>3, <3>5, <3>6, <3>7
  <2>3. CASE memo[d] = Absent
    <3>1. Advance(p)
      BY <1>15, <2>3 DEF LookMemo
    <3>2. s \notin {"bypass", "bypass fast", "white", "block", "wildcard block"}
      BY <2>1
    <3>3. QED BY <1>8, <3>1, <3>2
  <2>4. QED BY <2>2, <2>3
<1>16. CASE LookSchedule(p, d)
  <2>1. s = "schedule"
    BY <1>6, <1>16 DEF LookSchedule
  <2>2. window = {}
    BY DEF Faithful, IInv, Typed, StoresTyped
  <2>3. Advance(p)
    BY <1>16, <2>2 DEF LookSchedule
  <2>4. QED BY <1>8, <2>1, <2>3
<1>17. CASE LookBlock(p, d)
  <2>1. s = "block"
    BY <1>6, <1>17 DEF LookBlock
  <2>2. job[p].clean \/ Alone => ~Matches(want["bypass"], d) /\ d \notin want["white"]
    <3>1. s \in PastBypass /\ s \in PastWhite
      BY <2>1 DEF PastBypass, PastWhite
    <3>2. QED BY <1>5, <3>1 DEF Knows
  <2>3. CASE d \in Rules("block")
    <3>1. d \in Caught
      BY <1>4, <1>7, <2>3 DEF Caught, Matches
    <3>2. Decide(p, "block", ReasonTag(mem["block"][d]), MemoAndLearn)
      BY <1>17, <2>3 DEF LookBlock
    <3>3. QED BY <1>9, <1>11, <2>2, <3>1, <3>2, ReasonTags
  <2>4. CASE d \in bloom \ Rules("block")
    <3>1. d \in Caught
      BY <1>4, <1>7, <2>4 DEF Caught, Matches
    <3>2. Decide(p, "block", "threat_feed_abir", MemoAndLearn) /\ "threat_feed_abir" \in Reason
      BY <1>17, <2>4 DEF LookBlock, Reason
    <3>3. QED BY <1>9, <1>11, <2>2, <3>1, <3>2
  <2>5. CASE d \notin bloom \cup Rules("block")
    <3>1. Advance(p)
      BY <1>17, <2>5 DEF LookBlock
    <3>2. d \notin want["block"]
      BY <1>7, <2>5
    <3>3. QED BY <1>8, <2>1, <3>1, <3>2
  <2>6. QED BY <2>3, <2>4, <2>5
<1>18. CASE LookWildcardWhite(p, d)
  <2>1. s = "wildcard white"
    BY <1>6, <1>18 DEF LookWildcardWhite
  <2>2. Above(Rules("white"), d) = {}
    BY <1>7 DEF SInv, Held, Above
  <2>3. Advance(p)
    BY <1>18, <2>2 DEF LookWildcardWhite
  <2>4. QED BY <1>8, <2>1, <2>3
<1>19. CASE LookWildcardBlock(p, d)
  <2>1. s = "wildcard block"
    BY <1>6, <1>19 DEF LookWildcardBlock
  <2>2. job[p].clean \/ Alone => ~Matches(want["bypass"], d) /\ d \notin want["white"]
    <3>1. s \in PastBypass /\ s \in PastWhite
      BY <2>1 DEF PastBypass, PastWhite, PastBlock
    <3>2. QED BY <1>5, <3>1 DEF Knows
  <2>3. CASE Above(Rules("block"), d) # {}
    <3>1. PICK r \in Above(Rules("block"), d) :
             Decide(p, "block", ReasonTag(mem["block"][r]), MemoAndLearn)
      BY <1>19, <2>3 DEF LookWildcardBlock
    <3>2. <<r, d>> \in Covers /\ r \in want["block"] \cup Caught
      BY <1>7 DEF Above
    <3>3. d \in Caught
      BY <1>4, <3>2, CaughtReachesDown
    <3>4. QED BY <1>9, <1>11, <2>2, <3>1, <3>3, ReasonTags
  <2>4. CASE Above(Rules("block"), d) = {}
    <3>1. Advance(p)
      BY <1>19, <2>4 DEF LookWildcardBlock
    <3>2. Above(want["block"], d) = {}
      BY <1>7, <2>4 DEF Above
    <3>3. QED BY <1>8, <2>1, <3>1, <3>2
  <2>5. QED BY <2>3, <2>4
<1>20. CASE LookFeed(p, d)
  <2>1. s = "feed"
    BY <1>6, <1>20 DEF LookFeed
  <2>2. job[p].clean \/ Alone =>
           /\ ~Matches(want["bypass"], d) /\ d \notin want["white"]
           /\ d \notin want["block"] /\ Above(want["block"], d) = {}
    <3>1. s \in PastBypass /\ s \in PastWhite /\ s \in PastBlock
      BY <2>1 DEF PastBypass, PastWhite, PastBlock
    <3>2. QED BY <1>5, <2>1, <3>1 DEF Knows
  <2>3. CASE Matches(bloom, d)
    <3>1. d \in Caught
      BY <1>4, <1>7, <2>3 DEF Caught, Matches, Above
    <3>2. Decide(p, "block", "threat_feed_abir", MemoAndLearn) /\ "threat_feed_abir" \in Reason
      BY <1>20, <2>3 DEF LookFeed, Reason
    <3>3. QED BY <1>9, <1>11, <2>2, <3>1, <3>2
  <2>4. CASE ~Matches(bloom, d)
    <3>1. Decide(p, "allow", Absent, <<>>)
      BY <1>20, <2>4 DEF LookFeed
    <3>2. ASSUME job[p].clean PROVE d \notin Caught
      BY <1>7, <2>2, <2>4, <3>2 DEF Caught, Matches, Above
    <3>3. job[p].clean => Intended(want, d) = "allow"
      BY <1>4, <3>2, HierarchyIs
    <3>4. QED BY <1>10, <1>11, <3>1, <3>3
  <2>5. QED BY <2>3, <2>4
<1>21. QED BY <1>2, <1>12, <1>13, <1>14, <1>15, <1>16, <1>17, <1>18, <1>19, <1>20

\* What is memoised or learned is caught, and rules are never evicted.
LEMMA LearningAnswers ==
    ASSUME Faithful, IInv, SInv, AInv, NEW p \in Proc,
           NEW h \in {"memoise", "learn block", "learn white"}, At(p, h), Advance(p),
           UNCHANGED <<bloom, want, feed, window>>,
           Rules("white")' = Rules("white"), Rules("bypass")' = Rules("bypass"),
           Rules("block")' \subseteq Rules("block") \cup Caught,
           \A r \in want["block"] : mem'["block"][r] = mem["block"][r],
           \A d \in Domain : memo'[d] # Absent =>
              \/ memo[d] # Absent
              \/ d \in Caught /\ (Alone => d \notin want["white"])
    PROVE  AInv'
<1>1. h \in QueryStep
  BY DEF QueryStep
<1>2. ASSUME NEW s, <<h, s>> \in Order PROVE s = "learn block"
  BY <1>2 DEF Order
<1>3. \A d, s : <<h, s>> \in Order => Knows(s, d)
  BY <1>2, NothingToKnow
<1>4. /\ Passed(p)' /\ Caught' = Caught /\ (FlushDue => FlushDue') /\ (Flushing => Flushing')
      /\ \A q \in Proc \ {p} : Passed(q)'
  BY <1>1, <1>3, PassedOn
<1>5. Exact
  BY DEF AInv
<1>6. Flushing' \/ \A d \in Domain : memo'[d] # Absent => d \in Caught'
  BY <1>4, <1>5 DEF Exact
<1>7. Alone => FlushDue' \/ \A d \in Domain : memo'[d] # Absent => d \notin want'["white"]
  BY <1>4, <1>5 DEF Exact
<1>8. Exact'
  BY <1>4, <1>5, <1>6, <1>7 DEF Exact
<1>9. QED BY <1>4, <1>8 DEF AInv

LEMMA MemoiseAnswers ==
    ASSUME Faithful, IInv, SInv, AInv, NEW p \in Proc, Memoise(p)
    PROVE  AInv'
<1>1. /\ At(p, "memoise") /\ Advance(p) /\ UNCHANGED <<mem, bloom, want, feed, window>>
      /\ "memoise" \in QueryStep
  BY DEF Memoise, QueryStep
<1>2. PICK d \in job[p].rules : memo' = [memo EXCEPT ![d] = job[p].reason]
  BY DEF Memoise
<1>3. job[p].op = "query" /\ job[p].reason # Absent /\ Passed(p)
  BY <1>1, AskingAt, AtFacts, RuleFacts DEF IInv, AInv
<1>4. d \in Caught /\ (Alone => d \notin want["white"])
  BY <1>3 DEF Passed
<1>5. \A e \in Domain : memo'[e] # Absent =>
         memo[e] # Absent \/ (e \in Caught /\ (Alone => e \notin want["white"]))
  BY <1>2, <1>4 DEF IInv, Typed, StoresTyped
<1>6. \A l \in ListName : Rules(l)' = Rules(l)
  BY <1>1 DEF Rules
<1>7. QED BY <1>1, <1>5, <1>6, RuleFacts, LearningAnswers

LEMMA LearnWhiteAnswers ==
    ASSUME Faithful, IInv, SInv, AInv, NEW p \in Proc, LearnWhite(p)
    PROVE  AInv'
<1>1. /\ At(p, "learn white") /\ Advance(p) /\ UNCHANGED <<memo, bloom, want, feed, window>>
  BY DEF LearnWhite
<1>2. job[p].rules \subseteq Rules("white")
  BY <1>1 DEF SInv, Asking
<1>3. UNCHANGED mem
  BY <1>2 DEF LearnWhite
<1>4. \A l \in ListName : Rules(l)' = Rules(l)
  BY <1>3 DEF Rules
<1>5. QED BY <1>1, <1>3, <1>4, RuleFacts, LearningAnswers

LEMMA LearnBlockAnswers ==
    ASSUME Faithful, IInv, SInv, AInv, NEW p \in Proc, LearnBlock(p)
    PROVE  AInv'
<1>1. /\ At(p, "learn block") /\ Advance(p) /\ UNCHANGED <<memo, bloom, want, feed, window>>
      /\ "learn block" \in QueryStep
  BY DEF LearnBlock, QueryStep
<1>2. /\ job[p].op = "query" /\ job[p].reason # Absent /\ Passed(p) /\ Exact
      /\ \E d \in Domain : job[p].rules = {d}
  BY <1>1, AskingAt, AtFacts, RuleFacts DEF IInv, AInv
<1>3. PICK source : source = DetectedSource(job[p].reason)
  OBVIOUS
<1>4. PICK d \in job[p].rules :
         \/ UNCHANGED mem
         \/ /\ d \notin Rules("block")
            /\ \/ Put("block", {d}, source)
               \/ \E r \in Rule : /\ mem["block"][r] # "manual"
                                  /\ mem' = [mem EXCEPT !["block"][r] = Absent,
                                                        !["block"][d] = source]
  BY <1>3 DEF LearnBlock, Oldest, Rules
<1>5. d \in Caught /\ d \in Rule
  BY <1>2, RuleFacts DEF Passed
<1>6. mem \in [ListName -> [Rule -> Source \cup {Absent}]] /\ want["block"] \subseteq Rule
  BY RuleFacts DEF IInv, Typed, StoresTyped
<1>7. \A r \in want["block"] : mem["block"][r] = "manual" /\ mem["block"][r] # Absent
  BY <1>2, RuleFacts DEF Exact
<1>8. d \notin Rules("block") => d \notin want["block"]
  BY <1>5, <1>7 DEF Rules
<1>9. /\ \A k \in ListName \ {"block"} : mem'[k] = mem[k]
      /\ \A s \in Rule \ {d} : mem'["block"][s] \in {mem["block"][s], Absent}
      /\ \A s \in want["block"] : mem'["block"][s] = mem["block"][s]
  <2>1. CASE UNCHANGED mem
    BY <2>1
  <2>2. CASE Put("block", {d}, source) /\ d \notin want["block"]
    BY <1>6, <2>2, RuleFacts DEF Put
  <2>3. ASSUME NEW r \in Rule, mem["block"][r] # "manual", d \notin want["block"],
               mem' = [mem EXCEPT !["block"][r] = Absent, !["block"][d] = source]
        PROVE  /\ \A k \in ListName \ {"block"} : mem'[k] = mem[k]
               /\ \A s \in Rule \ {d} : mem'["block"][s] \in {mem["block"][s], Absent}
               /\ \A s \in want["block"] : mem'["block"][s] = mem["block"][s]
    <3>1. r \notin want["block"]
      BY <1>7, <2>3
    <3>2. \A s \in Rule : mem'["block"][s] = IF s = d THEN source
                                             ELSE IF s = r THEN Absent ELSE mem["block"][s]
      BY <1>5, <1>6, <2>3, RuleFacts
    <3>3. \A k \in ListName \ {"block"} : mem'[k] = mem[k]
      BY <1>6, <2>3
    <3>4. QED BY <1>6, <2>3, <3>1, <3>2, <3>3
  <2>4. QED BY <1>4, <1>8, <2>1, <2>2, <2>3
<1>10. Rules("white")' = Rules("white") /\ Rules("bypass")' = Rules("bypass")
  <2>1. mem'["white"] = mem["white"] /\ mem'["bypass"] = mem["bypass"]
    BY <1>9 DEF ListName
  <2>2. QED BY <2>1 DEF Rules
<1>11. Rules("block")' \subseteq Rules("block") \cup Caught
  BY <1>5, <1>9 DEF Rules
<1>12. QED BY <1>1, <1>9, <1>10, <1>11, LearningAnswers

-----------------------------------------------------------------------------
(* The invariant, and the theorem.                                         *)

LEMMA InitAInv == Init => AInv
<1> SUFFICES ASSUME Init PROVE AInv
  OBVIOUS
<1>1. /\ \A l \in ListName : Rules(l) = {} /\ want[l] = {}
      /\ bloom = {} /\ feed = {} /\ memo = [d \in Domain |-> Absent]
      /\ \A q \in Proc : job[q] = Idle
  BY DEF Init, Rules
<1>2. Exact
  BY <1>1, RuleFacts DEF Exact
<1>3. ASSUME NEW q \in Proc PROVE Passed(q)
  <2>1. job[q].op = "idle"
    BY <1>1 DEF Idle
  <2>2. QED BY <2>1 DEF Passed
<1>4. QED BY <1>2, <1>3 DEF AInv

LEMMA StepAInv == Faithful /\ IInv /\ SInv /\ AInv /\ [Next]_vars => AInv'
<1> SUFFICES ASSUME Faithful, IInv, SInv, AInv, [Next]_vars PROVE AInv'
  OBVIOUS
<1>1. Orderly
  BY DEF Faithful
<1>2. ASSUME NEW p \in Proc, Handler(p) PROVE AInv'
  BY <1>1, <1>2, BeginCallAnswers, AppendAndInsertAnswers, NoAutoBlock, AppendRemovalAnswers,
     RemoveAnswers, FlushAnswers, ReplyAnswers, NotOrderly
     DEF Handler
<1>3. ASSUME NEW p \in Proc, Resolver(p) PROVE AInv'
  BY <1>3, BeginQueryAnswers, LookAnswers, MemoiseAnswers, LearnWhiteAnswers,
     LearnBlockAnswers DEF Resolver
<1>4. ASSUME Expire \/ HourChanges \/ SyncThreatFeed \/ SyncWhitelistFeed \/ UNCHANGED vars
      PROVE  AInv'
  BY <1>4, EnvironmentAnswers
<1>5. Restart => AInv'
  BY RestartAnswers
<1>6. QED BY <1>2, <1>3, <1>4, <1>5 DEF Next

\* A query that no call overlaps is answered by the rules asked for, whatever
\* was learned, memoised, flushed, raced, replayed or brought by a sync
\* before: check_domain against the handlers of rules.rs, where the calls
\* are those that flush the memo and log what they do.  Without any one of
\* the hypotheses some history leaves behind a rule or a memo that misleads.
THEOREM AnswersFollowRules == Faithful => (Spec => []AnswersMatchRules)
<1>1. SUFFICES ASSUME Faithful PROVE Spec => []AnswersMatchRules
  OBVIOUS
<1>2. AInv => AnswersMatchRules
  BY DEF AInv, Passed, AnswersMatchRules, Decided
<1>3. IInv /\ SInv /\ AInv /\ [Next]_vars => AInv'
  BY <1>1, StepAInv
<1>4. Spec => []SInv
  BY <1>1, SInvariance DEF Faithful
<1>5. QED BY <1>2, <1>3, <1>4, InitAInv, Invariance, PTL DEF Spec
=============================================================================
