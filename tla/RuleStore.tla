----------------------------- MODULE RuleStore -----------------------------
(***************************************************************************)
(* The rule lists and the filter that reads them: the handlers of          *)
(* src/server/api/rules.rs, nuclear-wipe of system.rs, the block, unblock, *)
(* whitelist and unwhitelist commands of console.rs, and check_domain,     *)
(* record_detected_block and record_detected_whitelist of state.rs.        *)
(*                                                                         *)
(* Handlers and queries run on a thread pool.  Every list has a lock of    *)
(* its own and the log has another, and a handler takes them one after the *)
(* other, so a call is a script of atomic steps and calls interleave       *)
(* between steps.  A query looks at one list at a time, and what it        *)
(* decides it writes back afterwards: into the 60 s memo (fast_neg_filter) *)
(* and into the very lists the administrators edit.                        *)
(*                                                                         *)
(* The log is the set of rules a replay yields; that appends survive a     *)
(* crash is module Wal's subject.  The feeds' own wildcard whitelist, the  *)
(* instant shield, the heuristics and the answer caches are not modelled   *)
(* here.                                                                   *)
(***************************************************************************)
EXTENDS Naturals, Sequences, FiniteSets

CONSTANTS
    Domain,      \* names that are queried; also exact rules
    Pattern,     \* other rules: "*.x" or a parent name
    Covers,      \* <<rule, name>>: the rule matches the name, not exactly
    Feed,        \* rules the threat feed may hold
    Proc,        \* the thread pool
    Ops,         \* <<op, list>> pairs the administrators use
    Blockable,   \* rules the administrators may put on the blocklist
    Protos,      \* protocols the queries arrive by
    Windows,     \* names some schedule rule blocks at certain hours
    SoftCap,     \* blocklist size from which detections evict (2000)
    HardCap,     \* size from which they are dropped when nothing is evictable (2500)
    LearnCap     \* whitelist size from which nothing is learned (500)

Rule == Domain \cup Pattern
ListName == {"block", "white", "bypass"}
Source == {"manual", "CONSOLE", "ai", "feed", "system"}
Reason == {"custom_block", "threat_feed_abir", "schedule_block"}
Absent == "none"

AllOps == ({"add", "delete", "clear"} \X ListName)
            \cup ({"auto_add", "auto_delete", "wipe"} \X {"block"})
            \cup ({"console_add", "console_delete"} \X {"block", "white"})

ASSUME ConstantsAssumption ==
    /\ IsFiniteSet(Domain) /\ IsFiniteSet(Pattern) /\ Domain \cap Pattern = {}
    /\ Covers \subseteq (Rule \X Domain)
    /\ \A d \in Domain : <<d, d>> \notin Covers
    /\ \A r \in Rule, s, d \in Domain :
          <<r, s>> \in Covers /\ <<s, d>> \in Covers => <<r, d>> \in Covers
    /\ Feed \subseteq Rule /\ Windows \subseteq Domain
    /\ Ops \subseteq AllOps /\ Blockable \subseteq Rule
    /\ Protos \subseteq {"doh", "plain"}
    /\ SoftCap \in Nat /\ HardCap \in Nat /\ LearnCap \in Nat

VARIABLES
    mem,         \* the three lists: rule -> source of its entry, or Absent
    whiteExact,  \* whitelist_exact, the feed's exact names
    bloom,       \* threat_bloom: the rules in the bloom filter
    feed,        \* history: what the last sync of the threat feed brought
    memo,        \* fast_neg_filter: name -> reason, or Absent
    disk,        \* per list, the rules a replay of the log yields
    window,      \* the names whose schedule rule is active at this hour
    job,         \* what each thread is doing
    want,        \* history: per list, what the administrators asked for
    ever         \* history: per list, every rule they ever added

vars == <<mem, whiteExact, bloom, feed, memo, disk, window, job, want, ever>>

-----------------------------------------------------------------------------
(***************************************************************************)
(* Calls.  "todo" is what is left of the script; a call whose script is    *)
(* empty has only its reply to send.  "clean" and "fed" are history: no    *)
(* handler, hour or sync overlapped the query so far; what the threat feed *)
(* held all along.                                                         *)
(***************************************************************************)
Idle == [op |-> "idle", list |-> "block", rules |-> {}, todo |-> <<>>,
         verdict |-> Absent, reason |-> Absent, clean |-> FALSE, fed |-> {}]

Query == [op : {"query"}, list : {"block"}, rules : {{d} : d \in Domain}]

\* The handlers of the API, of the console, and of nuclear-wipe.
AddScript == <<"append and insert", "flush">>
DeleteScript == <<"append removal", "remove", "flush">>
ClearScript == <<"empty", "flush">>
ClearBlocklistScript == <<"empty", "clear log", "flush">>
AutoAddScript == <<"insert", "append">>
AutoDeleteScript == <<"remove", "append removal">>
ConsoleBlockScript == <<"insert", "insert bloom">>
ConsoleUnblockScript == <<"remove">>
ConsoleWhitelistScript == <<"insert", "insert exact">>
ConsoleUnwhitelistScript == <<"remove", "remove exact">>
WipeScript == <<"empty", "empty whitelist", "clear log">>

Script ==
    [o \in AllOps |->
        CASE o[1] = "add"            -> AddScript
          [] o[1] = "delete"         -> DeleteScript
          [] o    = <<"clear", "block">> -> ClearBlocklistScript
          [] o[1] = "clear" /\ o[2] # "block" -> ClearScript
          [] o[1] = "auto_add"       -> AutoAddScript
          [] o[1] = "auto_delete"    -> AutoDeleteScript
          [] o    = <<"console_add", "block">>    -> ConsoleBlockScript
          [] o    = <<"console_delete", "block">> -> ConsoleUnblockScript
          [] o    = <<"console_add", "white">>    -> ConsoleWhitelistScript
          [] o    = <<"console_delete", "white">> -> ConsoleUnwhitelistScript
          [] o[1] = "wipe"           -> WipeScript]

\* Mutant: the memo is asked before the exact whitelist.
CheckDomain_MemoFirst == <<"bypass", "memo", "white", "schedule", "block",
                           "wildcard white", "wildcard block", "feed">>

\* check_domain; the plain-UDP listener asks the bypasslist and the memo first.
CheckDomain == <<"bypass", "white", "memo", "schedule", "block",
                 "wildcard white", "wildcard block", "feed">>
QueryScript(proto) ==
    IF proto = "plain" THEN <<"bypass fast", "memo fast">> \o CheckDomain ELSE CheckDomain

At(p, step) == job[p].todo # <<>> /\ Head(job[p].todo) = step
Advance(p) == job' = [job EXCEPT ![p].todo = Tail(@)]
IsHandler(j) == j.op \notin {"idle", "query"}
Quiet == \A p \in Proc : ~IsHandler(job[p])

-----------------------------------------------------------------------------
(***************************************************************************)
(* Matching.                                                               *)
(***************************************************************************)
Rules(l) == {r \in Rule : mem[l][r] # Absent}
Above(rules, d) == {r \in rules : <<r, d>> \in Covers}
Matches(rules, d) == d \in rules \/ Above(rules, d) # {}

\* block_reason_tag: what a query reports for an entry of that source.
ReasonTag(source) == IF source = "feed" THEN "threat_feed_abir" ELSE "custom_block"

\* Mutant: the reason itself is stored as the source.
DetectedSource_Raw(reason) == reason

\* record_detected_block: the source an entry gets for a reported reason.
DetectedSource(reason) ==
    CASE reason = "custom_block"     -> "manual"
      [] reason = "threat_feed_abir" -> "feed"
      [] reason = "schedule_block"   -> "system"

\* The README's hierarchy over the rules asked for: what the answer should be.
Intended(lists, d) ==
    IF \/ Matches(lists.bypass, d)
       \/ d \in lists.white
    THEN "allow"
    ELSE IF \/ d \in lists.block \cup window \cup feed
            \/ ~Matches(lists.white, d) /\ Matches(lists.block \cup feed, d)
         THEN "block"
         ELSE "allow"

-----------------------------------------------------------------------------
Init ==
    /\ mem = [l \in ListName |-> [r \in Rule |-> Absent]]
    /\ whiteExact = {} /\ bloom = {} /\ feed = {}
    /\ memo = [d \in Domain |-> Absent]
    /\ disk = [l \in ListName |-> {}]
    /\ window = {}
    /\ job = [p \in Proc |-> Idle]
    /\ want = disk /\ ever = disk

-----------------------------------------------------------------------------
(***************************************************************************)
(* Handlers.                                                               *)
(***************************************************************************)
\* The rules a request may carry: one, or for the three add calls several.
Arguments(op, list) ==
    LET allowed == IF list = "block" THEN Blockable ELSE Rule
    IN  CASE op \in {"clear", "wipe"} -> {{}}
          [] op = "add"               -> (SUBSET allowed) \ {{}}
          [] op \notin {"clear", "wipe", "add"} -> {{r} : r \in allowed}

BeginCall(p) ==
    /\ job[p] = Idle
    /\ \E o \in Ops : \E rules \in Arguments(o[1], o[2]) :
          job' = [q \in Proc |->
                    IF q = p
                    THEN [Idle EXCEPT !.op = o[1], !.list = o[2], !.rules = rules,
                                      !.todo = Script[o]]
                    ELSE [job[q] EXCEPT !.clean = FALSE]]
    /\ UNCHANGED <<mem, whiteExact, memo, disk, bloom, feed, window, want, ever>>

Ask(l, rules) ==
    /\ want' = [want EXCEPT ![l] = @ \cup rules]
    /\ ever' = [ever EXCEPT ![l] = @ \cup rules]

Put(l, rules, source) ==
    mem' = [mem EXCEPT ![l] = [r \in Rule |-> IF r \in rules THEN source ELSE @[r]]]

\* The loop of the three add handlers, under the list's write lock.
AppendAndInsert(p) ==
    /\ At(p, "append and insert")
    /\ LET l == job[p].list
           new == job[p].rules \ Rules(l)
       IN  /\ disk' = [disk EXCEPT ![l] = @ \cup new]
           /\ Put(l, new, "manual")
           /\ Ask(l, job[p].rules)
    /\ Advance(p)
    /\ UNCHANGED <<whiteExact, memo, bloom, feed, window>>

\* add-auto-block and the console's block and whitelist overwrite an entry.
Insert(p) ==
    /\ At(p, "insert")
    /\ Put(job[p].list, job[p].rules, IF job[p].op = "auto_add" THEN "ai" ELSE "CONSOLE")
    /\ Ask(job[p].list, job[p].rules)
    /\ Advance(p)
    /\ UNCHANGED <<whiteExact, memo, disk, bloom, feed, window>>

AppendLate(p) ==
    /\ At(p, "append")
    /\ disk' = [disk EXCEPT ![job[p].list] = @ \cup job[p].rules]
    /\ Advance(p)
    /\ UNCHANGED <<mem, whiteExact, memo, bloom, feed, window, want, ever>>

\* Mutant: a removal is only made in memory.
AppendRemoval_Skipped(p) ==
    /\ At(p, "append removal")
    /\ Advance(p)
    /\ UNCHANGED <<mem, whiteExact, memo, disk, bloom, feed, window, want, ever>>

AppendRemoval(p) ==
    /\ At(p, "append removal")
    /\ disk' = [disk EXCEPT ![job[p].list] = @ \ job[p].rules]
    /\ Advance(p)
    /\ UNCHANGED <<mem, whiteExact, memo, bloom, feed, window, want, ever>>

Remove(p) ==
    /\ At(p, "remove")
    /\ Put(job[p].list, job[p].rules, Absent)
    /\ want' = [want EXCEPT ![job[p].list] = @ \ job[p].rules]
    /\ Advance(p)
    /\ UNCHANGED <<whiteExact, memo, disk, bloom, feed, window, ever>>

EmptyList(p) ==
    /\ \/ At(p, "empty") /\ Put(job[p].list, Rule, Absent)
       \/ At(p, "empty whitelist") /\ Put("white", Rule, Absent)
    /\ want' = IF job[p].op = "wipe"
               THEN [l \in ListName |-> {}]
               ELSE [want EXCEPT ![job[p].list] = {}]
    /\ Advance(p)
    /\ UNCHANGED <<whiteExact, memo, disk, bloom, feed, window, ever>>

\* WalStorage::clear truncates the file, whatever list was meant.
ClearLog(p) ==
    /\ At(p, "clear log")
    /\ disk' = [l \in ListName |-> {}]
    /\ Advance(p)
    /\ UNCHANGED <<mem, whiteExact, memo, bloom, feed, window, want, ever>>

\* The console's whitelist and unwhitelist also touch the feed's exact names.
WhitelistExact(p) ==
    /\ \/ At(p, "insert exact") /\ whiteExact' = whiteExact \cup (job[p].rules \cap Domain)
       \/ At(p, "remove exact") /\ whiteExact' = whiteExact \ job[p].rules
    /\ Advance(p)
    /\ UNCHANGED <<mem, memo, disk, bloom, feed, window, want, ever>>

\* The console's block also puts the name into the bloom filter, where
\* nothing but the next sync of the feed takes it out.
InsertBloom(p) ==
    /\ At(p, "insert bloom")
    /\ bloom' = bloom \cup job[p].rules
    /\ Advance(p)
    /\ UNCHANGED <<mem, whiteExact, feed, memo, disk, window, want, ever>>

\* Mutant: only the answer caches are flushed.
Flush_MemoKept(p) ==
    /\ At(p, "flush")
    /\ Advance(p)
    /\ UNCHANGED <<mem, whiteExact, memo, disk, bloom, feed, window, want, ever>>

Flush(p) ==
    /\ At(p, "flush")
    /\ memo' = [d \in Domain |-> Absent]
    /\ Advance(p)
    /\ UNCHANGED <<mem, whiteExact, disk, bloom, feed, window, want, ever>>

Reply(p) ==
    /\ job[p].op # "idle" /\ job[p].todo = <<>>
    /\ job' = [job EXCEPT ![p] = Idle]
    /\ UNCHANGED <<mem, whiteExact, memo, disk, bloom, feed, window, want, ever>>

Handler(p) ==
    \/ BeginCall(p) \/ AppendAndInsert(p) \/ Insert(p) \/ AppendLate(p)
    \/ AppendRemoval(p) \/ Remove(p) \/ EmptyList(p) \/ ClearLog(p)
    \/ WhitelistExact(p) \/ InsertBloom(p) \/ Flush(p) \/ Reply(p)

-----------------------------------------------------------------------------
(***************************************************************************)
(* Queries.                                                                *)
(***************************************************************************)
BeginQuery(p) ==
    /\ job[p] = Idle
    /\ \E d \in Domain, proto \in Protos :
          job' = [job EXCEPT ![p] = [Idle EXCEPT !.op = "query", !.rules = {d},
                                                 !.todo = QueryScript(proto),
                                                 !.clean = Quiet, !.fed = feed]]
    /\ UNCHANGED <<mem, whiteExact, memo, disk, bloom, feed, window, want, ever>>

\* A step of the hierarchy that matched: the answer, and what is done with it.
Decide(p, verdict, reason, then) ==
    job' = [job EXCEPT ![p].verdict = verdict, ![p].reason = reason, ![p].todo = then]

Learn == <<"learn block">>
MemoAndLearn == <<"memoise", "learn block", "learn block">>

LookBypass(p, d) ==
    /\ At(p, "bypass")
    /\ IF Matches(Rules("bypass"), d)
       THEN Decide(p, "allow", Absent, <<>>)
       ELSE Advance(p)

\* On port 53 a bypassed name only skips the look at the memo.
LookBypassFast(p, d) ==
    /\ At(p, "bypass fast")
    /\ IF Matches(Rules("bypass"), d)
       THEN job' = [job EXCEPT ![p].todo = CheckDomain]
       ELSE Advance(p)

LookWhite(p, d) ==
    /\ At(p, "white")
    /\ IF d \in whiteExact \cup Rules("white")
       THEN Decide(p, "allow", Absent, <<"learn white">>)
       ELSE Advance(p)

LookMemo(p, d) ==
    /\ At(p, "memo") \/ At(p, "memo fast")
    /\ IF memo[d] # Absent
       THEN Decide(p, "block", memo[d], Learn)
       ELSE Advance(p)

LookSchedule(p, d) ==
    /\ At(p, "schedule")
    /\ IF d \in window
       THEN Decide(p, "block", "schedule_block", <<"memoise", "learn block">>)
       ELSE Advance(p)

LookBlock(p, d) ==
    /\ At(p, "block")
    /\ CASE d \in Rules("block")        -> Decide(p, "block", ReasonTag(mem["block"][d]), MemoAndLearn)
         [] d \in bloom \ Rules("block") -> Decide(p, "block", "threat_feed_abir", MemoAndLearn)
         [] OTHER                       -> Advance(p)

LookWildcardWhite(p, d) ==
    /\ At(p, "wildcard white")
    /\ IF Above(Rules("white"), d) # {}
       THEN Decide(p, "allow", Absent, <<"learn white">>)
       ELSE Advance(p)

LookWildcardBlock(p, d) ==
    /\ At(p, "wildcard block")
    /\ \/ \E r \in Above(Rules("block"), d) :
             Decide(p, "block", ReasonTag(mem["block"][r]), MemoAndLearn)
       \/ Above(Rules("block"), d) = {} /\ Advance(p)

LookFeed(p, d) ==
    /\ At(p, "feed")
    /\ IF Matches(bloom, d)
       THEN Decide(p, "block", "threat_feed_abir", MemoAndLearn)
       ELSE Decide(p, "allow", Absent, <<>>)

Look(p) ==
    /\ \E d \in job[p].rules :
          \/ LookBypass(p, d) \/ LookBypassFast(p, d) \/ LookWhite(p, d)
          \/ LookMemo(p, d) \/ LookSchedule(p, d) \/ LookBlock(p, d)
          \/ LookWildcardWhite(p, d) \/ LookWildcardBlock(p, d) \/ LookFeed(p, d)
    /\ UNCHANGED <<mem, whiteExact, memo, disk, bloom, feed, window, want, ever>>

Memoise(p) ==
    /\ At(p, "memoise")
    /\ \E d \in job[p].rules : memo' = [memo EXCEPT ![d] = job[p].reason]
    /\ Advance(p)
    /\ UNCHANGED <<mem, whiteExact, disk, bloom, feed, window, want, ever>>

\* record_detected_whitelist
LearnWhite(p) ==
    /\ At(p, "learn white")
    /\ \E d \in job[p].rules :
          IF Cardinality(Rules("white")) < LearnCap /\ d \notin Rules("white")
          THEN Put("white", {d}, "system")
          ELSE UNCHANGED mem
    /\ Advance(p)
    /\ UNCHANGED <<whiteExact, memo, disk, bloom, feed, window, want, ever>>

\* min_by_key(created_at): the console stamps its entries in seconds, every
\* other writer in milliseconds, so a console entry is always the oldest.
Oldest ==
    LET evictable == {r \in Rules("block") : mem["block"][r] # "manual"}
        console   == {r \in evictable : mem["block"][r] = "CONSOLE"}
    IN  IF console # {} THEN console ELSE evictable

\* record_detected_block
LearnBlock(p) ==
    /\ At(p, "learn block")
    /\ \E d \in job[p].rules :
          LET source == DetectedSource(job[p].reason)
              full   == d \notin Rules("block") /\ Cardinality(Rules("block")) >= SoftCap
          IN  \/ d \in Rules("block") /\ UNCHANGED mem
              \/ ~full /\ d \notin Rules("block") /\ Put("block", {d}, source)
              \/ full /\ \E r \in Oldest :
                    mem' = [mem EXCEPT !["block"][r] = Absent, !["block"][d] = source]
              \/ full /\ Oldest = {} /\ Cardinality(Rules("block")) < HardCap
                    /\ Put("block", {d}, source)
              \/ full /\ Oldest = {} /\ Cardinality(Rules("block")) >= HardCap
                    /\ UNCHANGED mem
    /\ Advance(p)
    /\ UNCHANGED <<whiteExact, memo, disk, bloom, feed, window, want, ever>>

Resolver(p) == BeginQuery(p) \/ Look(p) \/ Memoise(p) \/ LearnWhite(p) \/ LearnBlock(p)

-----------------------------------------------------------------------------
(***************************************************************************)
(* The environment.                                                        *)
(***************************************************************************)
Expire ==
    \E d \in Domain :
        /\ memo[d] # Absent
        /\ memo' = [memo EXCEPT ![d] = Absent]
        /\ UNCHANGED <<mem, whiteExact, disk, bloom, feed, window, job, want, ever>>

\* Every query under way sees the change or not.
Overlap(fed) == [p \in Proc |-> [job[p] EXCEPT !.clean = FALSE, !.fed = @ \cap fed]]

HourChanges ==
    /\ \E w \in SUBSET Windows : w # window /\ window' = w
    /\ job' = Overlap(feed)
    /\ UNCHANGED <<mem, whiteExact, bloom, feed, memo, disk, want, ever>>

\* sync_threat_feeds replaces the bloom filter by a feed that is not empty, ...
SyncThreatFeed ==
    /\ feed' \in (SUBSET Feed) \ {{}}
    /\ bloom' = feed' /\ bloom' # bloom
    /\ job' = Overlap(feed')
    /\ UNCHANGED <<mem, whiteExact, memo, disk, window, want, ever>>

\* ... and afterwards, or when only that feed came, whitelist_exact.
SyncWhitelistFeed ==
    /\ whiteExact # {}
    /\ whiteExact' = {}
    /\ job' = Overlap(feed)
    /\ UNCHANGED <<mem, bloom, feed, memo, disk, window, want, ever>>

\* A call that was under way may or may not have taken effect.
UnderWay(l, r) ==
    \E p \in Proc :
        /\ IsHandler(job[p]) /\ job[p].todo # <<>>
        /\ job[p].op = "wipe" \/ job[p].list = l
        /\ job[p].op \in {"wipe", "clear"} \/ r \in job[p].rules

\* Mutant: the tuple load_lists returns is taken apart in the wrong order.
Restart_Swapped ==
    LET loaded == [block |-> disk.white, white |-> disk.block, bypass |-> disk.bypass]
    IN  /\ mem' = [l \in ListName |-> [r \in Rule |-> IF r \in loaded[l] THEN "manual" ELSE Absent]]
        /\ whiteExact' = {} /\ bloom' = {} /\ feed' = {}
        /\ memo' = [d \in Domain |-> Absent]
        /\ job' = [p \in Proc |-> Idle]
        /\ UNCHANGED <<disk, window, want, ever>>

\* The process stops, at any point, and AppState::new loads the log again.
Restart ==
    /\ mem' = [l \in ListName |-> [r \in Rule |-> IF r \in disk[l] THEN "manual" ELSE Absent]]
    /\ whiteExact' = {} /\ bloom' = {} /\ feed' = {}
    /\ memo' = [d \in Domain |-> Absent]
    /\ job' = [p \in Proc |-> Idle]
    /\ want' = [l \in ListName |->
                  {r \in Rule : IF UnderWay(l, r) THEN r \in disk[l] ELSE r \in want[l]}]
    /\ UNCHANGED <<disk, window, ever>>

Next ==
    \/ \E p \in Proc : Handler(p) \/ Resolver(p)
    \/ Expire \/ HourChanges \/ SyncThreatFeed \/ SyncWhitelistFeed \/ Restart

Spec == Init /\ [][Next]_vars

-----------------------------------------------------------------------------
(***************************************************************************)
(* Properties.                                                             *)
(***************************************************************************)
\* Every variable stays in its range.
TypeOK ==
    /\ mem \in [ListName -> [Rule -> Source \cup {Absent}]]
    /\ whiteExact \subseteq Domain /\ bloom \subseteq Rule /\ feed \subseteq Feed
    /\ memo \in [Domain -> Reason \cup {Absent}]
    /\ disk \in [ListName -> SUBSET Rule]
    /\ window \subseteq Windows
    /\ want \in [ListName -> SUBSET Rule] /\ ever \in [ListName -> SUBSET Rule]
    /\ \A p \in Proc :
          /\ job[p].op \in {"idle", "query"} \cup {o[1] : o \in AllOps}
          /\ job[p].list \in ListName /\ job[p].rules \subseteq Rule
          /\ job[p].verdict \in {"allow", "block", Absent}
          /\ job[p].reason \in Reason \cup {Absent}
          /\ job[p].clean \in BOOLEAN /\ job[p].fed \subseteq Feed

Decided(p) == job[p].op = "query" /\ job[p].verdict # Absent

\* A query that no handler overlaps is answered as the README's hierarchy
\* answers it for the rules the administrators asked for, whatever was
\* memoised, learned, evicted, replayed or raced before (check_domain against
\* the handlers of rules.rs).
AnswersMatchRules ==
    \A p \in Proc : Decided(p) /\ job[p].clean =>
        \A d \in job[p].rules : job[p].verdict = Intended(want, d)

\* When no handler is under way, a restart would not change the answer for
\* any name: what the log replays to means the same as what was asked for.
RulesSurvive ==
    Quiet => \A d \in Domain : Intended(disk, d) = Intended(want, d)

\* A name the threat feed holds while it is looked up is let through only if
\* an administrator once listed it, or a pattern above it, as whitelisted or
\* bypassed: learning, eviction, restarts and races never invent an exemption.
FeedStopsUnlisted ==
    \A p \in Proc : Decided(p) /\ job[p].verdict = "allow" =>
        \A d \in job[p].rules :
            Matches(job[p].fed, d) => Matches(ever.white \cup ever.bypass, d)

-----------------------------------------------------------------------------
(***************************************************************************)
(* What the documentation says and the code does not do: each is violated  *)
(* by one of the Rules_*.cfg runs.                                         *)
(***************************************************************************)
Answered(p, d) == Decided(p) /\ job[p].clean /\ d \in job[p].rules

\* "Explicit subdomain blocks punch directly through broad wildcard
\* whitelists" (README): check_domain promotes a name a wildcard whitelists
\* to the exact whitelist, where a later explicit block is not looked at.
HolePunch ==
    \A p \in Proc, d \in Domain :
        Answered(p, d) /\ d \in want.block \ want.white /\ ~Matches(want.bypass, d)
            => job[p].verdict = "block"

\* "Explicit domain approvals always take absolute precedence" (README).
ApprovalsWin ==
    \A p \in Proc, d \in Domain :
        Answered(p, d) /\ d \in want.white \cap Rules("white") => job[p].verdict = "allow"

\* Wildcard whitelists are priority 3 and the threat feed is priority 6 (README).
WildcardBeatsFeed ==
    \A p \in Proc, d \in Domain :
        Answered(p, d) /\ Above(want.white, d) # {} /\ ~Matches(want.block, d)
            => job[p].verdict = "allow"

\* A query is refused as "custom_block" only if someone added a rule for it;
\* "time-based blocking rules" (README) are not that.
CustomBlocksAreCustom ==
    \A p \in Proc, d \in Domain :
        Answered(p, d) /\ job[p].reason = "custom_block" => Matches(ever.block, d)

\* "Remove custom blocklist rules" (README): once nothing is under way, no
\* manual entry is in the list that is neither asked for nor in the log.
RemovalIsFinal ==
    (\A p \in Proc : job[p] = Idle) =>
        \A r \in Rule : mem["block"][r] = "manual" =>
            r \in disk.block \/ Matches(want.block, r)

\* "Purge all custom whitelist rules" (README): also from the log.
PurgedForGood == Quiet => disk.white \subseteq want.white

\* List mutations "must be durable" (wal.rs): a whitelist rule that was added
\* and neither removed nor purged is in the log.
WhitelistIsDurable == Quiet => want.white \subseteq disk.white

\* The same of the blocklist: a rule that was asked for, and that no call
\* under way removes, is in the log.
BlocklistIsDurable == Quiet => want.block \subseteq disk.block

\* The same of the bypass list, with the memory it was loaded into.
BypassIsDurable == Quiet => disk.bypass = Rules("bypass")

\* "System state purged to factory defaults" (handle_nuclear_wipe).
WipeIsComplete == Quiet => Rules("bypass") \subseteq want.bypass
=============================================================================
