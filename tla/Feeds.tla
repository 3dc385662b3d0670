-------------------------------- MODULE Feeds -------------------------------
(***************************************************************************)
(* The threat feeds: sync_threat_feeds and trigger_background_feed_sync of *)
(* src/src/state.rs, asked for by the boot and the daily cron of           *)
(* src/src/main.rs and by the administrators' handlers of                  *)
(* src/src/server/api/system.rs.                                           *)
(*                                                                         *)
(* What the feeds hold is a version, 0 for nothing.  The two counts that   *)
(* are fetched with them are only shown, and are left out, as are the      *)
(* delays of the retry loop.                                               *)
(***************************************************************************)
EXTENDS Naturals

CONSTANTS
    Loop,          \* the retry loops there could be at a time
    MaxVersion,    \* bound: how often the feeds are published
    MaxFail,       \* bound: how often the fetches of a list fail in a row
    MaxRestart     \* bound: how often the process restarts

ASSUME FeedsAssumption == MaxVersion \in Nat \ {0} /\ {MaxFail, MaxRestart} \subseteq Nat

VARIABLES
    published,     \* the feeds at their source
    syncing,       \* is_feed_syncing
    loop,          \* where a retry loop is, and what it has fetched
    filter,        \* threat_bloom, and the three whitelist filters
    failed,        \* counts the fetches of a list that failed in a row, against MaxFail
    restarts       \* counts restarts, against MaxRestart

feedsVars == <<published, syncing, loop, filter, failed, restarts>>

Version == 0..MaxVersion
List == {"block", "white"}
White == <<"white bloom", "white exact", "white wildcards">>
Filter == {"block"} \cup {White[i] : i \in 1..3}

\* A fetch: none yet, failed or empty (0), or what was published when it was answered.
Asked == [done |-> FALSE, version |-> 0]
Fetching == [pc |-> "fetch", block |-> Asked, white |-> Asked, next |-> 1]
NoLoop == [Fetching EXCEPT !.pc = "none"]
Unfilled == [f \in Filter |-> 0]

FeedsInit ==
    /\ published = 1
    /\ syncing = FALSE
    /\ loop = [l \in Loop |-> NoLoop]
    /\ filter = Unfilled
    /\ failed = [list \in List |-> 0]
    /\ restarts = 0

Publish ==
    /\ published < MaxVersion
    /\ published' = published + 1
    /\ UNCHANGED <<syncing, loop, filter, failed, restarts>>

\* Mutant: whether a loop is running is not asked.
MayStart_Always == TRUE
\* The compare_exchange from false to true; a trigger that misses it is dropped.
MayStart == ~syncing

Trigger(l) ==
    /\ MayStart /\ loop[l].pc = "none"
    /\ syncing' = TRUE
    /\ loop' = [loop EXCEPT ![l] = Fetching]
    /\ UNCHANGED <<published, filter, failed, restarts>>

\* fetch_feed_text, the two at a time.
Fetch(l, list) ==
    /\ loop[l].pc = "fetch" /\ ~loop[l][list].done
    /\ \E version \in {0, published} :
         /\ version = 0 => failed[list] < MaxFail
         /\ failed' = [failed EXCEPT ![list] = IF version = 0 THEN @ + 1 ELSE 0]
         /\ loop' = [loop EXCEPT ![l][list] = [done |-> TRUE, version |-> version]]
    /\ UNCHANGED <<published, syncing, filter, restarts>>

Fetched(l) == loop[l].pc = "fetch" /\ loop[l].block.done /\ loop[l].white.done

\* Mutant: whatever was fetched is swapped in.
Wanted_Empty(l, list) == TRUE
\* A list that came to nothing leaves the filters as they are.
Wanted(l, list) == loop[l][list].version > 0

SwapBlock(l) ==
    /\ Fetched(l)
    /\ filter' = IF Wanted(l, "block") THEN [filter EXCEPT !["block"] = loop[l].block.version]
                                       ELSE filter
    /\ loop' = [loop EXCEPT ![l].pc = IF Wanted(l, "white") THEN "white" ELSE "end"]
    /\ UNCHANGED <<published, syncing, failed, restarts>>

\* The bloom filter, the exact names and the wildcards, each under its own lock.
SwapWhite(l) ==
    /\ loop[l].pc = "white"
    /\ filter' = [filter EXCEPT ![White[loop[l].next]] = loop[l].white.version]
    /\ loop' = [loop EXCEPT ![l].next = IF @ = 3 THEN 1 ELSE @ + 1,
                            ![l].pc = IF loop[l].next = 3 THEN "end" ELSE @]
    /\ UNCHANGED <<published, syncing, failed, restarts>>

\* Without a blocklist the loop sleeps and tries again, whatever became of the whitelist.
Retry(l) ==
    /\ loop[l].pc = "end" /\ loop[l].block.version = 0
    /\ loop' = [loop EXCEPT ![l] = Fetching]
    /\ UNCHANGED <<published, syncing, filter, failed, restarts>>

\* Mutant: the loop ends and the flag stays.
Released_Never == syncing
Released == FALSE

End(l) ==
    /\ loop[l].pc = "end" /\ loop[l].block.version > 0
    /\ syncing' = Released
    /\ loop' = [loop EXCEPT ![l] = NoLoop]
    /\ UNCHANGED <<published, filter, failed, restarts>>

\* Nothing of the feeds is kept on the disk.
Restart ==
    /\ restarts < MaxRestart /\ restarts' = restarts + 1
    /\ syncing' = FALSE
    /\ loop' = [l \in Loop |-> NoLoop]
    /\ filter' = Unfilled
    /\ UNCHANGED <<published, failed>>

Works(l) ==
    \/ SwapBlock(l) \/ SwapWhite(l) \/ Retry(l) \/ End(l)
    \/ \E list \in List : Fetch(l, list)

FeedsNext ==
    \/ Publish \/ Restart
    \/ \E l \in Loop : Trigger(l) \/ Works(l)

\* Fetches end (45 s), and the cron triggers every day.
Daily == \E l \in Loop : Trigger(l)
FeedsSpec ==
    /\ FeedsInit /\ [][FeedsNext]_feedsVars
    /\ WF_feedsVars(Daily)
    /\ \A l \in Loop : WF_feedsVars(Works(l))

---------------------------------------------------------------------------
FeedsTypeOK ==
    /\ published \in Version /\ restarts <= MaxRestart /\ failed \in [List -> 0..MaxFail]
    /\ \A f \in Filter : filter[f] <= published
    /\ \A l \in Loop : loop[l].pc \in {"none", "fetch", "white", "end"} /\ loop[l].next \in 1..3

(***************************************************************************)
(* While the process runs no filter is emptied or set back to an older     *)
(* feed, whichever fetches fail and however late their answers are.        *)
(***************************************************************************)
FiltersKept == [][restarts' # restarts \/ \A f \in Filter : filter'[f] >= filter[f]]_feedsVars

(***************************************************************************)
(* What was published last gets into every filter and stays there, though  *)
(* triggers are dropped while a loop runs, one of the lists fails, or the  *)
(* process restarts.                                                       *)
(***************************************************************************)
FeedsCatchUp == <>[](\A f \in Filter : filter[f] = published)
=============================================================================
