-------------------------------- MODULE Wal --------------------------------
(***************************************************************************)
(* The write-ahead log of the rule lists and of the query/threat events:   *)
(* src/storage/wal.rs.                                                     *)
(*                                                                         *)
(* One text file holds two kinds of lines.  List records (+B -B +W -W +BP  *)
(* -BP +IS_ENABLE !IS_SRC_CLEAR +IS_SRC) are written by the admin handlers *)
(* straight to the file, under the writer mutex.  Event records (Q: T:)    *)
(* go through a bounded channel to a background task that writes them in   *)
(* batches under the same mutex.  Compaction rewrites the file through a   *)
(* temporary file and a rename.  On start the file is replayed.            *)
(*                                                                         *)
(* Replay never compares the position of a list record with the position   *)
(* of an event record, so the file is kept here as two sequences, "log"    *)
(* and "events", and the unterminated last line a crash may leave, "torn". *)
(***************************************************************************)
EXTENDS Naturals, Sequences, FiniteSets, SequencesExt

CONSTANTS
    Entry,       \* what a list record names: a <<list, domain>> pair, an
                 \* instant-shield source, or the instant-shield switch
    Source,      \* the entries that are instant-shield sources (+IS_SRC)
    Compactor,   \* threads that may run compact(): the 600 s ticker, the
                 \* memory governor, the console and the API
    NoOne,       \* nobody holds the writer mutex
    Nothing,     \* no image, no torn line
    QueueCap,    \* capacity of the channel (4096)
    BatchMax,    \* entries that trigger a flush (50)
    EventKeep,   \* events a compaction keeps (3000)
    Faults,      \* failures of this instance, out of FaultKind
    MaxLog,      \* bound: list records in the file
    MaxEvents    \* bound: events ever sent

FaultKind == {"tear",      \* the process dies inside a line
              "partial",   \* the process dies between the lines of one call
              "unread",    \* File::open fails in compact()
              "temp",      \* writing or syncing the temporary file fails
              "rename",    \* the rename fails
              "reopen"}    \* opening the file for appending fails

ASSUME ConstantsAssumption ==
    /\ IsFiniteSet(Entry)
    /\ Source \subseteq Entry
    /\ NoOne \notin Compactor
    /\ QueueCap \in Nat \ {0} /\ BatchMax \in Nat \ {0} /\ EventKeep \in Nat
    /\ MaxLog \in Nat /\ MaxEvents \in Nat
    /\ Faults \subseteq FaultKind

VARIABLES
    log,         \* on disk: the intact list records, oldest first
    events,      \* on disk: the intact event records, oldest first
    torn,        \* on disk: the unterminated last line, or Nothing
    temp,        \* on disk: "<path>.tmp", or Nothing
    up,          \* the process runs
    handle,      \* the Option<File> behind the writer mutex is Some
    lock,        \* the compactor that holds the writer mutex, or NoOne
    compacting,  \* the AtomicBool the background writer looks at
    cpc,         \* where each compactor is
    image,       \* what the compactor that holds the mutex has read
    queue,       \* the mpsc channel
    batch,       \* the background writer's Vec
    wpc,         \* where the background writer is
    sent,        \* events sent so far (events are numbered)
    accepted,    \* history: events the channel took and no crash or wipe lost
    acked,       \* history: lists as the returned calls left them
    inflight     \* history: the same, had the call a crash cut off completed

disk == <<log, events, torn, temp>>
writer == <<queue, batch, wpc>>
compaction == <<compacting, cpc, image>>
promises == <<acked, inflight>>
vars == <<disk, up, handle, lock, compaction, writer, sent, accepted, promises>>

-----------------------------------------------------------------------------
(* Records and what a replay makes of them.                                *)

ListRecord == [op : {"add", "del"}, entry : Entry] \cup [op : {"clear"}]

Add(e) == [op |-> "add", entry |-> e]
Del(e) == [op |-> "del", entry |-> e]
ClearSources == [op |-> "clear"]

Adds(r) == IF r.op = "add" THEN {r.entry} ELSE {}

Removes(r) == IF r.op = "clear" THEN Source
              ELSE IF r.op = "del" THEN {r.entry} ELSE {}

\* Mutant: the line goes into the list with its prefix.
Apply_Unstripped(lists, r) == (lists \ Removes(r)) \cup {r}

\* The effect of one record on the lists.
Apply(lists, r) == (lists \ Removes(r)) \cup Adds(r)

\* The lists a replay of l yields: an entry is in if some record adds it and
\* no later record takes it out.
Replay(l) ==
    {e \in Entry : \E i \in DOMAIN l :
        e \in Adds(l[i]) /\ \A j \in (i + 1)..Len(l) : e \notin Removes(l[j])}

\* The file as the line reader sees it: an unterminated line is accepted when
\* its payload is whole (no checksum yet, or the checksum but no newline).
VisibleLog == IF torn # Nothing /\ torn.seen /\ torn.kind = "list"
              THEN Append(log, torn.rec) ELSE log

VisibleEvents == IF torn # Nothing /\ torn.seen /\ torn.kind = "event"
                 THEN Append(events, torn.rec) ELSE events

Lists == Replay(VisibleLog)

\* What reaches the file when rs is appended: bytes written after an
\* unterminated line join it, and the joined line fails its checksum.
Landed(rs) == IF torn = Nothing THEN rs ELSE Tail(rs)

\* Mutant: pop_back instead of pop_front, the oldest events are kept.
LastN_Oldest(s, n) == SubSeq(s, 1, IF Len(s) > n THEN n ELSE Len(s))

LastN(s, n) == SubSeq(s, IF Len(s) > n THEN Len(s) - n + 1 ELSE 1, Len(s))

\* The compacted file: one add record per entry of the lists (the order is
\* that of a HashSet) and the most recent events.
Compacted == [log |-> SetToSeq({Add(e) : e \in Lists}),
              events |-> LastN(VisibleEvents, EventKeep)]

-----------------------------------------------------------------------------
Init ==
    /\ log = <<>> /\ events = <<>> /\ torn = Nothing /\ temp = Nothing
    /\ up = TRUE /\ handle = TRUE /\ lock = NoOne
    /\ compacting = FALSE
    /\ cpc = [c \in Compactor |-> "idle"]
    /\ image = Nothing
    /\ queue = <<>> /\ batch = <<>> /\ wpc = "idle"
    /\ sent = 0 /\ accepted = <<>>
    /\ acked = {} /\ inflight = {}

-----------------------------------------------------------------------------
(* Admin calls: written by the caller, under the mutex.                    *)

\* Mutant: the writer mutex is not taken.
WriteRecords_NoMutex(rs, lists) ==
    /\ up /\ Len(log) + Len(rs) <= MaxLog
    /\ IF handle THEN log' = log \o Landed(rs) /\ torn' = Nothing
                 ELSE UNCHANGED <<log, torn>>
    /\ acked' = lists /\ inflight' = lists
    /\ UNCHANGED <<events, temp, up, handle, lock, compaction, writer, sent,
                   accepted>>

\* Every list call writes its records rs and returns nothing: a caller takes
\* the new lists for durable even when there is no file to write to.
WriteRecords(rs, lists) ==
    /\ up /\ lock = NoOne
    /\ Len(log) + Len(rs) <= MaxLog
    /\ IF handle THEN log' = log \o Landed(rs) /\ torn' = Nothing
                 ELSE UNCHANGED <<log, torn>>
    /\ acked' = lists /\ inflight' = lists
    /\ UNCHANGED <<events, temp, up, handle, lock, compaction, writer, sent,
                   accepted>>

\* append_block, append_whitelist, append_bypass and their un- counterparts,
\* append_instant_block_state.
AppendRecord(r) == WriteRecords(<<r>>, Apply(acked, r))

SourceRecords(S) == <<ClearSources>> \o SetToSeq({Add(e) : e \in S})

\* save_instant_block_sources: the whole list is rewritten.
SaveSources(S) == WriteRecords(SourceRecords(S), (acked \ Source) \cup S)

\* clear(): truncates the file, list records and events alike.
Clear ==
    /\ up /\ lock = NoOne
    /\ IF handle THEN log' = <<>> /\ events' = <<>> /\ torn' = Nothing
                 ELSE UNCHANGED <<log, events, torn>>
    /\ accepted' = batch \o queue
    /\ acked' = {} /\ inflight' = {}
    /\ UNCHANGED <<temp, up, handle, lock, compaction, writer, sent>>

-----------------------------------------------------------------------------
(* Events: the hot path and the background writer.                         *)

\* append_query, append_threat_event: try_send, dropped when the channel is full.
SendEvent ==
    /\ up /\ sent < MaxEvents
    /\ sent' = sent + 1
    /\ IF Len(queue) < QueueCap
       THEN queue' = Append(queue, sent') /\ accepted' = Append(accepted, sent')
       ELSE UNCHANGED <<queue, accepted>>
    /\ UNCHANGED <<disk, up, handle, lock, compaction, batch, wpc, promises>>

\* How many entries one wake-up takes: the received one, then as many as
\* bring the batch to BatchMax.
Drained == IF Len(batch) + 1 >= BatchMax THEN 1
           ELSE IF Len(queue) < BatchMax - Len(batch) THEN Len(queue)
                ELSE BatchMax - Len(batch)

\* rx.recv(): the flag is read here, the mutex is taken later.
WriterReceive ==
    /\ up /\ wpc = "idle" /\ queue # <<>>
    /\ batch' = batch \o SubSeq(queue, 1, Drained)
    /\ queue' = SubSeq(queue, Drained + 1, Len(queue))
    /\ wpc' = IF Len(batch') >= BatchMax /\ ~compacting THEN "flush" ELSE "idle"
    /\ UNCHANGED <<disk, up, handle, lock, compaction, sent, accepted, promises>>

\* interval.tick() with something to write and no compaction announced.
WriterTick ==
    /\ up /\ wpc = "idle" /\ batch # <<>> /\ ~compacting
    /\ wpc' = "flush"
    /\ UNCHANGED <<disk, up, handle, lock, compaction, queue, batch, sent,
                   accepted, promises>>

\* Mutant: the batch is not cleared after it is written.
FlushBatch_Kept ==
    /\ up /\ wpc = "flush" /\ lock = NoOne
    /\ IF handle THEN events' = events \o Landed(batch) /\ torn' = Nothing
                 ELSE UNCHANGED <<events, torn>>
    /\ wpc' = "idle"
    /\ UNCHANGED <<log, temp, up, handle, lock, compaction, queue, batch, sent,
                   accepted, promises>>

\* flush_batch: the batch is emptied even when there is no file.
FlushBatch ==
    /\ up /\ wpc = "flush" /\ lock = NoOne
    /\ IF handle THEN events' = events \o Landed(batch) /\ torn' = Nothing
                 ELSE UNCHANGED <<events, torn>>
    /\ batch' = <<>> /\ wpc' = "idle"
    /\ UNCHANGED <<log, temp, up, handle, lock, compaction, queue, sent,
                   accepted, promises>>

-----------------------------------------------------------------------------
(* compact().                                                              *)

\* Step 1: announce.  maybe_compact's size thresholds are not modelled: a
\* compaction may start at any time.
CompactSignal(c) ==
    /\ up /\ cpc[c] = "idle"
    /\ compacting' = TRUE
    /\ cpc' = [cpc EXCEPT ![c] = "waiting"]
    /\ UNCHANGED <<disk, up, handle, lock, image, writer, sent, accepted, promises>>

\* Step 2: take the mutex and read the file; a file that cannot be opened
\* reads as an empty one.
CompactRead(c) ==
    /\ up /\ cpc[c] = "waiting" /\ lock = NoOne
    /\ lock' = c
    /\ \/ image' = Compacted
       \/ "unread" \in Faults /\ image' = [log |-> <<>>, events |-> <<>>]
    /\ cpc' = [cpc EXCEPT ![c] = "read"]
    /\ UNCHANGED <<disk, up, handle, compacting, writer, sent, accepted, promises>>

\* Step 3: write and sync the temporary file.
CompactWriteTemp(c) ==
    /\ up /\ cpc[c] = "read"
    /\ temp' = image
    /\ cpc' = [cpc EXCEPT ![c] = "synced"]
    /\ UNCHANGED <<log, events, torn, up, handle, lock, compacting, image,
                   writer, sent, accepted, promises>>

\* Mutant: the error path forgets the flag.
CompactWriteFails_FlagKept(c) ==
    /\ up /\ cpc[c] = "read" /\ "temp" \in Faults
    /\ temp' = Nothing /\ image' = Nothing /\ lock' = NoOne
    /\ cpc' = [cpc EXCEPT ![c] = "idle"]
    /\ UNCHANGED <<log, events, torn, up, handle, compacting, writer, sent,
                   accepted, promises>>

\* Mutant: the error path returns with the mutex held.
CompactWriteFails_MutexKept(c) ==
    /\ up /\ cpc[c] = "read" /\ "temp" \in Faults
    /\ temp' = Nothing /\ image' = Nothing /\ compacting' = FALSE
    /\ cpc' = [cpc EXCEPT ![c] = "idle"]
    /\ UNCHANGED <<log, events, torn, up, handle, lock, writer, sent, accepted,
                   promises>>

\* Step 4 (error path) and 5: drop the temporary file and give up.
CompactWriteFails(c) ==
    /\ up /\ cpc[c] = "read" /\ "temp" \in Faults
    /\ temp' = Nothing /\ image' = Nothing
    /\ compacting' = FALSE /\ lock' = NoOne
    /\ cpc' = [cpc EXCEPT ![c] = "idle"]
    /\ UNCHANGED <<log, events, torn, up, handle, writer, sent, accepted, promises>>

\* Step 4: close the file, rename the temporary one over it.
CompactRename(c) ==
    /\ up /\ cpc[c] = "synced"
    /\ handle' = FALSE
    /\ \/ /\ log' = temp.log /\ events' = temp.events
          /\ torn' = Nothing /\ temp' = Nothing
       \/ "rename" \in Faults /\ UNCHANGED disk
    /\ cpc' = [cpc EXCEPT ![c] = "renamed"]
    /\ UNCHANGED <<up, lock, compacting, image, writer, sent, accepted, promises>>

\* Steps 4 and 5: open the file again, clear the flag, release the mutex.
CompactReopen(c) ==
    /\ up /\ cpc[c] = "renamed"
    /\ \/ handle' = TRUE
       \/ "reopen" \in Faults /\ handle' = FALSE
    /\ image' = Nothing
    /\ compacting' = FALSE /\ lock' = NoOne
    /\ cpc' = [cpc EXCEPT ![c] = "idle"]
    /\ UNCHANGED <<disk, up, writer, sent, accepted, promises>>

-----------------------------------------------------------------------------
(* The process dies, and starts again.                                     *)

\* What the dead process leaves: the disk, nothing of its memory.
LoseMemory ==
    /\ up' = FALSE /\ handle' = FALSE /\ lock' = NoOne
    /\ compacting' = FALSE /\ image' = Nothing
    /\ cpc' = [c \in Compactor |-> "idle"]
    /\ queue' = <<>> /\ batch' = <<>> /\ wpc' = "idle"

\* The events that were on disk, or had been before a compaction dropped them.
Flushed == SubSeq(accepted, 1, Len(accepted) - Len(batch) - Len(queue))

Crash ==
    /\ up
    /\ LoseMemory
    /\ accepted' = Flushed
    /\ UNCHANGED <<disk, sent, promises>>

\* A write of the records rs is cut off after k whole lines and, when tear is
\* not "none", inside the next one; kind says which sequence rs belongs to.
WriteCut(rs, kind, k, tear) ==
    /\ k < Len(rs)
    /\ k > 0 => "partial" \in Faults
    /\ tear # "none" => "tear" \in Faults
    /\ k > 0 \/ tear # "none"
    /\ LET whole == IF k = 0 THEN <<>> ELSE Landed(SubSeq(rs, 1, k))
       IN IF kind = "list" THEN log' = log \o whole /\ UNCHANGED events
                           ELSE events' = events \o whole /\ UNCHANGED log
    /\ torn' = IF tear = "none" THEN Nothing
               ELSE [kind |-> kind, rec |-> rs[k + 1],
                     seen |-> tear = "payload" /\ (k > 0 \/ torn = Nothing)]
    /\ UNCHANGED temp

Tear == {"none", "payload", "garbled"}

\* The crash hits a list call: its outcome is open until the restart.
CrashInCall(rs, lists) ==
    /\ up /\ lock = NoOne /\ handle
    /\ Len(log) + Len(rs) <= MaxLog
    /\ \E k \in 0..Len(rs), tear \in Tear : WriteCut(rs, "list", k, tear)
    /\ LoseMemory
    /\ inflight' = lists
    /\ accepted' = Flushed
    /\ UNCHANGED <<sent, acked>>

\* The crash hits flush_batch.
CrashInFlush ==
    /\ up /\ wpc = "flush" /\ lock = NoOne /\ handle
    /\ \E k \in 0..Len(batch), tear \in Tear :
          /\ WriteCut(batch, "event", k, tear)
          /\ accepted' = Flushed \o SubSeq(batch, 1, k)
    /\ LoseMemory
    /\ UNCHANGED <<sent, promises>>

\* WalStorage::new and load_lists: the lists are what the file replays to.
Restart ==
    /\ ~up
    /\ up' = TRUE
    /\ \/ handle' = TRUE
       \/ "reopen" \in Faults /\ handle' = FALSE
    /\ acked' = Lists /\ inflight' = Lists
    /\ UNCHANGED <<disk, lock, compaction, writer, sent, accepted>>

-----------------------------------------------------------------------------
\* The list calls: one record, or the sources rewritten.
ListCall ==
    \/ \E e \in Entry : AppendRecord(Add(e)) \/ AppendRecord(Del(e))
    \/ \E S \in SUBSET Source : SaveSources(S)

CutListCall ==
    \/ \E e \in Entry : \E r \in {Add(e), Del(e)} : CrashInCall(<<r>>, Apply(acked, r))
    \/ \E S \in SUBSET Source : CrashInCall(SourceRecords(S), (acked \ Source) \cup S)

Compact(c) ==
    \/ CompactSignal(c) \/ CompactRead(c)
    \/ CompactWriteTemp(c) \/ CompactWriteFails(c)
    \/ CompactRename(c) \/ CompactReopen(c)

Writer == WriterReceive \/ WriterTick \/ FlushBatch

Next ==
    \/ ListCall \/ Clear
    \/ SendEvent \/ Writer
    \/ \E c \in Compactor : Compact(c)
    \/ Crash \/ CutListCall \/ CrashInFlush \/ Restart

Spec == Init /\ [][Next]_vars

\* The runtime keeps polling the writer task and the thread that compacts.
\* The tick comes every 100 ms and compactions every 5 s at most, so the
\* writer meets the flag down again and again: strong fairness for the tick.
\* A std::sync::Mutex is not fair but its holders are few and short.
Fairness ==
    /\ WF_vars(WriterReceive) /\ SF_vars(WriterTick) /\ SF_vars(FlushBatch)
    /\ \A c \in Compactor :
          /\ SF_vars(CompactRead(c))
          /\ WF_vars(CompactWriteTemp(c) \/ CompactWriteFails(c))
          /\ WF_vars(CompactRename(c)) /\ WF_vars(CompactReopen(c))

FairSpec == Spec /\ Fairness

-----------------------------------------------------------------------------
(* Properties.                                                             *)

Image == [log : Seq(ListRecord), events : Seq(Nat)]

TornLine == [kind : {"list"}, rec : ListRecord, seen : BOOLEAN]
            \cup [kind : {"event"}, rec : Nat, seen : BOOLEAN]

\* Type invariant.
TypeOK ==
    /\ log \in Seq(ListRecord) /\ events \in Seq(Nat)
    /\ torn \in TornLine \cup {Nothing}
    /\ temp \in Image \cup {Nothing} /\ image \in Image \cup {Nothing}
    /\ up \in BOOLEAN /\ handle \in BOOLEAN /\ compacting \in BOOLEAN
    /\ lock \in Compactor \cup {NoOne}
    /\ cpc \in [Compactor -> {"idle", "waiting", "read", "synced", "renamed"}]
    /\ queue \in Seq(Nat) /\ batch \in Seq(Nat) /\ accepted \in Seq(Nat)
    /\ wpc \in {"idle", "flush"} /\ sent \in Nat
    /\ acked \subseteq Entry /\ inflight \subseteq Entry

\* Who holds the writer mutex is in compact(), and has what it read or wrote.
MutexInv ==
    /\ \A c \in Compactor : lock = c <=> cpc[c] \in {"read", "synced", "renamed"}
    /\ \A c \in Compactor : cpc[c] = "read" => image \in Image
    /\ \A c \in Compactor : cpc[c] = "synced" => temp \in Image
    /\ wpc = "flush" => batch # <<>>

\* Without torn lines and with files that open: the log replays to the lists
\* the calls left, and so do the image and the temporary file of a compaction.
DurableInv ==
    /\ torn = Nothing
    /\ acked = Replay(log) /\ inflight = acked
    /\ up /\ (\A c \in Compactor : cpc[c] # "renamed") => handle
    /\ \A c \in Compactor : cpc[c] = "read" => Replay(image.log) = acked
    /\ \A c \in Compactor : cpc[c] = "synced" => Replay(temp.log) = acked

\* Config mutations "must be durable" (wal.rs:268): whenever the process stops,
\* a replay of the file yields the lists as the returned calls left them, give
\* or take the whole of the one call the stop cut off.
AckedIsDurable == Lists \in {acked, inflight}

\* No event is lost, duplicated or reordered between the channel and the file
\* while the process lives, and compaction drops none but those older than the
\* last EventKeep.
EventsInOrder ==
    LET n == Len(accepted) - Len(batch) - Len(queue) IN
    /\ n >= 0
    /\ accepted = SubSeq(accepted, 1, n) \o batch \o queue
    /\ \E k \in 1..(n + 1) :
          /\ events = SubSeq(accepted, k, n)
          /\ k = 1 \/ Len(events) >= EventKeep

\* Whatever fails, events never come back in another order or twice.
EventsIncrease ==
    \A i, j \in DOMAIN VisibleEvents : i < j => VisibleEvents[i] < VisibleEvents[j]

\* "Set to true while compaction is in progress" (wal.rs:53-56): whoever
\* compacts holds the mutex with the flag up, so that the writer backs off.
FlagCoversCompaction == lock \in Compactor => compacting

\* The backlog in memory is bounded by the channel ("~400 KB peak backlog",
\* wal.rs:49) and one batch.
BacklogBounded == Len(queue) + Len(batch) <= QueueCap + BatchMax

\* An event that entered the channel does not stay in memory for ever: it is
\* written, or the process dies.
EventsDrain ==
    \A n \in 1..MaxEvents :
        n \in ToSet(queue \o batch) ~> n \notin ToSet(queue \o batch)

\* Every compaction that started ends, or the process dies.
CompactionEnds == \A c \in Compactor : cpc[c] # "idle" ~> cpc[c] = "idle"
=============================================================================
