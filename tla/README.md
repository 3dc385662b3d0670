# A TLA+ model of AmarDNS

AmarDNS is a filtering DNS resolver in Rust: it answers queries over UDP/TCP,
DoT, DoH, DoH3 and DoQ, filters names through rule lists, threat feeds and
heuristics, forwards what is left to a pool of upstream DoH resolvers, and is
managed by an HTTP API and a console. Everything lives in one process with a
tokio thread pool; the only persistent state is one append-only file (the WAL),
TLS files and the executable itself.

This directory holds TLA+ modules translated from that source, TLC
configurations that check them on small instances, and proofs that TLAPS checks
for every value of the constants. Source paths below are relative to
`src/src/` of the repository; `PROJECT.json` maps every definition to its lines.

    tlc -workers 2 -config Wal_crash.cfg Wal      # a run
    tlapm WalProofs.tla                           # the proofs of a module


## 1. Inventory

| Component | State it keeps | Operations | Hard behaviour | Correct when |
|---|---|---|---|---|
| Write-ahead log, `storage/wal.rs` | the log file, a writer handle behind a mutex, an event channel (4096), the `compacting` flag | `append_*`, `save_instant_block_sources`, `append_query`/`append_threat_event`, `background_writer`, `maybe_compact`/`compact`, `load_lists`, `clear` | several compactors and one writer; crash between any two steps; failing open, rename, reopen; torn lines | a replay yields what the returned calls left; events keep their order and drain; compactions end |
| Rule lists and filter, `api/rules.rs`, `state.rs`, `api/console.rs`, `plain.rs` | block, white and bypass lists, `whitelist_exact`, the threat bloom filter, the 60 s memo `fast_neg_filter`, their records in the log | add/delete/clear per list, automatic blocks, console commands, nuclear wipe; `check_domain`, `record_detected_block`, `record_detected_whitelist`, eviction | every list has its own lock and the log another; queries write back what they decided; the memo goes stale | an undisturbed answer follows the documented hierarchy; a restart changes no answer; nothing invents an exemption from the feed |
| Request coalescing, `dns/upstream.rs` 40-126 | map key -> broadcast sender | `do_call`, the guard's `Drop` | a leader cancelled at its await; followers that lag or leave | one lookup per key; nobody waits for ever; all of a group get the same outcome |
| Hedged lookup, `dns/upstream.rs` 666-848 | three futures and two timers per call | `resolve` | failures and timers in any order, futures polled across three `select!`s | it gives up last, ends, and does not poll a finished future |
| Upstream pool, `dns/upstream.rs` | ranked node list, per-node error counts and latencies, circuit breaker | `record_success/error`, `recompute_ranks`, `keepalive_ping`, `sync_and_rank`, `probe_active_upstreams`, `apply_candidate_promotions`, `demote_degraded_and_promote_best`, `reset_cb`, `resolve_race`, `resolve_root_hints` | rankings computed from snapshots and written back; atomics read and stored apart; three background loops | no node is lost or doubled; a degraded node heals; the pool never empties |
| Instant shield, `state.rs` 88-140, 848-955; `api/system.rs` 475-640 | exact set, wildcard list, source list, switch, their records in the log | compile, toggle, save, sync, clear | a compilation fetches for seconds and stores under three locks; two may overlap | sources, sets and log agree when quiet |
| Query pipeline, `server/doh.rs`, `server/plain.rs` | none of its own; drives all others | `process_dns_wire_packet_full`: filter, caches, DNSSEC policy, resolve, TTL caps, cache fill | answers inserted after the flush that should have dropped them; stale-while-revalidate tasks | no blocked answer from a cache after a rule change |
| Answer cache, `dns/cache.rs` | positive and negative caches, byte counters for display | `get_with_swr`, `insert`, `insert_with_grace_allowed`, `get_negative`, `insert_negative`, `clear` | TTL edges, grace period, several ways into one entry | no answer past its grace; no record told for longer than its entry's life |
| Threat-feed sync, `state.rs` 1462-1698 | bloom filter, `whitelist_exact`, wildcard whitelist, `is_feed_syncing` | `sync_threat_feeds`, `trigger_background_feed_sync` | retry with back-off under a single-flight flag; swaps of several sets | one loop at a time; a failed fetch replaces nothing |
| Rate limiter, `security/rate_limit.rs` | token buckets per identity and per address, striped locks | `check_with_identity`, `prune_idle`, `clear` | two buckets under two locks; pruning | never more than capacity plus refill passes |
| Certificates, `server/tls.rs`, `server/acme.rs` | certificate and key files, the live resolver, ACME order state | reload, order, DNS-01 challenge, renewal, peer sync | two files replaced one after the other; retries; several nodes | the live pair always matches |
| Boot and update, `main.rs`, `api/system.rs`, `api/console.rs` | `/amardns`, `/data/amardns`, backups | bootloader, OTA update, rollback, cron, memory governor, shutdown | crash between copy and rename; exec loop guard | a runnable binary is always left |
| DNSSEC, `dns/dnssec.rs`, `dns/pkcs7.rs` | trust anchors, key cache | judgement of signed answers and denials, anchor sync | a circle of hashed names; two files fetched apart | what a zone has is never proven absent; an honest server is believed; anchors are valid |
| Wire format, `dns/parser.rs` | none | parse, build, truncate, rewrite TTLs, options | compression, odd labels, size limits, one message shared by several clients | what is sent is whole, fits and is the client's own |
| Learning stores, `dns/ttl_learner.rs`, `dns/passive_dns.rs`, `security/schedule.rs` | bounded maps; schedule rules in memory only | observe, prune; `is_active_now` | bounds, midnight wrap | bounds hold |
| Heuristics, `security/heuristics.rs`, `ai.rs`, `safe_browsing.rs`, `bloom.rs` | scores, a bit array | score, look up | floating point, a remote service | no false negative in the filter |
| Authentication, `security/auth.rs`, `sanitizer.rs` | the secret and the keys of the roles | issue a token, check a token, `check_auth` | several places a request may carry a key in; machines' clocks; the width of a lifetime | a token opens its path for its life, on every machine, and nothing else |
| Listeners, `server/dot.rs`, `doq.rs`, `doh3.rs`, `plain.rs` | sockets, semaphores | accept, read frame, answer | permits and bounded channels, clients that stop reading | a query that was read is answered; permits come back |
| Dynamic DNS, `server/ddns.rs` | none of its own; records at the providers | discover, compare, update | two runs at a time, failing calls, caches of public resolvers | every record ends up with the host's addresses |
| Telemetry, configuration, user interface | counters, pages, environment | views | little | - |

How they interact. A listener hands a query to the pipeline; the pipeline asks
the filter (`check_domain`), the caches, then `Upstreams::resolve`, which goes
through `do_call` (coalescing) to the hedged lookup over the ranked pool, and
fills the caches. Queries feed back: detections are inserted into the rule lists
and memo, latencies into the ranking, events into the log's channel. API handlers
and the console change lists, log and caches in sequence, each behind its own
lock. Background loops (feed sync, probes, WAL ticker, memory governor, ACME)
change the same state on timers. Only the log, the TLS files and the executable
survive a restart.


## 2. Modules

| Module | Models | Kind |
|---|---|---|
| `Wal` | `storage/wal.rs` | state machine |
| `WalProofs` | type correctness, durability, order and number of events of `Wal`; nobody waits in vain | proofs |
| `RuleStore`, `MCRuleStore` | the rule handlers and the filter; instances for TLC | state machine |
| `RuleStoreProofs` | type correctness; only administrators' rules exempt a name from the threat feed; rules outlive restarts; answers follow the rules | proofs |
| `Coalesce` | what coalescing promises: callers of one key form a group that gets one outcome in one step | abstract specification |
| `Singleflight` | `do_call` and `SingleflightGuard` | state machine, implements `Coalesce` |
| `Hedge` | the closure `resolve` hands to `do_call` | state machine |
| `UpstreamPool` | the node pool, its health counters, ranking, sync, probes and promotion | state machine |
| `UpstreamPoolProofs` | type correctness; the ranked copy is current; the pool is never empty, too large or doubled | proofs |
| `Answers` | the query pipeline of `server/doh.rs` over the two caches of `dns/cache.rs`, background lookups, an administrator who changes settings and flushes | state machine |
| `AnswersProofs` | type correctness; what a client is told follows from settings that held during its query | proofs |
| `Wire` | what happens to a message: `dns/parser.rs`, TTLs in `dns/cache.rs`, replies in `server/doh.rs`, `plain.rs` | state machine |
| `Names` | names in messages: parser, text, question builder | state machine over pure operators |
| `Denial` | `validate_dnssec`: signed answers, NSEC and NSEC3 denials | state machine over pure operators |
| `MessageProofs` | theorems about `Wire` (told TTLs are bounded; what leaves the server is whole), `Denial` (no denial is accepted of what the zone has; the zone's own server is believed) and `Names` (a name is read as it was written) | proofs |
| `Anchors` | the root trust anchors' sync | state machine |
| `RateLimit` | the two levels of token buckets | state machine |
| `Auth` | view tokens and roles | state machine |
| `Shield` | the Instant Shield's handlers, compilation, log records | state machine |
| `Update` | bootloader, installation, rollback, removal, crashes | state machine |
| `Cron` | the daily and the interval schedule | state machine |
| `Feeds` | the threat-feed retry loop | state machine |
| `PartsProofs` | theorems about `RateLimit`, `Auth`, `Anchors`, `Shield`, `Update`, `Cron` and `MCParts` | proofs |
| `Listeners` | a listener, its connections and their tasks | state machine |
| `LiveProofs` | theorems about `Singleflight`, `Hedge`, `Feeds` and `Listeners`, and about `MCLive` as a whole | proofs |
| `Certs` | ACME supervisor, cluster lock, peer sync, certificate files of several machines | state machine |
| `Ddns` | Dynamic DNS | state machine |
| `MachinesProofs` | type correctness of `Certs` and `Ddns`, and of `MCMachines`; the supervisors, their orders and the lock | proofs |
| `MCParts`, `MCLive`, `MCMachines` | the parts that share no state, each by itself, in three runs | instances for TLC |

A definition named `X_Something` above a definition `X` is X with one plausible
slip in it. It is used by nothing; it is there so that the checks can be
tried against it, to see that each property notices.

### Wal

The file is `log` (list records) and `events` (numbered event lines) plus
`torn`, an unfinished last line. `Replay(log)` is `load_lists`. An appended list
record is one atomic step under the writer mutex. Each event goes through
`SendEvent` (`try_send` on the channel), `WriterReceive` (the writer drains a
batch), `WriterTick`, `FlushBatch`. `compact()` is five steps per compactor:
`CompactSignal` raises the shared flag without the mutex, `CompactRead` takes
the mutex and computes the compacted image, `CompactWriteTemp`,
`CompactRename`, `CompactReopen`; `CompactWriteFails` is its error path.
`Crash`, `CutListCall` and `CrashInFlush` lose memory at any step and, inside
a write, keep a prefix; `Restart` opens the file and replays it. Faults are switched per configuration: "tear" (a crash
leaves half a line), "partial" (a crash between the writes of
`save_instant_block_sources`), "unread" (the log cannot be opened for reading),
"temp", "rename", "reopen". `acked` and `inflight` are history: the lists as
the returned calls left them, and with the present call.

Left out: statistics, the size thresholds of `maybe_compact` (a compaction may
begin at any time), the checksum's arithmetic (a torn line is one that fails it).

### RuleStore

A handler is a *script*: the sequence of atomic steps it performs, each under one
lock (`AddScript`, `DeleteScript`, ..., `WipeScript`). A query is a script of
looks, one per stage of `check_domain` (`LookBypass`, `LookWhite`, `LookMemo`,
...), then what it writes back (`Memoise`, `LearnWhite`, `LearnBlock`). Threads
advance independently, so every interleaving between lock regions is explored.
The environment expires memo entries, changes the hour (schedule windows), swaps
the threat feed and the feed's exact whitelist in two separate steps, and
restarts the process, which replays `disk`.

`want` is a history variable: what the administrators asked for, call by
call. `Intended(rules, name)` is the documented hierarchy computed from it: the
reference the answers are compared with. A query is `clean` if no handler, hour
change or sync overlapped it.

Left out: heuristics and AI stages, the feed's wildcard whitelist, editing of schedule
rules, log caps, the instant shield and the blocking switch (`Shield`, `Answers`), and the bloom
filter's false positives (its hashing is taken as exact). The log is the set a
replay yields; that appends survive is `Wal`'s subject.

### Singleflight and Coalesce

A caller locks the map and either finds a sender and subscribes (`Join`) or
inserts one and becomes the leader (`Lead`). `LookupEnds`, `Finish` (send, then
the guard's drop removes the entry) and `Receive` are the normal path;
`CancelLeader` and `CancelFollower` drop the future at its await, which runs the
guard. The refinement mapping in `Singleflight` reads the group of a key off the
map and the receivers; `Coalesce` has one action that gives a whole group its
outcome.

### Hedge

The three nested `select!` blocks differ in what they poll and which timer they
race, so these are the state: `polled`, `timer`. `consumed` is what a `select!` has
already taken. The number of nodes the ranking offers is 0 to 3.
`PollConsumed` is tokio's panic on polling a finished `async fn`.

### UpstreamPool

Nodes are shared by `Arc` between the pool, the ranked copy and tasks, so a node is an
identifier (a resolver and a generation) and `heap` says what it holds: errors,
latency, parity of consecutive successes. Only nodes of the pool, or of the list about
to become it, can be observed, so `heap` keeps just these. Each actor, the syncs and the one
probe loop, has a place (`pc`): a sync is `Fetch` (the feed and the candidates'
write), one `Ask` per candidate, `Install`; the loop is `ProbePool`, one `ProbeNode` per
node, `CheckPool`, `ReadActive`, `ListCandidates` (three lock regions), `Ask`,
`PlanPromotions` (the snapshot) and `WritePool`. Both end in `recompute_ranks`: `CopyPool` and
`StoreRanks`, between which the actor holds the read lock (`WriterMayEnter`).
`RecordSuccess` may stop between the load and the store of the error count (`healing`).
`SpeedChanges` is the world.

Latencies are ticks of 170 ms. Left out: the order inside the pool and the ranked copy
(where it decides, the choice is nondeterministic), percentiles, what `resolve_race` sends (`Wire`),
queries that still hold a node of an older ranking. A feed is a set, so it lists no resolver twice.


### Answers

One name and type, since nothing relates two keys of a cache. A query is a task that
goes through the stages of `process_dns_wire_packet_full` (or of
`doh_json_handler`): the look at the settings (`ArriveDenied`, `ArrivePassed`), the
negative cache and the shield (`Shielded`, `NegativeHit`), Safe Browsing, the positive cache
(`Hit`, `StaleHit`, `Miss`), the lookup, the checks of what came (`RefuseBogus`,
`RejectFlux`, `RejectPrivate`) and the store. Each `await` of the code is a step
boundary, so an administrator's change and its flush (two steps: `SetRule` and the like, then
`Flush`) may fall between any two stages; `StaleHit` and `Prefetch` start a background
lookup which is a task like the others. `AgePositive` and `AgeNegative` are time.
`told` holds what this step answers and, as history, what the settings said at some moment of
its query (`Climate`); `AnswersMatchPolicy` compares the two.

Left out: heuristics and the AI stage; the guards for fast flux, bogus signatures and
wrong questions are verdicts taken at random; eviction by size (an entry that is gone is one
that was never there; `Wire` has it).

### Wire

A message is an identity (id and letter case of its question), the three counts of its header and
one sequence of records, as on the wire, where only the counts say where a section ends:
a count that is not kept in step with the records shows. `Ask` is what becomes of a client's
question (EDNS, DNSSEC bit, subnet and cookie options), `FlightAnswers`, `RaceAnswers`, `RootAnswers` the
answers of the three ways to look a name up, `AnswerFresh`, `AnswerStale`,
`AnswerLocally`, `AnswerFast`, `AnswerInstantly` what is sent. `was` is history: the TTL a record had
upstream, and `by` says who stored an entry. The flight has background lookups in it too (`awaiting`): the renewal that
`AnswerStale` starts and the prefetch of a name somebody is expected to ask for (`LookAhead`). Each of those that wait
stores the answer, a question's and a renewal's by the answer's own TTL (`Entry`), a prefetch's for a fixed `PrefetchLife`
(`Prefetched`); which is stored last is open. `Evict` is a full cache, a flush or a grace that
ended early, at any moment. Which way a query takes, what a flush or the rebinding guard does to it, is `Answers`' business
and a choice here; so is what the TTL learner has come to (`Smart`).

### Names

A message is a sequence of items (label, pointer, end, rest) that a peer writes,
compresses and may cut; `ParseName`, `SkipName`, `SplitLabels`, `QueryLabels` are the functions of
`dns/parser.rs`: a loop is a function of the number of its passes (`Reading`, `Splitting`, `Unescaping`), one pass of
which is `ReadItem`, `SplitAt`, `Unescape`. `places` is history: the names that were written and where. No step
changes what was written, so every state is one input; together they are all inputs up to the bounds.

### Denial and Anchors

`Denial`: every zone over the names `Canon`, which a cfg lists in their canonical order (here apex, `*`, `b`, `a.b`;
`DenialAssumption` says it is that of RFC 4034, which `Precedes` states apart from the code's comparison), every order
of their hashes, hashes the code will not compute among them (`unhashed`: more than 150 rounds, another algorithm), every
question, and as answers what the zone's own server says (`Answer`, `Deny`, `Dangle` for an alias whose target is
missing), any set of at most `MaxRecords` of the zone's records (`Mistake`) and signatures with every fault the code looks at. A
name whose first label is `Asterisk` is a wildcard: it gives its types to the names that do not exist below its
parent (`Synthesised`, `Given`). `Validate` is `validate_dnssec`. The zone's server is external; it is the reference for what
is true of the zone. Left out: delegations, and with them the opt-out of NSEC3 and the denial of a DS; aliases to
names of other zones; answer codes other than NOERROR, SERVFAIL and NXDOMAIN.

`Anchors`: two tasks (boot, cron) each fetch the list and its signature in two steps, between
which IANA may publish another edition; `VerifySmime`, `Usable` and `Update` follow
`sync_from_iana`.

### RateLimit

A thread reads the clock (`Enter`) and then takes the identity's and the address's lock
(`AskIdentity`, `AskCeiling`), so times reach a bucket out of order. `Prune` and `Clear` visit
bucket after bucket. `budget` is history: a bucket that is never pruned, refills at each tick,
and gets back the time that an older clock reading takes from `last_refill`.

### Auth

Machines share the secret, not their clocks. A token is what is signed (time, lifetime, scope);
`Role` is `check_auth` with the places a request may carry a candidate in. Nothing in the program revokes a token.

### Shield

The four handlers and the boot, each a sequence of steps: the sources' store, the fetches (each may fail), the three
stores under three locks, the log records. `Overlap` says which calls may be under way together.

### Update and Cron

`Update`: the files a boot may find (`/amardns`, its `.bak` and `.download`, the same under `/data`, archives by
version), torn while they are written; `Install` follows `perform_download_and_install` file operation by file operation,
and a crash may come between any two (`CrashIn`). The rename of the download succeeds: the copy that follows a failed one
(`system.rs:3026`) is not modelled. `Bootload` is `main()` up to the `exec`. `wanted` is history: the release that was installed last.

`Cron`: the sleep, the stamp that is written before the work, the guard after it and restarts at any
tick of a day. A tick stands for half a minute and a day has few of them.

### Feeds

A version stands for what the feeds hold. A loop fetches block list and whitelist (each may fail),
swaps the block filter, then the three whitelist filters one after the other, and goes on until one succeeded; triggers
while `is_feed_syncing` is up are dropped.

### Listeners

One listener of any transport: permits, a connection's PROXY header, its reader, a task per
query, the bounded channel and the writer; or, on doq, doh3 and https, a stream per query. A client may stop sending,
stop reading, do both or vanish, at any time.

### Certs

Each machine has a supervisor and a resolver; one without a certificate also has a poller. A certificate is a number, its key
has the same. The supervisor checks its files, asks its peers for theirs, takes the lock on itself
and then on each peer (`Grants`, `Lapse`), orders, proves by a TXT record, writes two files one after the other, loads
them and releases. Calls and their answers may be lost, orders fail, writes fail, machines
restart, certificates expire, a domain is added; each costs one of `MaxFaults`.

### Ddns

Two runs (boot and cron) discover the addresses by resolvers and echo services, compare each domain
with what public resolvers see and update it at its provider; the host may move, calls may fail.

### MCParts, MCLive, MCMachines

The modules above share no variable with one another: where one needs another's result it is
an input. Exploring their product would say nothing more than exploring each, so
each of these three modules holds several of them, chooses one in
the initial state (`part`) and lets the others rest. The states are the sum of the parts'
states. Bounds are in the cfg; what a cfg cannot write
(sequences) is defined in the MC module and named there.
A single part is run with `Part = {"wire"}` in the cfg.


## 3. The regular runs

Measured on two workers. `wal_crash`, `wal_faults`, `rules_*` and `pool*` check deadlock; the three
runs of several parts do not, since a part stops at its bounds (questions asked, names
written, releases installed).

| Run | Properties | Instance | Distinct states | What it shows |
|---|---|---|---|---|
| `wal_crash` | TypeOK, AckedIsDurable, EventsInOrder | 2 entries (one of them a source), 2 compactors, 3 records, 3 events, channel and batch of 2 | 1.1 M | list calls survive crashes at any step, through failing compactions; the event file is a gapless piece of the accepted stream |
| `wal_faults` | EventsIncrease, EventsDrain, CompactionEnds | 1 source, 2 compactors, 1 record, 2 events, every fault | 128 k | whatever fails, events come neither twice nor out of order, leave memory, and compactions end |
| `rules_serial` | AnswersMatchRules, RulesSurvive | 1 thread, add/delete on 3 lists, DoH and port 53 | 48 k | after any history of calls, learning, eviction, expiry, sync and restart a query is answered as the hierarchy says |
| `rules_parallel` | AnswersMatchRules | 2 threads, adds | 331 k | overlapping adds and queries leave nothing behind that a later, undisturbed query would be misled by |
| `rules_all` | TypeOK, FeedStopsUnlisted | 1 thread, calls of every kind, a parent rule in the feed | 1.5 M | no sequence of calls, windows, syncs and restarts exempts a name from the feed that nobody listed |
| `pool` | TypeOK, PoolSound, RanksCurrent | pool of 2, 2 resolvers, one sync | 1.6 M | the pool is never empty, too large or doubled; the ranked copy is the pool once all have ranked |
| `pool_live` | PoolHeals | pool of 1, 2 resolvers, one sync, a reset | 369 k | once the world stays put dead resolvers leave the pool for good |
| `parts` | PartsTypeOK and the eleven below | ten parts | 1.4 M | safety of the parts |
| `live` | LiveTypeOK and the nine below | five parts | 53 k | safety and liveness of the parts |
| `machines` | MachinesTypeOK, CertificatesArrive, RecordsArrive | 2 machines; 1 domain, 2 runs | 848 k | whatever is lost, fails or restarts a bounded number of times, every machine ends up with a certificate that is not about to expire, and every record with the host's addresses |
| `rules_holepunch` | HolePunch | a wildcard whitelist and an exact block | violated | finding 1 |
| `hedge_panic` | NeverPanics | 0 to 3 nodes | violated | finding 2 |

The properties of `parts`:

| Property | Part | What it says |
|---|---|---|
| AnswersMatchPolicy | Answers | an address is only told if the policy passed the name at some moment of the query, a denial only if it denied it then, whatever caches and background lookups do |
| MessagesWhole | Wire | what is sent parses, has its counts right, bears the client's own id and question with at most one OPT (asked for or not), and fits a datagram; what goes upstream asks for DNSSEC records |
| TtlsBounded | Wire | age and told TTL of a record add up to no more than the TTL it had upstream or the life of its entry, if that is longer: by the first answer's TTL, the minimum, the life without answers or the fixed life of a prefetch; stale, plus the grace and the capped TTL |
| NamesKept | Names | a name survives parsing, its text and the way back; the parser and the skipper agree where it ends; a cut name is noticed |
| DenialsJudged | Denial | no records of a zone prove that data a name itself has is absent, and an honest server is believed, but for the replies `Excepted` lists; data that a wildcard gives is not safe (section 4) |
| BudgetHolds | RateLimit | no bucket has more to give than burst and time justify, though buckets are pruned, cleared and asked with times out of order |
| TokenTravels | Auth | a token opens its path on every machine within the clocks' tolerance for its whole life, and nowhere after it |
| SavedIsStored | Shield | at rest a restart would restore the sources and the switch in force |
| AnchorsLive | Anchors | no sync leaves the store with a list that ran out or that another list's signature vouched for |
| UpdatesSafe | Update | a whole binary is always there to start; what was installed keeps running after restarts |
| OnceADay | Cron | the work is begun once for each of a day's times, restarts or not |

and of `live`:

| Property | Part | What it says |
|---|---|---|
| OneFlight, Implements | Singleflight | one lookup per key; `do_call` implements `Coalesce` |
| HedgeSound | Hedge | `resolve` gives up only when all it may ask have failed; it polls a finished future only if one failed before both timers had fired |
| LookupsEnd | both | no follower waits for ever, also when its leader is cancelled, and every hedged call ends |
| FiltersKept, FeedsArrive | Feeds | no filter goes back to an older feed; the last feed gets into every filter |
| AsksKept | Listeners | no step loses a query of a client that reads: it stays in hand until its answer is written |
| AsksEnd | Listeners | a query that was read is answered while its client reads; on dot and udp a client that has said its last word gives its permit back |
| CachedEnds | Answers | a denial stored after its flush, and an answer served stale, do not stay for ever |

### Bounds, and why they are enough

`Wal`: `MaxLog` and `MaxEvents` only stop TLC. Two list entries tell "the
latest record of an entry wins" from "any record wins" and one of them as a source
exercises the multi-record call; three events with a batch of two and `EventKeep`
of one make a full batch, a full channel, a drop and a truncated tail all
happen; two compactors are the least that overlap. In `wal_crash` the multi-record call is not
cut in two by a crash (`Faults` has no "partial"): with it sources are lost, see below.

`RuleStore`: `SoftCap`, `HardCap`, `LearnCap` stand for 2000, 2500 and 500. They
are set so that the blocklist is full, evicts and refuses within a few
calls. One or two names and one pattern above them suffice because
`check_domain` looks at one name at a time; lists interact only through capacity and
the log. In `rules_serial` and `rules_parallel` the administrators do not block
a name that the feed holds (`Blockable`), and the feed is a single rule that
does not lose its contents: the cases they leave out are those of
`Rules_relearn.cfg` below and of learned copies that outlive a feed's entry.
`rules_all` has them, for the property that still holds there.
`rules_parallel` has no deletes: that case is `Rules_unblock.cfg` below. `rules_serial` has one thread, no patterns
and no evicting console rules: overlapping calls on one rule, the wildcard stage and evictions are those of
`Rules_clear` with two threads, `rules_all` and `Rules_evict.cfg`.

`Singleflight`: with three callers a key can have a leader and two followers, of
which one is cancelled. A second key shows that keys do not disturb each other. `Hedge`: the
code asks three nodes at most.

`UpstreamPool`: `Gen` has at least four identifiers (`GenAssumption`), enough for every node
anybody refers to: the pool, the ranked copy and the probe loop's list or plan may each hold another node of
one resolver, and a new one is none of the three (proved: `OneEach` of `UpstreamPoolProofs`). `MaxErrors` saturates a counter at the limit that degrades a node: more errors
change nothing but how many heals undo them. `ErrorLimit` is 3 in the code; 1 and 2 reach
the same branches in fewer probes, and `Pool_churn` uses 3. A pool of two with
two resolvers is the least that could hold one twice or have a free place; `pool_live` has a pool of one, so
that a dead resolver and a fast candidate coexist while the premise of `PoolHeals`
(as many fast candidates as places) holds. Its other premise, that no
resolver is slow, is needed: `Pool_churn` shows why.

`Answers`: two tasks in `parts` are a query and the background lookup of another, or two queries that overtake each other;
`live` has one, since `CachedEnds` concerns one entry (with two it holds as well, in 609 k states). One change suffices to
put its flush before or after any stage of a query.

`Wire`: two clients, one of them on a datagram, share one lookup; TTLs below and above the minimum; a limit
at which an answer fits without an option and not with it. A prefetch lives for longer than the shorter of the TTLs, and counts as
a question; with three questions it passes as well (480 k states of `Wire`).
`Notify = TRUE` (questions that carry a record) breaks `MessagesWhole`, see below.

`Names`: three names of two labels, over labels with every special octet; `Steps`, `Jumps` and `Octets` are
reached by the longest of them. The code's limits are 128, 16 and 255.

`Denial`: four names have a parent, a child, a wildcard beside the parent and an apex, and with the parent without data an empty
non-terminal; without the parent and its child, both are the wildcard's to give. A name has types, or is an alias if it is in `Alias` (here the
parent), which may lead to any name that is missing. `Collide` (two keys of one tag) breaks `HonestAccepted`, see below.

`RateLimit`: capacities 1 and 2 make each bucket run empty, refill and overtake the other; the theorem of section 5
holds for all. `Auth`: lifetimes on both sides of the tolerance and of the field's width; `TokenTravels` claims nothing of those the field
has no room for, so that what a lifetime at or above it does is modelled and not judged.

`Shield`: one source that needs a fetch and one that does not, two calls and one restart. `Overlap` has the pairs for
which `SavedIsStored` holds; those it does not are in the further configurations.

`Update`: three releases: the image's, an older and a newer one; a host that puts the root file system back at each start and one that never does.
`Cron`: twelve ticks a day, three days, two restarts: a restart before, at and after the time, on two days running.

`Feeds`: two loops could run at a time if the flag let them, two versions overtake each other. `Listeners`: one connection with three queries, a channel of
one and one permit: full channel and exhausted permits happen at once (two connections: 79 k states, passes too).

`Certs`: two machines can refuse each other, three certificates are the own, the peer's and the next; two faults, of any kind and
anywhere. Pollers double the state space (880 k states with four certificates, passes). `Ddns`: one domain and one move, since domains do not
interact.

### Fairness

`Wal`: weak fairness of `WriterReceive` and of the steps inside a compaction: tasks
that can run are run. Strong fairness of `WriterTick`, `FlushBatch` and
`CompactRead`, which need the mutex or the lowered flag: the tick comes every
100 ms, compactions are seconds apart, and the holders of the (unfair)
`std::sync::Mutex` are few and brief, so each is enabled again and again. Sending
events, starting compactions, crashes and restarts are not fair.

`Singleflight`: weak fairness of a lookup's end, of `Finish` and of `Receive`:
every upstream request carries a timeout (1500 ms) and a woken task is polled.
Calls and cancellations are not fair.

`UpstreamPool`: weak fairness of the probe loop (it ticks every 30 s and every request has
a timeout) and of a sync that has begun; strong fairness of `WritePool` and `Install`, which wait for a
`parking_lot` lock: it keeps new readers out while a writer waits. Queries, syncs, resets
and the world are not fair.

`Hedge`: weak fairness of each attempt (the same timeout) and of the `select!`.

`Feeds`: weak fairness of the daily trigger and of each loop's next step: every fetch has a timeout and the loop sleeps for a bounded time.
Failures in a row are bounded by `MaxFail`: a source that is down for ever delivers nothing.

`Listeners`: weak fairness of reader, writer and tasks, and of a task's answer (resolution ends: `LookupsEnd`). Clients are not fair:
they may stop reading for ever, which is why `PermitReturns` is about dot and udp only, whose writers have a timeout.

`Answers`: weak fairness of an entry's ageing, nothing else: queries may ask for it again and again.

`Certs`: weak fairness of each task's next step (calls have timeouts, the supervisor's sleep ends) and of the lock's lapse after its 600 s. Faults are not fair, and bounded.
`Ddns`: weak fairness of the runs and of the resolvers' caches running out; moves and failures are bounded.


## 4. Findings

1. **A wildcard whitelist defeats an explicit block** (`rules_holepunch`, `state.rs:591`).
   The first query promotes the name to the exact whitelist, which is asked before
   the blocklist; the repository's README says the contrary (line 134).
2. **An upstream that refuses at once aborts the process** (`hedge_panic`,
   `dns/upstream.rs:795`). The failed future is polled again by the next `select!`;
   the release profile has `panic = "abort"`.

### Further configurations

The twelve regular runs are those kept green. The configurations below are kept
for a reader who wants to see other disagreements met while modelling: each checks
one property that TLC violates in a few seconds
(`tlc -config Rules_clear.cfg MCRuleStore`). "as X with" names the constants to change in the cfg X.

| Configuration | Property | What the counterexample shows |
|---|---|---|
| `Wal_tear` | AckedIsDurable | a line torn by a crash has no newline: the next record joins it and fails its checksum with it, though "must be durable" (`wal.rs:268`, `wal.rs:275`) |
| as `Wal_tear` with `Faults = {"partial"}` | AckedIsDurable | a crash inside `save_instant_block_sources` loses sources nobody removed (`wal.rs:359`) |
| as `Wal_tear` with `Faults = {"unread"}` | AckedIsDurable | `compact` takes a log it cannot open for an empty one and renames that over it (`wal.rs:521`) |
| as `Wal_tear` with `Faults = {"reopen"}` | AckedIsDurable | after a failed reopen the writer is `None` and every append is silently lost (`wal.rs:646`) |
| as `Wal_tear` with `Faults = {}`, `Compactor = {c1, c2}`, `MaxEvents = 1` | FlagCoversCompaction | the first of two compactors lowers the flag the second relies on (`wal.rs:675`) |
| as `Wal_tear` with `Faults = {}`, `MaxLog = 0`, `MaxEvents = 6` | BacklogBounded | the batch grows without bound while a compaction runs (`wal.rs:152`) |
| `Rules_clear` | WhitelistIsDurable | clearing the blocklist truncates the log of all lists: `wal.clear()` (`rules.rs:360`) |
| as `Rules_clear` with `Ops <- WithClearWhite` | PurgedForGood | clearing the whitelist does not reach the log (`rules.rs:590`) |
| as `Rules_clear` with `Ops <- WithWipe` | WipeIsComplete | nuclear wipe leaves the bypass list (`system.rs:981`) |
| as `Rules_clear` with `Ops <- ConsoleBlock` | RulesSurvive | console rules are not logged (`console.rs:1341`) |
| as `Rules_clear` with `Ops <- BypassApi`, `Proc = {"t1", "t2"}` | BypassIsDurable | a delete and an add of one rule leave log and list apart (`rules.rs:774`) |
| as `Rules_clear` with `Ops <- AutoBlock`, `Protos = {"doh"}` | AnswersMatchRules | deleting an automatic block flushes no memo (`rules.rs:934`) |
| `Rules_unblock` | RemovalIsFinal | a query that saw a rule before its removal records it again, as "manual", in memory only (`state.rs:577`) |
| `Rules_evict` | AnswersMatchRules | console rules are evicted first (`console.rs:1346`, seconds against milliseconds) |
| as `Rules_evict` with `Ops <- ConsoleUnblock`, `Domain = Blockable = {"ads"}`, `Feed = {}` | AnswersMatchRules | the console's unblock leaves the name in the bloom filter (`console.rs:1370`) |
| `Rules_relearn` | BlocklistIsDurable | a rule for a name a detection recorded is "already there" and never logged (`rules.rs:222`) |
| as `Rules_relearn` with `Ops <- AddWhite`, `Domain = {"ads"}`, `Pattern = {"*.corp"}`, `Covers <- Nested`, `Feed = {}` | WhitelistIsDurable | the same of a name that a wildcard let in (`rules.rs:462`) |
| as `Rules_relearn` with `Ops <- AddWhite`, `Pattern = {"*.corp"}`, `Covers <- Nested` | WildcardBeatsFeed | an exact feed name is refused before wildcard whitelists are asked (`state.rs:988`) |
| as `Rules_relearn` with `Ops <- ConsoleWhite`, `Protos = {"plain"}` | ApprovalsWin | port 53 asks the memo before the whitelist and the console does not flush it (`plain.rs:221`) |
| as `Rules_relearn` with `Domain = Blockable = {"ads"}`, `Feed = {}`, `Ops <- None`, `Windows = {"ads"}` | CustomBlocksAreCustom | a time-window refusal becomes a permanent custom block (`doh.rs:822`) |
| `Live` with `Part = {"flight"}` | FailureIsReal | followers of a cancelled leader fail although no lookup did (`upstream.rs:59`) |
| as `Hedge_panic`, without the deadlock check | EveryAttemptCounted | attempts that lose the race are counted neither way (`upstream.rs:795`) |
| `Pool_churn` | PoolQualifies | "promote fastest healthy candidates" (`upstream.rs:1149`): candidates are sorted by aura first and their own latency is not asked, so slow ones of high aura replace each other for ever and a fast one never gets in (`upstream.rs:1196`) |
| `Pool_stale` | DemotesOnlyDegraded | a promotion planned before a sync and written after it throws away all the sync installed (`upstream.rs:1272`) |
| as `Pool_stale` with `PoolSize = 1`, `ErrorLimit = 3`, `MaxErrors = 4`, `MaxHealing = 1`, `MaxResets = 1` | HealsOneError | "heal 1 error!" (`upstream.rs:220`): errors recorded between the load and the store are lost too |
| `Answers_off` | OffMeansOpen | "Queries will pass through without filtering" (`console.rs:1683`): a denial cached before blocking was switched off is still given |
| as `Answers_off` | NxIsNotBlocked | the second query for a name that does not exist gets the sinkhole (`doh.rs:1263`) |
| `Certs_torn` | ServedPairMatches | a poller between the two writes loads a pair that does not match (`tls.rs:141`) |
| `Certs_domain` | DomainsCovered | "ALL expected_domains are covered" (`acme.rs:849`): a peer's bundle is taken whatever it names |
| as `Machines` with `Remote = {2}` | CertificatesArrive | a replica outside the primary region that is alone with an expired certificate waits for a leader that has none |
| `Wire_subnet` | SubnetStaysHome | "We do not transmit EDNS Client Subnet" (`ui/pages.rs:678`): `resolve_race` sends the query as it came (`upstream.rs:1440`) |
| as `Wire_subnet` | CookieOnce, FreshWithinTtl, NoReferralKept | a cookie is echoed beside the upstream's (`parser.rs:1401`); an answer lives as long as its first record says (`doh.rs:1483`), or 300 s if it was prefetched (`doh.rs:786`); a referral is cached as an answer |
| `parts` with Wire's `Notify <- TRUE` | MessagesWhole | a blocked NOTIFY is answered with its counts and without its record |
| `parts` with Names' `Steps <- 3` | NamesKept | a compressed name of many labels takes more items than it has labels: 127 legal ones take 129 (`parser.rs:63`) |
| `parts` with a label in `ThreeLabels` that begins or ends with "space" | NamesKept | `split_domain_labels` trims the whole name before it divides it (`parser.rs:2078`): an octet of the first or the last label is lost when a question is built from the text |
| `parts` | NoHalfName | "immediately following the domain name" (`parser.rs:21`): a name cut by the message's end is taken |
| `Parts` with `Part = {"denial"}` | PeculiarAccepted | a zone signed by an algorithm the code does not know is judged bogus, not insecure (`dnssec.rs:1114`) |
| the same | WildcardsKept | "denial of existence for NXDOMAIN" (`dnssec.rs:1266`): that the name is covered is enough (`dnssec.rs:1292`, `1360`), though a wildcard of the zone gives it data and its record was not denied |
| the same | AliasesAccepted | an alias to a missing name is judged by the denial of the alias, which is there (`dnssec.rs:1532`): bogus |
| the same with `Collide = TRUE` | HonestAccepted | of two keys with one tag only the first is tried |
| `parts` with Shield's `Overlap` of `{"save", "sync"}`, `{"save", "clear"}`, `{"sync", "clear"}`, `{"toggle"}`, `{"save", "boot"}` or `{"clear", "boot"}` | SavedIsStored | the later store in memory is the earlier one in the log (`system.rs:545`) |
| `parts`, two saves | RulesOfSources | two compilations store domains and wildcards of different sources (`state.rs:947`) |
| `Update_persist` | UpdateStays | on a root file system that survives some restarts an older `/data/amardns` takes over (`main.rs:100`, `system.rs:3036`) |
| as `Update_persist` with `Requests = {"install", "bare"}`, `Host = {"always", "never"}` | BaseRuns | the base binary can be removed by its bare name (`system.rs:2401`) |
| as `Update_persist` with `Requests = {"install", "rollback"}`, `Host = {"always", "never"}`, `CrashIn = {"restore"}` or `{"restoring"}` | BaseRuns | a rollback moves the active binary away and copies the other over its place: a crash in between leaves none, or half of one (`system.rs:2331`) |
| as `Update_persist` with `Requests = {"install", "rollback", "drop"}`, `Host = {"always", "never"}`, and `CrashIn = {"saving"}`, `Hasty = TRUE` or two updaters | BaseRuns | a copy of the binary torn by a crash is rolled back to (`system.rs:3015`); a request beside another, or in the 0.8 s before a scheduled restart, takes away what that one is to start (`system.rs:3061`) |
| `Cron_dst` | FiresOnTime | "sleeps precisely until each daily firing time" (`main.rs:376`): the zone's offset is what it was at the start |
| as `Cron_dst` with `MaxReboots = 1` | OnceADay | after a change of the offset a restart computes the day's time anew: it comes twice, or not at all (`main.rs:171`) |
| a module as `MCMachines` that checks Ddns' | OnlyAnycast, UndiscoveredKept | an echo service tells the machine's own address; Dynu switches off a family that was not discovered (`ddns.rs:300`) |

Others were seen and are stated where they are modelled: an order that fails leaves its TXT record published
(`acme.rs:1110`), and the honest replies that `Excepted` of `Denial` names: of empty non-terminals and one-name zones
(`dnssec.rs:387`, `1373`), of zones hashed more than 150 times (`652`), and that a wildcard has not the type (`1332`, `1373`).


## 5. Proofs

`tlapm` checks every one of these for all values of the constants that the module's
assumption allows.

`WalProofs`
: `TypeCorrect`: `Spec => []TypeOK`, for any entries, sources, compactors, bounds and faults.
: `Durability`: `Reliable => (Spec => []AckedIsDurable)`, where `Reliable` says that the
  constant `Faults` holds none of "tear", "partial", "unread", "reopen". TLC
  shows that each of these breaks it, so the assumption is as weak as it can be; "temp" and
  "rename" may fail (`Reliable == Faults \subseteq {"temp", "rename"}`). The inductive
  invariant is `TypeOK /\ MutexInv /\ DurableInv`. `AckedIsDurable` alone is not inductive: a
  compactor holds an image of the log between its read and its rename, and only because it
  owns the mutex from one to the other (`MutexInv`) does the image still replay to the
  acknowledged lists when it replaces the file (`DurableInv`). The lemmas about `Replay`
  say what a record appended at the end and what the concatenation of two logs replays to.
: `EventOrder`: `Reliable => (Spec => []EventsInOrder)`. `EventInv` splits what entered the
  channel into what was written, the batch and the queue, and what was written into a
  beginning that compactions dropped and the events of the file. It is inductive together with the
  invariant of `Durability` (no torn line; a free mutex means nobody compacts) and with
  `ImagesKeep`: the image and the temporary file have the end of the present event file,
  since no flush gets in while a compactor owns the mutex.
: `EventsOnlyRise`: `Spec => []EventsIncrease`, with every fault. `RisingInv` says that the file,
  what is on its way into it (image or temporary file, batch, queue) and the number that
  is sent next rise in this order. That torn lines, lost batches and half-written images take
  something out of the file does not disturb it; a batch that is written again after a failure would.
: `NobodyWaitsInVain` (`[](FlagHasOwner /\ MutexHasOwner)`), for every fault: while the compacting flag is up a
  compactor is at work, and the writer mutex is held by one that is past its signal. It is the safety half of
  `EventsDrain` and `CompactionEnds`: that whoever holds either gives it back on each of the error paths
  of `compact()`, and that the first of two compactors to finish, which lowers the flag for both, leaves nobody
  waiting for the second.

`RuleStoreProofs`
: `TypeCorrect` (`[]TypeOK`) and `OnlyAdministratorsExempt` (`[]FeedStopsUnlisted`), for any
  names, patterns, threads, administrators' calls, feeds, windows and capacities. The assumption
  on `Covers` says that a pattern above a name that is itself a pattern above another covers
  that one too, as suffixes do. `FeedStopsUnlisted` is about the answer; the
  invariant `IInv` is about everything an answer may come from. `Exempting`: the whitelist, the
  bypass list, `whitelist_exact` and their log hold only what `ever` covers, though a
  learned name is not itself in `ever`. `Justified`: a script that is about to learn a name, or to copy
  one into `whitelist_exact`, has seen or written the rule that exempts it, and what the feed held all
  along is still in the bloom filter. `Scripted`, the part of the type invariant that is not a range,
  says what may stand where in the rest of a script (the learning step only
  where the look that matched put it), without which a step's origin is forgotten. `rules_all`
  checked `IInv` before it was proved.
: `RulesOutliveRestarts` (`Orderly => (Spec => []RulesSurvive)`). `Orderly` leaves out the calls that do
  not log (console, clear, wipe), rules that a query may learn by itself, wildcards above a
  whitelist that is added to, and deletions beside another thread; each of the four breaks it (section 4).
  `SInv`: log and rules asked for agree but for the rules of a call between its append and its
  change of the list (`Agree`, `Pending`), and what a list holds was asked for or learned (`Held`), for
  a handler does not log a rule that it finds in its list.
: `AnswersFollowRules` (`Faithful => (Spec => []AnswersMatchRules)`). `Faithful` adds that no automatic block
  evicts, hours and feeds do not come and go, no rule above a name is deleted, and port 53 is not
  served beside another thread; without any one of these TLC finds a history that misleads a query. `AInv` has two halves. `Exact`:
  the lists are the rules asked for, and what was learned or memoised besides is `Caught` by those and the feed. `Passed`:
  what a query that nothing overlapped knows by the step of its script it stands at (`Knows`: past the
  bypass list no bypass matches, and so on), which at its last step is `Intended`. That the steps
  come in this order (`Ordered`) is part of the invariant.

`LiveProofs`
: `TypeCorrect`, `SingleFlight` (`[]OneFlight`), `NobodyStranded` (whoever waits has a
  leader at work on its key, after cancellations too: the safety half of `LookupsEnd`) and
  `Refinement` (`Spec => Coalesce!Spec` under the mapping), for any callers, keys and
  answers. The inductive invariant is `TypeOK /\ MapInv /\ WaitersHaveLeader`: a map entry exists
  exactly for the keys with a live leader, and a receiver that waits is subscribed to one. Without
  it a follower could join an entry whose leader is gone, which the refinement could not match.
: `OneLoopAtATime` and `FiltersAreKept` (`FeedsSpec => FiltersKept`), for any number of
  triggers, versions, failures and restarts. The invariant `FeedsInv` says that a running loop owns
  `is_feed_syncing` (`OneLoop`), and that what it fetched is no older than the filters
  it is going to replace (`Newer`): nobody else has changed them since the fetch.
: `FeedsTypeCorrect` (`[]FeedsTypeOK`) and `TriggersServed` (while `is_feed_syncing` is up a loop is at work: the safety half of
  `FeedsArrive`, since triggers are dropped while it is).
: `HedgeIsSound` (`HedgeSpec => []HedgeSound`). `Hedge` has no
  parameters but its timing, and the invariant is worth more than the range: `TakenHaveFailed`, an outcome that was
  taken out of the set was a failure; `EarlyIsKnown`, one that failed before the last timer was noticed there, and
  only such a one is polled again after its end.
: `ListenersTypeCorrect` (`ListenersSpec => []ListenersTypeOK`) and `AsksAreKept` (`ListenersSpec => AsksKept`), for any
  connections, queries, permits and places in the channel. The type invariant has the permits' account in it
  (`PermitsAdd`: what is free and what is held make up the room), so that a permit that is given back twice or never
  would break it. `AsksKept` is about every step, and whether the steps that drop queries drop any depends on what may
  have happened before: `WriterStops` says that a writer is gone only where its client no longer reads or the reader
  is done and every query answered, and `QuietBefore` that a connection that is not open has none. From these two, neither the
  end of a connection (`AwaitWriter`) nor an answer into a closed channel (`HandOver`) can meet a query of a client that reads.
: `LiveTypeCorrect` (`LiveSpec => []LiveTypeOK`) is about `MCLive` as it is run: `LiveInv` is the conjunction of the five parts'
  inductive invariants, that of `AnswersProofs` among them, and `LiveMoves` shows that a step of the composition is a step
  or a stutter of every part.

`UpstreamPoolProofs`
: `PoolTypeCorrect` (`[]TypeOK`), for any finite set of resolvers. `TypeOK` is not inductive in two ways.
  A heal reads the error count and stores it minus one later, so that its range needs
  that only nodes with errors are healed (`HeapTyped`, which says too that nodes not yet created
  hold nothing). And a new node needs an unused identifier: `OneEach` says that the ranked copy
  and the probe loop's list or plan have one node of a resolver each, as the pool has; of four, one is free.
: `RanksAreCurrent` (`[]RanksCurrent`) and `PoolIsSound` (`[]PoolSound`), for any finite set of
  resolvers, and any feeds, syncs and probe results. `RanksCurrent` is not inductive: the actor
  that stores a ranking stores the clone it made earlier. `CopiesCurrent` adds that a clone
  is still the pool as long as its owner holds the lock, since writers wait for all owners.
: `PoolSound` needs two invariants. `DistinctInv`: the planned pool (`next`) is distinct too,
  because candidates are filtered against the snapshot they are added to; that they were
  filtered before against an older one is not needed. `SizeInv`: a sync that is asking has
  somebody left to ask or somebody who answered (`AskedFor`), so that it has somebody to
  install; a promotion's plan `Fits`, because it takes out as many nodes as it puts in
  or fills places that were free.

`AnswersProofs`
: `AnswersTyped` (`[]AnswersTypeOK`) and `AnswersFollowPolicy` (`[]AnswersMatchPolicy`), for any number of queries
  and changes. `AnswersMatchPolicy` is about the reply; what a query has passed on its way is in `Sound`, which
  relates its stage to the settings it has seen: one that looks up has seen the name pass and the
  shield off, one that is about to store a denial has seen it stand. `Stands` is what
  that denial rests on (a rule, the shield or a flush still owed), and not the blocking switch: switching
  flushes nothing, and the reply of a denial that was cached before is allowed as "lenient". `NegativeStands`
  carries it over to the cached denial: one that no longer stands was flushed, or was stored late by a query
  that began before the flush. TLC checked the conjunction (609 k states) before it was proved.

`MessageProofs`
: `TtlsStayBounded` (`[]TtlsBounded`), for any TTLs upstream may declare and the learner may come to, any
  clients, any size of a datagram and any life of what is prefetched. The invariant `TtlInv` is about the entry (`Kept`): its records have the TTLs
  they came with, and it is fresh no longer than `Life` says of its first answer and of who stored it, whichever of those that
  waited for the flight was the last to store (`StoredKept`, `PrefetchedKept`). The rest is what the operators make of
  a message: `AgedIs` and `CappedIs` (which TTL a record has after `decrement_response_ttl` and
  `cap_response_ttl`), and `SentFrom` with `LifeSame`: a datagram that was extended and cut still has
  the kept message's first answer, if it has any record.
: `MessagesStayWhole` (`Notify = FALSE => []MessagesWhole`), for any clients, TTLs and limits. With `Notify = TRUE` it is
  false (below), so the hypothesis is the weakest of its kind. `WholeInv` says what clients hold is a question
  of their own, the kept message is well formed, and the reply kept by the instant shield fits into a datagram (`Roomy`):
  `AnswerInstantly` and `AnswerFast` send without truncation. That a reply of the server's own with
  its EDE fits is why `WireAssumption` asks for four units. `Length` is a fold; it is unfolded only for
  the server's own replies (`LengthOfOne`, `LengthOfTwo`), for the others it is enough that it depends
  on the records alone and that there is a largest number of answers that fit (`LargestIs`).
: `DenialsSound` (`DenialSpec => []DenialSound`) and `DenialsAreJudged` (`Collide = FALSE => (DenialSpec => []DenialsJudged)`), for any
  list of names that satisfies `DenialAssumption`, any zone over them, any order of hashes and any number of records.
  Wildcards and hashes that are refused are among them. For a name that a wildcard gives its data the first claims nothing of an
  NXDOMAIN, since there the code does deny what is there (`WildcardsKept`, section 4); the second leaves out what `Excepted` names.
  `Collide = TRUE` breaks the second (section 4). `DenialInv` says what the zone is (`ZoneOK`) and what an honest reply
  consists of (`HonestDenial`, `HonestDangling`, `HonestAnswer`); `HashesAre` and `AbsenceIs` say what a hash is and which record
  shows that a name is not there itself; the rest is about operators. The code's comparison of names, `CanonicalLess`, agrees with
  `Precedes` (`LessIfPrecedes`, `LessOneWay`), which no run could show for more than its names. The owners in order of rank are
  a ring: the next of each is the nearest above or, from the last, the first (`AfterIs`), so that no record covers
  an owner (`OwnersUncovered`), from which `ConvincedIsRight`; and every name that is no owner is covered by one (`AroundCovers`), from which
  `ProofConvinces`: the code finds the closest encloser the server meant.

: `NamesTypeCorrect` (`[]NamesTypeOK`) and `NamesAreKept` (`Readable => (NamesSpec => []NamesKept)`), for any labels and any
  bounds. `Readable` says that the reader's two limits have room for the names (a name of `MaxLabels` labels that
  refers to names before it takes at most `MaxLabels + MaxNames` items, and a chain of pointers has at most one for each
  earlier name) and that no label begins or ends with a space; without the first or the last TLC finds a name that is
  misread (section 4), and the run's bounds satisfy it. `NamesInv`: every place is the start of a name that is `Laid` out from there, a stretch
  of labels and then the end or a pointer to an earlier place that reads as the rest (`Levels`: places have
  levels, a pointer leads to a lower one, and the levels are no more than the names, which bounds the pointers on any
  way); and as long as a message is `Uncut` (it ends with what follows a name) all its places are whole, so that a name which is
  continued by a pointer always finds the end of another; after the cut nothing is added. The loops are recursive functions
  over a number of passes. `Induct` is induction over the naturals for a set, `Recursion` says that such a function is the one
  that obeys its recursion; one lemma for each loop (`SizesIs`, `TextsIs`, `SplittingIs`, `UnescapingIs`, `ReadingIs`) cites it.
  `LabelUnescaped` and `TextSplit` then show that escaping a label and reading it back is the identity up to the case of
  letters and that the dots of a text divide it where its labels end, from which `TextReturns`; `TrackAll`, that the reader
  follows the levels down and has the text of a name's first labels when it has passed them.

`MachinesProofs`
: `MachinesTypeCorrect` (`MachinesSpec => []MachinesTypeOK`), for any machines, certificates, domains, addresses and bounds. The type invariant of
  `Certs` is inductive as it stands; that of `Ddns` is not, because what a run holds of the addresses it discovered is what it later
  writes (`SyncTyped`). The steps of the lock (`TakeLocal`, `Ask`, `CallLost`, `Release`, `Unlock`, `Lapse`) keep each machine's lock a
  machine's or nobody's, and a fallback to the second CA (`GiveUp`) happens only where there is one.
: `SupervisorsStaySound` (`MachinesSpec => []SupervisorsSound`) is the safety half of `CertificatesArrive`, with every fault, lapse and restart: a
  machine that waits for another's order is a replica or there is one with a lower id (whoever denies the lock has a lower id,
  so the lowest is never denied, and no machines deny each other for ever); `ca` names an order exactly from the account to the
  release, and is none while a machine synchronises, so that what comes from a peer is written without giving up an order and
  without emptying the challenge's record; and no call of the lock outlives the step it belongs to. Mutual exclusion of the orders
  is not claimed: a lower id takes the lock from a machine that works. TLC checked the invariant with two machines, one a
  replica and one with a poller, two CAs and two faults (16.7 M states) before it was proved.

`PartsProofs`
: `RateTypeCorrect` and `BudgetNeverExceeded` (`[]BudgetHolds`), for any identities,
  threads, capacities and rates, as long as `RateAssumption` holds: a bucket that is idle for
  so long that it is pruned would have been full, which the defaults satisfy by far.
  `BudgetHolds` is not inductive: it speaks of threads that read the clock now, and a thread that read it
  earlier draws from what there was then, while what was refilled since stays above the
  capacity. `Covered` says how far above: by the refill of at most `MaxLag` ticks.
: `TokensTravel` (`AuthSpec => []TokenTravels`), for any machines, paths and lifetimes, and clocks that differ by
  no more than the code's tolerance of one (`AuthAssumption`). `TokenBorn`: the time stamp of a token is at
  most that ahead of the moment it was issued.
: `StoreStaysLive` (`AnchorsSpec => AnchorsLive`), for any number of overlapping syncs, editions and
  restarts. `AnchorsInv`, that syncers and store hold only what was published, is
  the type invariant; the action property follows from the check of the one step that stores.
: `LogHasShield` (`Apart => (ShieldSpec => []SavedIsStored)`), for any administrators and sources. `Apart` says that
  `Overlap` has none of the pairs that TLC shows to break it (below), so it is as weak as it can be.
  `ShieldInv` says who may be under way at a time (`OverlapAllowed`), that a log that differs from memory has a
  call that is about to write it (`Written`), and what a call still carries agrees with memory (`Agrees`).
: `UpdatesStaySafe` (`OneAtATime => (UpdateSpec => []UpdatesSafe)`), for any number of releases and any image. `OneAtATime`: the root
  file system is put back at every start or at none, one administrator works at a time, waits
  for a scheduled restart and does not remove the binary by its bare name, and no crash comes while
  `.bak` or `/amardns` is written as a copy (`CrashIn`). Each of them is needed: section 4 has what TLC finds
  without it. Crashes in all other steps of an installation are covered. `UpdateInv` says that the binaries are
  whole whenever no request writes them (`Rested`; the volume's may be torn as long as nobody
  runs it: the bootloader hands over to a whole one only), what a request has done by the step it is at (`Underway`), and
  where the release lies that has to stay, such that the next start takes it from there (`Stayed`).
: `WorkIsDaily` (`Steady => (CronSpec => []OnceADay)`), for any length of the day, the minute, the guard and the
  window within `CronAssumption`, any number of days and of restarts. `Steady`: the zone has one
  offset; with two TLC finds a counterexample. `CronAssumption` holds for the code's minute,
  61 s and 90 s if a sleep ends less than a minute late and the work takes less than a day but for two minutes.
  `CronInv` says that what was begun was begun in the day's minute, that a sleep ends for the next time
  after the last run (`Sleeping`), and that each time of the process's life was served or is what it sleeps
  for (`Met`). The lemma `DayTurns` says how the time of the day moves, for a day of any length; from it, two
  moments in the day's minute that are less than a day apart are in one minute (`SameMinute`).

: `PartsTypeCorrect` (`PartsSpec => []PartsTypeOK`) is about `MCParts` as it is run, as `LiveTypeCorrect` is about `MCLive`: a step of the
  composition is a step or a stutter of each part (`PartsMoves`), and `PartsInv` conjoins an invariant of each. Where the
  theorems above have a hypothesis these invariants have none: `ShieldTypes` holds whichever calls overlap (a call never stores rules of
  a source it was not given), `UpdateTyped` on any host, with any requests in hand and any crash (an archive may be torn, what
  runs, is restored or has to stay is a release), `CronTyped` for a zone that changes its offset (no run, stamp or start is later than
  it is). For `Wire`, `WireTypeCorrect` (`[]WireTypeOK`, in `MessageProofs`): in particular somebody, a client or a background lookup, waits exactly as
  long as a lookup is under way, with `NOTIFY` too. The denials alone are spoken of only where they run: `PartsInit` lets them rest on
  a zone that is none.

Only model-checked: all liveness (`EventsDrain`, `CompactionEnds`, `LookupsEnd`, `PoolHeals`, `FeedsArrive`, `AsksEnd`, `CachedEnds`,
`CertificatesArrive`, `RecordsArrive`; fairness is beyond the prover). Every safety property of the regular runs is proved. `AckedIsDurable`, `EventsInOrder`,
`AnswersMatchRules`, `RulesSurvive`, `MessagesWhole`, `NamesKept`, `SavedIsStored`, `DenialsJudged`, `UpdatesSafe` and `OnceADay` are proved under the
hypotheses above; outside of them they are broken (the further configurations).


## 6. Plan

Done, most important first: `Wal` (all persistence goes through it), `RuleStore` (what the product
is for), `Singleflight`, `Coalesce`, `Hedge` (every answer goes through them), `UpstreamPool`
(every answer comes from it); then `Answers` and `Wire` (what a client sees), `Shield`, `Certs`,
`Update`, `Feeds`, `RateLimit`, `Listeners`, `Cron`, `Names`, `Denial`, `Anchors`, `Auth`, `Ddns`.

There are about a dozen regular runs so that they stay quick; a new part joins one of `parts`,
`live` and `machines`.

Proofs that could come next: a bound on what a lookup may cost (the rounds of `Hedge` and `Coalesce` together),
and `ServedPairMatches` for a machine with one writer and no failed write.

Models that could come next: the learning stores as counters with bounds, schedule-rule editing as
further scripts of `RuleStore`, the connection keepalive and shutdown order of `main.rs`.


## 7. Not modelled, and why

Heuristic scores, the AI stage and what Safe Browsing answers: floating point and remote services;
they act on the rest only by their verdicts, which are taken at random. The learning stores (TTL statistics, passive DNS): estimates
whose result is an input of `Wire`. Telemetry, log lines, pages, chat: read by people only. Configuration: read once.

Of what is modelled: the bytes of ASN.1, keys and signatures (a signature is valid or not), record data other
than addresses, moka's choice of the entry it evicts and the byte counters for display, the rate limiter's lock
striping, the bloom filter's hashing, TLS handshakes and socket options, the DNS providers' and
release server's HTTP (their calls succeed, fail or are lost).
