-------------------------------- MODULE Wire --------------------------------
(***************************************************************************)
(* The messages on their way: what src/src/dns/parser.rs makes of a        *)
(* client's question before it goes upstream, what is kept of the answer   *)
(* by src/src/dns/cache.rs, and what is made of it, or of the question     *)
(* itself, for the client.  Which of these a question gets is the business *)
(* of the modules Answers and Hedge, and a choice here.                    *)
(*                                                                         *)
(* A message is its identity (transaction id and the casing of its         *)
(* question, which go together), the three counts of its header and one    *)
(* sequence of records: as on the wire, only the counts say where a        *)
(* section ends.  Upstream messages are taken to be well formed.  Lengths  *)
(* are in units: one for header and question, one a record, one an option. *)
(***************************************************************************)
EXTENDS Naturals, FiniteSets, SequencesExt

CONSTANTS
    Client,        \* the clients
    Udp,           \* those that ask over plain UDP; the others have streams
    Declared,      \* the TTLs upstream may declare
    Smart,         \* the TTLs the learner may have come to (ttl_learner.rs)
    MinFresh,      \* 10 s: what insert_with_grace_allowed raises a TTL to
    Unanswered,    \* 300 s: the life of a message without answers
    PrefetchLife,  \* 300 s: the life of what is prefetched, whatever its TTLs
    Grace,         \* the longest an entry is served stale (the learner may make it shorter)
    StaleTtl,      \* 5 s: the most a stale answer's TTL is told to be
    Limit,         \* 1232 bytes: the largest datagram
    Notify,        \* whether clients send questions that carry a record (NOTIFY, UPDATE)
    MaxAsks        \* bound: the questions asked

\* A datagram has room for a reply of the server's own with an option.
ASSUME WireAssumption ==
    /\ Declared \subseteq Nat /\ Smart \subseteq Nat /\ Client \cap {"nobody", "brain"} = {}
    /\ {MinFresh, Unanswered, PrefetchLife, Grace, StaleTtl, MaxAsks} \subseteq Nat
    /\ Limit \in Nat /\ Limit >= 4

VARIABLES
    query,         \* the question of each client
    pc,            \* where it is in process_dns_wire_packet_full
    flight,        \* the question of the leader in the singleflight
    awaiting,      \* the kinds of background lookups that wait for the flight's answer
    outbound,      \* the message this step sent upstream
    cache,         \* the entry of the name: a message, its life and its age
    instant,       \* the blocked_cache of the instant shield
    reply,         \* the messages this step sent to clients, and how they came about
    asks           \* counts questions, against MaxAsks

wireVars == <<query, pc, flight, awaiting, outbound, cache, instant, reply, asks>>

Larger(a, b) == IF a > b THEN a ELSE b
Smaller(a, b) == IF a < b THEN a ELSE b

(***************************************************************************)
(* Messages.  `was` remembers the TTL a record had upstream.               *)
(***************************************************************************)
Record(ttl) == [type |-> "rr", ttl |-> ttl, was |-> ttl, wants |-> FALSE, options |-> <<>>]
Opt(wants, options) ==
    [type |-> "opt", ttl |-> 0, was |-> 0, wants |-> wants, options |-> options]
Message(of, an, ns, ar, records) ==
    [of |-> of, an |-> an, ns |-> ns, ar |-> ar, records |-> records]
Nothing == Message("nobody", 0, 0, 0, <<>>)

\* The records a walk of the additional section meets, and the first OPT among them.
Additional(m) == {i \in DOMAIN m.records : m.an + m.ns < i /\ i <= m.an + m.ns + m.ar}
Opts(m) == {i \in Additional(m) : m.records[i].type = "opt"}
HasEdns(m) == Opts(m) # {}
OptAt(m) == CHOOSE i \in Opts(m) : \A j \in Opts(m) : i <= j
Carries(m, option) ==
    \E i \in Opts(m) : \E k \in DOMAIN m.records[i].options : m.records[i].options[k] = option

Length(m) == FoldLeft(LAMBDA sum, r : sum + 1 + Len(r.options), 1, m.records)

Append1(m, record) == Message(m.of, m.an, m.ns, m.ar + 1, Append(m.records, record))
\* ensure_edns0_do_bit.
AskingDnssec(m) ==
    IF HasEdns(m) THEN [m EXCEPT !.records[OptAt(m)].wants = TRUE]
    ELSE Append1(m, Opt(TRUE, <<>>))
\* process_ecs_option with EcsMode::Strip: of the first OPT.
Stripped(m) ==
    IF HasEdns(m)
    THEN [m EXCEPT !.records[OptAt(m)].options = SelectSeq(@, LAMBDA o : o # "subnet")]
    ELSE m
WithOption(m, option) ==
    IF HasEdns(m) THEN [m EXCEPT !.records[OptAt(m)].options = Append(@, option)]
    ELSE Append1(m, Opt(FALSE, <<option>>))
\* append_ede_to_response and append_cookie_to_response: whatever the option is, it is added.
WithEde(m) == WithOption(m, "ede")
WithCookie(m) == WithOption(m, "cookie")

\* build_servfail_response, build_blocked_response: the question with two counts zeroed.
Echo(q) == Message(q.of, 0, 0, q.ar, q.records)
\* build_any_minimal_response, build_ddr_response, build_sinkhole_response.
Small(q) == Message(q.of, 1, 0, 0, <<Record(0)>>)
\* build_sinkhole_response for another type.
NoData(q) == Message(q.of, 0, 0, 0, <<>>)
EdeIfEdns(m, q) == IF HasEdns(q) THEN WithEde(m) ELSE m
Blocked(q) == {EdeIfEdns(Small(q), q), EdeIfEdns(NoData(q), q)}
OwnReplies(q) == {Echo(q), WithEde(Echo(q)), Small(q), WithEde(Small(q))}
                \cup Blocked(q)

\* Mutant: the count of additional records is left as it was.
Truncated_Counts(m) ==
    IF Length(m) <= Limit THEN m
    ELSE LET fits == {k \in 0..Smaller(m.an, Len(m.records)) :
                        Length([m EXCEPT !.records = SubSeq(@, 1, k)]) <= Limit}
             kept == CHOOSE k \in fits : \A j \in fits : j <= k
         IN  [m EXCEPT !.an = kept, !.ns = 0, !.records = SubSeq(@, 1, kept)]
\* truncate_response_properly: the answers that fit, and nothing else.
Truncated(m) ==
    IF Length(m) <= Limit THEN m
    ELSE LET fits == {k \in 0..Smaller(m.an, Len(m.records)) :
                        Length([m EXCEPT !.records = SubSeq(@, 1, k)]) <= Limit}
             kept == CHOOSE k \in fits : \A j \in fits : j <= k
         IN  Message(m.of, kept, 0, 0, SubSeq(m.records, 1, kept))

\* The end of a worker of plain.rs; a stream gets the message as it is.
Sent(c, m) ==
    IF c \notin Udp THEN m
    ELSE Truncated(IF Carries(query[c], "cookie") THEN WithCookie(m) ELSE m)

(***************************************************************************)
(* The cache.                                                              *)
(***************************************************************************)
Uncached == [message |-> Nothing, fresh |-> 0, age |-> 0, by |-> "nobody"]
\* extract_answer_ttl: the first record's, when there is an answer.
AnswerTtl(m) == m.records[1].ttl
\* Mutant: the learner's TTL is not bounded by upstream's.
Entry_Smart(m, smart) ==
    [message |-> m, age |-> 0, by |-> "question",
     fresh |-> IF m.an = 0 THEN Unanswered ELSE Larger(smart, MinFresh)]
\* The answer's TTL, the smart TTL, and insert_with_grace_allowed.
Entry(m, smart) ==
    [message |-> m, age |-> 0, by |-> "question",
     fresh |-> IF m.an = 0 THEN Unanswered
               ELSE Larger(Smaller(AnswerTtl(m), smart), MinFresh)]
\* What a prefetch stores lives as long as `insert` is told, whatever the answer declares.
Prefetched(m) == [message |-> m, age |-> 0, by |-> "prefetch", fresh |-> Larger(PrefetchLife, MinFresh)]

\* Mutant: a fresh answer is told with the TTLs it came with.
Aged_As(m, age) == m
\* decrement_response_ttl: every section, never below 1, OPT excepted.
Older(r, age) == [r EXCEPT !.ttl = Larger(IF @ > age THEN @ - age ELSE 0, 1)]
Aged(m, age) ==
    IF age = 0 THEN m
    ELSE [m EXCEPT !.records = [i \in DOMAIN m.records |->
            IF m.records[i].type = "opt" \/ i > m.an + m.ns + m.ar THEN m.records[i]
            ELSE Older(m.records[i], age)]]
\* cap_response_ttl: the answer section only.
Cut(r) == [r EXCEPT !.ttl = Smaller(@, StaleTtl)]
Capped(m) ==
    [m EXCEPT !.records = [i \in DOMAIN m.records |->
        IF i <= m.an THEN Cut(m.records[i]) ELSE m.records[i]]]

\* The id and the question of the client's own query are written over a kept message.
Addressed(m, c) == [m EXCEPT !.of = c]

(***************************************************************************)
(* Questions, answers and the clients.                                     *)
(***************************************************************************)
Options == {<<>>, <<"subnet">>, <<"cookie">>}
Queries(c) ==
    {Message(c, 0, 0, 0, <<>>)}
        \cup {Message(c, 0, 0, 1, <<Opt(FALSE, options)>>) : options \in Options}
        \cup (IF Notify THEN {Message(c, 1, 0, 1, <<Record(1), Opt(FALSE, <<>>)>>)} ELSE {})
\* What the upstreams may answer to a question with an OPT record.
Sections ==
    {<<Record(t)>> : t \in Declared} \cup {<<Record(t), Record(u)>> : t, u \in Declared}
        \cup {[i \in 1..Limit |-> Record(MinFresh)]}
Responses(of) ==
    {Message(of, Len(s), 0, ar, s \o SubSeq(<<Opt(TRUE, <<>>)>>, 1, ar)) :
        s \in Sections, ar \in 0..1}
        \cup {Message(of, 0, 1, 1, <<Record(t), Opt(TRUE, <<>>)>>) : t \in Declared}
\* The question a prefetch makes up: it has no OPT.
Forethought == Message("brain", 0, 0, 0, <<>>)
\* A root server knows no answer; it refers to other servers.
Referral(of) == Message(of, 0, 1, 1, <<Record(0), Opt(TRUE, <<>>)>>)

Unsent == [route |-> "none", message |-> Nothing]
NoReply == [message |-> Nothing, how |-> "none", age |-> 0, by |-> "nobody"]
NoReplies == [c \in Client |-> NoReply]
Plainly(m) == [message |-> m, how |-> "local", age |-> 0, by |-> "nobody"]
ReplyTo(c, m, how) == [message |-> Sent(c, m), how |-> how, age |-> 0, by |-> "nobody"]
FromCache(c, m, how) ==
    [message |-> Sent(c, m), how |-> how, age |-> cache.age, by |-> cache.by]

WireInit ==
    /\ query = [c \in Client |-> Nothing] /\ pc = [c \in Client |-> "idle"]
    /\ flight = Nothing /\ awaiting = {} /\ cache = Uncached /\ instant = Nothing
    /\ outbound = Unsent /\ reply = NoReplies
    /\ asks = 0

Ask(c) ==
    /\ pc[c] = "idle" /\ asks < MaxAsks
    /\ \E q \in Queries(c) : query' = [query EXCEPT ![c] = q]
    /\ pc' = [pc EXCEPT ![c] = "asked"]
    /\ asks' = asks + 1
    /\ outbound' = Unsent /\ reply' = NoReplies
    /\ UNCHANGED <<flight, awaiting, cache, instant>>

\* The clients of `to` have their reply; `m` is sent upstream meanwhile.
Replied(to, replies, m) ==
    /\ pc' = [c \in Client |-> IF c \in to THEN "idle" ELSE pc[c]]
    /\ query' = [c \in Client |-> IF c \in to THEN Nothing ELSE query[c]]
    /\ reply' = [c \in Client |-> IF c \in to THEN replies[c] ELSE NoReply]
    /\ outbound' = m
    /\ UNCHANGED asks
Told(c, r) == Replied({c}, [d \in {c} |-> r], Unsent)
\* The clients of `who` go on to `where`, with `m` sent upstream.
Moved(who, where, m) ==
    /\ pc' = [c \in Client |-> IF c \in who THEN where ELSE pc[c]]
    /\ outbound' = m /\ reply' = NoReplies
    /\ UNCHANGED <<query, asks>>

\* A reply made from the question alone.
AnswerLocally(c) ==
    /\ pc[c] = "asked"
    /\ \E m \in OwnReplies(query[c]) : Told(c, ReplyTo(c, m, "local"))
    /\ UNCHANGED <<flight, awaiting, cache, instant>>

\* The fast path of a UDP worker sends its replies as they are.
AnswerFast(c) ==
    /\ pc[c] = "asked" /\ c \in Udp
    /\ \E m \in Blocked(query[c]) \cup {Small(query[c])} : Told(c, Plainly(m))
    /\ UNCHANGED <<flight, awaiting, cache, instant>>

\* A name of the instant shield: the first reply made for it serves all for 60 s.
AnswerInstantly(c) ==
    /\ pc[c] = "asked"
    /\ \E fresh \in Blocked(query[c]) :
         /\ instant' = IF instant = Nothing THEN fresh ELSE instant
         /\ Told(c, Plainly(Addressed(instant', c)))
    /\ UNCHANGED <<flight, awaiting, cache>>
ForgetInstant ==
    /\ instant # Nothing
    /\ instant' = Nothing
    /\ Moved({}, "idle", Unsent)
    /\ UNCHANGED <<flight, awaiting, cache>>

IsFresh == cache # Uncached /\ cache.age < cache.fresh
IsStale == cache # Uncached /\ ~IsFresh /\ cache.age < cache.fresh + Grace
AnswerFresh(c) ==
    /\ pc[c] = "asked" /\ IsFresh
    /\ Told(c, FromCache(c, Addressed(Aged(cache.message, cache.age), c), "fresh"))
    /\ UNCHANGED <<flight, awaiting, cache, instant>>
\* UpstreamPool::resolve with q: the first to ask leads, the others wait for its answer.
Joins(q) == flight' = IF flight = Nothing THEN q ELSE flight
Outgoing(q) ==
    IF flight = Nothing THEN [route |-> "hedged", message |-> Stripped(AskingDnssec(q))] ELSE Unsent
\* A task in the background asks upstream meanwhile.  That it asks at once makes no
\* difference: it looks at nothing but its question.
AnswerStale(c) ==
    /\ pc[c] = "asked" /\ IsStale
    /\ Joins(query[c]) /\ awaiting' = awaiting \cup {"renewal"}
    /\ Replied({c}, [d \in {c} |-> FromCache(c, Addressed(Capped(cache.message), c), "stale")],
               Outgoing(query[c]))
    /\ UNCHANGED <<cache, instant>>

AskUpstreams(c) ==
    /\ pc[c] = "asked" /\ ~IsFresh /\ ~IsStale
    /\ Joins(query[c]) /\ Moved({c}, "wait", Outgoing(query[c]))
    /\ cache' = Uncached
    /\ UNCHANGED <<awaiting, instant>>
\* A prefetch, because somebody asked for another name; it does not look into the cache.
LookAhead ==
    /\ asks < MaxAsks /\ asks' = asks + 1
    /\ Joins(Forethought) /\ awaiting' = awaiting \cup {"prefetch"}
    /\ outbound' = Outgoing(Forethought) /\ reply' = NoReplies
    /\ UNCHANGED <<query, pc, cache, instant>>

Waiting == {c \in Client : pc[c] = "wait"}
\* Mutant: a follower is sent the message the leader's question brought.
Delivered_Shared(c, m) == ReplyTo(c, m, "miss")
\* The answer of the upstreams, for one that waited for it.
Delivered(c, m) == ReplyTo(c, Addressed(m, c), "miss")
\* Each of those that waited stores it, the background lookups too; what is stored last stays.
Stored(m, smart) ==
    {Entry(m, smart) : w \in Waiting \cup (awaiting \cap {"renewal"})}
        \cup {Prefetched(m) : w \in awaiting \cap {"prefetch"}}
FlightAnswers ==
    /\ flight # Nothing
    /\ \E m \in Responses(flight.of), smart \in Smart :
         /\ cache' \in Stored(m, smart)
         /\ Replied(Waiting, [c \in Waiting |-> Delivered(c, m)], Unsent)
    /\ flight' = Nothing /\ awaiting' = {}
    /\ UNCHANGED instant
FlightFails ==
    /\ flight # Nothing
    /\ Moved(Waiting, "race", Unsent)
    /\ flight' = Nothing /\ awaiting' = {}
    /\ UNCHANGED <<cache, instant>>

\* resolve_race: to all healthy upstreams at once, for each client on its own.
Race(c) ==
    /\ pc[c] = "race"
    /\ Moved({c}, "racing", [route |-> "race", message |-> AskingDnssec(query[c])])
    /\ UNCHANGED <<flight, awaiting, cache, instant>>
RaceAnswers(c) ==
    /\ pc[c] = "racing"
    /\ \E m \in Responses(c), smart \in Smart :
         cache' = Entry(m, smart) /\ Told(c, Delivered(c, m))
    /\ UNCHANGED <<flight, awaiting, instant>>
\* resolve_root_hints.
RaceFails(c) ==
    /\ pc[c] = "racing"
    /\ Moved({c}, "root", [route |-> "root", message |-> Stripped(AskingDnssec(query[c]))])
    /\ UNCHANGED <<flight, awaiting, cache, instant>>
RootAnswers(c) ==
    /\ pc[c] = "root"
    /\ \E smart \in Smart : cache' = Entry(Referral(c), smart)
    /\ Told(c, Delivered(c, Referral(c)))
    /\ UNCHANGED <<flight, awaiting, instant>>
RootFails(c) ==
    /\ pc[c] = "root"
    /\ Told(c, ReplyTo(c, WithEde(Echo(query[c])), "local"))
    /\ UNCHANGED <<flight, awaiting, cache, instant>>

SecondPasses ==
    /\ cache # Uncached /\ cache.age < cache.fresh + Grace
    /\ cache' = [cache EXCEPT !.age = @ + 1]
    /\ Moved({}, "idle", Unsent)
    /\ UNCHANGED <<flight, awaiting, instant>>
\* A full cache, a flush, or a grace that is over earlier.
Evict ==
    /\ cache # Uncached
    /\ cache' = Uncached
    /\ Moved({}, "idle", Unsent)
    /\ UNCHANGED <<flight, awaiting, instant>>

WireNext ==
    \/ \E c \in Client :
         \/ Ask(c) \/ AnswerLocally(c) \/ AnswerFast(c) \/ AnswerInstantly(c)
         \/ AnswerFresh(c) \/ AnswerStale(c) \/ AskUpstreams(c)
         \/ Race(c) \/ RaceAnswers(c) \/ RaceFails(c) \/ RootAnswers(c) \/ RootFails(c)
    \/ ForgetInstant \/ LookAhead \/ FlightAnswers \/ FlightFails
    \/ SecondPasses \/ Evict

WireSpec == WireInit /\ [][WireNext]_wireVars

(***************************************************************************)
(* Properties.                                                             *)
(***************************************************************************)
WireTypeOK ==
    /\ pc \in [Client -> {"idle", "asked", "wait", "race", "racing", "root"}]
    /\ \A c \in Client : query[c] \in Queries(c) \cup {Nothing}
    /\ awaiting \subseteq {"prefetch", "renewal"}
    /\ flight # Nothing <=> Waiting # {} \/ awaiting # {}
    /\ cache.age <= cache.fresh + Grace /\ asks \in 0..MaxAsks

\* A message is whole when its header counts the records it has, one OPT at most.
Whole(m) ==
    /\ Len(m.records) = m.an + m.ns + m.ar
    /\ Cardinality({i \in DOMAIN m.records : m.records[i].type = "opt"}) <= 1

\* Whatever was appended, cut, cached, shared and readdressed on its way, a message that
\* leaves is whole, a datagram fits, a reply bears the asker's id and question, and a
\* question that goes upstream asks for DNSSEC records.
MessagesWhole ==
    /\ \A c \in Client : reply[c] # NoReply =>
         /\ Whole(reply[c].message) /\ reply[c].message.of = c
         /\ c \in Udp => Length(reply[c].message) <= Limit
    /\ outbound.route # "none" =>
         /\ Whole(outbound.message)
         /\ HasEdns(outbound.message) /\ outbound.message.records[OptAt(outbound.message)].wants

\* How long an entry may live: by its first answer, without one, or because it was prefetched.
Life(m, by) ==
    CASE by = "prefetch" -> Larger(PrefetchLife, MinFresh)
      [] by # "prefetch" /\ m.an = 0 -> Unanswered
      [] OTHER -> Larger(m.records[1].was, MinFresh)
\* No client keeps a record longer than upstream's word and the cache's allowances let it:
\* fresh, the age of the answer and the TTL that is told make up no more than the TTL the
\* record had, or the life of the entry; stale, the grace and the capped TTL come on top,
\* for the answers (cap_response_ttl leaves the other sections as they came).
TtlsBounded ==
    \A c \in Client : \A i \in DOMAIN reply[c].message.records :
        LET m == reply[c].message
            r == m.records[i]
            life == Larger(r.was, Life(m, reply[c].by)) IN
        /\ reply[c].how = "fresh" => r.ttl + reply[c].age <= life
        /\ reply[c].how = "stale" /\ i <= m.an => r.ttl + reply[c].age <= life + Grace + StaleTtl

\* src/src/ui/pages.rs:678 "We do not transmit EDNS Client Subnet (ECS) headers, preserving
\* your exact IP location."  resolve_race does not strip them.
SubnetStaysHome == ~Carries(outbound.message, "subnet")

\* src/src/dns/parser.rs:1401 "Appends or updates the EDNS0 COOKIE option in a response
\* wire packet": a reply made of the question has the question's option, and gets another.
CookieOnce ==
    \A c \in Client : \A i \in Opts(reply[c].message) :
        Len(SelectSeq(reply[c].message.records[i].options, LAMBDA o : o = "cookie")) <= 1

\* src/src/server/doh.rs:1483 "Bound fresh cache TTL by upstream authoritative declaration":
\* only the first answer's declaration is asked, so an address behind an alias outlives its own.
FreshWithinTtl ==
    \A c \in Client : \A i \in 1..reply[c].message.an :
        reply[c].how = "fresh" =>
            reply[c].age < Larger(reply[c].message.records[i].was, MinFresh)

\* Once an answer is there to be had the referral of a root server is not served for it:
\* violated, the referral is cached like an answer.
NoReferralKept ==
    \A c \in Client : reply[c].how \in {"fresh", "stale"} =>
        ~(reply[c].message.an = 0 /\ reply[c].message.records[1].was = 0)
=============================================================================
