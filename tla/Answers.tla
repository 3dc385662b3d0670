------------------------------ MODULE Answers ------------------------------
(***************************************************************************)
(* The query pipeline around the two answer caches: the wire path          *)
(* process_dns_wire_packet_full and the JSON path doh_json_handler of      *)
(* src/src/server/doh.rs, the background lookups both start, and           *)
(* src/src/dns/cache.rs, while an administrator changes a rule, the        *)
(* instant shield or the blocking switch and flushes the caches.           *)
(*                                                                         *)
(* Both caches are keyed by name and type, and nothing relates two keys,   *)
(* so the module follows the queries for one key.  Time is phases: an      *)
(* entry ages when it likes.  An await of the code is a step boundary.     *)
(***************************************************************************)
EXTENDS Naturals, FiniteSets

CONSTANTS
    Task,        \* the queries and background lookups in flight at a time
    RebindOk,    \* the name is one that may have private addresses
    MaxChanges   \* bound on what the administrator does

ASSUME AnswersAssumption == MaxChanges \in Nat

\* What a resolver says: public addresses (or other data), a private address, or
\* NXDOMAIN.  That it answers another question, is badly signed or has a TTL the
\* guard suspects is a verdict that is taken at random.
Reply == {"public", "private", "nx"}
Rules == {"none", "block", "white", "bypass"}
None == "none"
NoEntry == [age |-> "none"]    \* nothing is cached

VARIABLES
    blocking,    \* blocking_enabled
    rule,        \* the list the name is on
    shield,      \* the instant shield is on and lists the name
    owed,        \* an administrator's call has stored its change, not yet flushed
    pos,         \* the positive cache: NoEntry or [reply, age]
    neg,         \* the negative cache: NoEntry or [cause, age, late]
    task,        \* the queries and background lookups
    told,        \* the answer this step gives, and what its query saw; else Silence
    changes      \* counts the administrator's calls, against MaxChanges

answersVars == <<blocking, rule, shield, owed, pos, neg, task, told, changes>>
admin == <<blocking, rule, shield, owed, changes>>

---------------------------------------------------------------------------
(* What the administrator's settings say at this moment.                   *)

\* check_domain says blocked.
PolicyDenies == blocking /\ rule # "bypass" /\ (shield \/ rule = "block")

\* is_instant_blocked: asked also while blocking is switched off.
ShieldDenies == shield /\ rule # "bypass"

\* is_exempt: on the bypass list or the whitelist.
IsExempt == rule \in {"bypass", "white"}

\* A history variable of a query: what the settings said at some moment of it.
Climate == (IF PolicyDenies THEN {} ELSE {"passes"})
             \cup (IF ShieldDenies THEN {} ELSE {"unshielded"})
             \cup (IF PolicyDenies \/ ShieldDenies \/ owed THEN {"denies"} ELSE {})
             \cup (IF ~ blocking \/ rule = "bypass" THEN {"lenient"} ELSE {})

Idle == [kind |-> "idle", pc |-> "idle", bypassed |-> FALSE, reply |-> None,
         cause |-> None, late |-> FALSE, seen |-> {}]

Silence == [out |-> None, cause |-> None, late |-> FALSE, seen |-> {}]

AnswersInit ==
    /\ blocking = TRUE
    /\ rule \in Rules \ {"white"}
    /\ shield = FALSE
    /\ owed = FALSE
    /\ pos = NoEntry
    /\ neg = NoEntry
    /\ task = [t \in Task |-> Idle]
    /\ told = Silence
    /\ changes = 0

---------------------------------------------------------------------------
(* The caches.                                                             *)

Put(t, query) ==
    /\ task' = [task EXCEPT ![t] = query]
    /\ told' = Silence

\* insert_negative.  `late` records that the query began before the last flush.
InsertNegative(t, cause) ==
    neg' = [cause |-> cause, age |-> "young", late |-> task[t].late]

\* insert_with_grace_allowed: a private answer only for a bypassed name.
InsertAllowed(reply, allowed) ==
    pos' = IF reply = "private" /\ ~ allowed /\ ~ RebindOk
             THEN pos
             ELSE [reply |-> reply, age |-> "fresh"]

\* RebindGuard: the answer holds a private address this query may not see.
Rebinds(t, reply) ==
    reply = "private" /\ blocking /\ ~ task[t].bypassed /\ ~ RebindOk

Tell(t, out, cause, late) ==
    told' = [out |-> out, cause |-> cause, late |-> late, seen |-> task[t].seen]

\* The answer goes out.
Answered(t, out) ==
    /\ task' = [task EXCEPT ![t] = Idle]
    /\ Tell(t, out, None, FALSE)
Denied(t, cause, late) ==
    /\ task' = [task EXCEPT ![t] = Idle]
    /\ Tell(t, "denied", cause, late)
Ended(t) == task' = [task EXCEPT ![t] = Idle] /\ told' = Silence

\* The sinkhole that also goes to the negative cache: an await lies between.
Condemn(t, cause) == Put(t, [task[t] EXCEPT !.pc = "condemn", !.cause = cause])

---------------------------------------------------------------------------
(* A query up to the cache.  Malformed packets, other opcodes, zone        *)
(* transfers, DDR, ANY and the canary name are answered before and touch   *)
(* no cache.                                                               *)

Start(t, kind, pc, cause) ==
    /\ task' = [task EXCEPT ![t] = [Idle EXCEPT !.kind = kind, !.pc = pc,
                                                !.cause = cause, !.seen = Climate]]
    /\ told' = Silence

Free(t) == task[t].kind = "idle"

\* check_domain denies the name.
DenialCause == IF shield THEN "shield" ELSE "rule"

ArriveDenied(t) ==
    /\ Free(t)
    /\ PolicyDenies
    /\ Start(t, "wire", "condemn", DenialCause)
    /\ UNCHANGED <<admin, pos, neg>>

ArrivePassed(t) ==
    /\ Free(t)
    /\ ~ PolicyDenies
    /\ Start(t, "wire", "screen", None)
    /\ UNCHANGED <<admin, pos, neg>>

\* The JSON path gives the denial at once and stores none.
ArriveJson(t) ==
    /\ Free(t)
    /\ IF PolicyDenies
         THEN /\ told' = [out |-> "denied", cause |-> DenialCause, late |-> FALSE,
                          seen |-> Climate]
              /\ UNCHANGED task
         ELSE Start(t, "json", "screen", None)
    /\ UNCHANGED <<admin, pos, neg>>

\* Predictive prefetching: a name likely to be asked next, if nothing blocks it.
Prefetch(t) ==
    /\ Free(t)
    /\ ~ PolicyDenies
    /\ task' = [task EXCEPT ![t] = [Idle EXCEPT !.kind = "prefetch", !.pc = "resolve"]]
    /\ told' = Silence
    /\ UNCHANGED <<admin, pos, neg>>

\* The denial is stored, then given.
StoreDenial(t) ==
    /\ task[t].pc = "condemn"
    /\ InsertNegative(t, task[t].cause)
    /\ IF task[t].kind = "swr" THEN Ended(t) ELSE Denied(t, task[t].cause, FALSE)
    /\ UNCHANGED <<admin, pos>>

\* Instant shield.  Nothing goes to the negative cache here.
Shielded(t) ==
    /\ task[t].pc = "screen"
    /\ ShieldDenies
    /\ Denied(t, "shield", FALSE)
    /\ UNCHANGED <<admin, pos, neg>>

\* The wire path asks the negative cache, whether or not blocking is on.
AsksNegative(t) == task[t].kind = "wire" /\ ~ IsExempt

\* get_negative: the entry's own clock counts from its insertion.
\* Mutant: only the cache's idle time counts, which every hit restarts.
Renewed_Idle == neg' = [neg EXCEPT !.age = "young"]
Renewed == UNCHANGED neg

NegativeHit(t) ==
    /\ task[t].pc = "screen"
    /\ ~ ShieldDenies
    /\ AsksNegative(t) /\ neg # NoEntry
    /\ Denied(t, neg.cause, neg.late)
    /\ Renewed
    /\ UNCHANGED <<admin, pos>>

\* The bypass is read once and kept for the rest of the query.
Screen(t) ==
    /\ task[t].pc = "screen"
    /\ ~ ShieldDenies
    /\ ~ (AsksNegative(t) /\ neg # NoEntry)
    /\ Put(t, [task[t] EXCEPT !.bypassed = (rule = "bypass"), !.pc = "lookup"])
    /\ UNCHANGED <<admin, pos, neg>>

\* Safe Browsing calls the name a threat; it fails open.
SafeBrowsing(t) ==
    /\ task[t].pc = "lookup" /\ task[t].kind = "wire"
    /\ blocking /\ ~ task[t].bypassed /\ ~ IsExempt
    /\ Condemn(t, "threat")
    /\ UNCHANGED <<admin, pos, neg>>

---------------------------------------------------------------------------
(* The cache, the resolvers and what is made of their reply.               *)

\* The cached answer is checked again for private addresses, fresh or stale.
\* Mutant: a stale answer is served as it is.
Intercepted_FreshOnly(t) == pos.age = "fresh" /\ Rebinds(t, pos.reply)
Intercepted(t) == Rebinds(t, pos.reply)

Intercept(t) ==
    /\ task[t].pc = "lookup"
    /\ pos # NoEntry
    /\ Intercepted(t)
    /\ pos' = NoEntry
    /\ Condemn(t, "threat")
    /\ UNCHANGED <<admin, neg>>

Hit(t) ==
    /\ task[t].pc = "lookup" /\ task[t].kind = "wire"
    /\ pos # NoEntry /\ pos.age = "fresh"
    /\ ~ Intercepted(t)
    /\ Answered(t, pos.reply)
    /\ UNCHANGED <<admin, pos, neg>>

\* The JSON path serves a stale answer like a fresh one and revalidates nothing.
JsonHit(t) ==
    /\ task[t].pc = "lookup" /\ task[t].kind = "json"
    /\ pos # NoEntry
    /\ ~ Intercepted(t)
    /\ Answered(t, pos.reply)
    /\ UNCHANGED <<admin, pos, neg>>

\* Served stale: the answer goes out and a lookup is started in the background.
StaleHit(t) ==
    /\ task[t].pc = "lookup" /\ task[t].kind = "wire"
    /\ pos # NoEntry /\ pos.age = "stale"
    /\ ~ Intercepted(t)
    /\ Tell(t, pos.reply, None, FALSE)
    /\ task' = [task EXCEPT ![t] = [Idle EXCEPT !.kind = "swr", !.pc = "resolve",
                                                !.late = task[t].late]]
    /\ UNCHANGED <<admin, pos, neg>>

Miss(t) ==
    /\ task[t].pc = "lookup"
    /\ pos = NoEntry
    /\ Put(t, [task[t] EXCEPT !.pc = "resolve"])
    /\ UNCHANGED <<admin, pos, neg>>

\* Mutant: the lack of an answer is stored like one.
ResolveFails_Stored(t) ==
    /\ task[t].pc = "resolve"
    /\ Put(t, [task[t] EXCEPT !.pc = "store"])
    /\ UNCHANGED <<admin, pos, neg>>

\* No resolver answers: resolve, and on the wire path resolve_race and the root hints.
ResolveFails(t) ==
    /\ task[t].pc = "resolve"
    /\ IF task[t].kind \in {"wire", "json"} THEN Answered(t, "fail") ELSE Ended(t)
    /\ UNCHANGED <<admin, pos, neg>>

\* A reply to another question: SERVFAIL.  Asked on the wire path only.
RefuseQuestion(t) ==
    /\ task[t].pc = "resolve" /\ task[t].kind = "wire"
    /\ Answered(t, "fail")
    /\ UNCHANGED <<admin, pos, neg>>

\* Bad signatures: SERVFAIL, unless the client set CD; an NXDOMAIN is noted before.
RefuseBogus(t) ==
    /\ task[t].pc = "resolve" /\ task[t].kind = "wire"
    /\ Answered(t, "fail")
    /\ UNCHANGED neg \/ InsertNegative(t, "nx")
    /\ UNCHANGED <<admin, pos>>

\* TTL guard: a very low TTL for a name the classifiers suspect.
Guarded(t) ==
    task[t].kind = "wire" /\ blocking /\ ~ task[t].bypassed /\ ~ IsExempt

\* A background revalidation reads the bypass again when its reply is there.
Allowed(t) == IF task[t].kind = "swr" THEN rule = "bypass" ELSE task[t].bypassed

RebindsNow(t, reply) == reply = "private" /\ blocking /\ ~ Allowed(t) /\ ~ RebindOk

RejectFlux(t) ==
    /\ task[t].pc = "resolve"
    /\ Guarded(t)
    /\ Condemn(t, "threat")
    /\ UNCHANGED <<admin, pos, neg>>

RejectPrivate(t) ==
    /\ task[t].pc = "resolve" /\ task[t].kind # "prefetch"
    /\ RebindsNow(t, "private")
    /\ Condemn(t, "threat")
    /\ UNCHANGED <<admin, pos, neg>>

\* The reply may be kept.  An NXDOMAIN is also noted in the negative cache.
AcceptReply(t) ==
    /\ task[t].pc = "resolve"
    /\ \E reply \in Reply :
         /\ task[t].kind = "prefetch" \/ ~ RebindsNow(t, reply)
         /\ Put(t, [task[t] EXCEPT !.pc = "store", !.reply = reply, !.bypassed = Allowed(t)])
         /\ IF task[t].kind = "wire" /\ reply = "nx" THEN InsertNegative(t, "nx")
                                                    ELSE UNCHANGED neg
    /\ UNCHANGED <<admin, pos>>

\* NOERROR takes the denial of the name back; every reply is stored and given.
Store(t) ==
    /\ task[t].pc = "store" /\ task[t].kind = "wire"
    /\ IF task[t].reply # "nx" THEN neg' = NoEntry ELSE UNCHANGED neg
    /\ InsertAllowed(task[t].reply, task[t].bypassed)
    /\ Answered(t, task[t].reply)
    /\ UNCHANGED admin

\* The JSON path stores only NOERROR.
StoreJson(t) ==
    /\ task[t].pc = "store" /\ task[t].kind = "json"
    /\ IF task[t].reply # "nx" THEN InsertAllowed(task[t].reply, task[t].bypassed)
                               ELSE UNCHANGED pos
    /\ Answered(t, task[t].reply)
    /\ UNCHANGED <<admin, neg>>

\* Prefetching drops a private address, a revalidation goes by the bypass.
StoreBackground(t) ==
    /\ task[t].pc = "store" /\ task[t].kind \in {"swr", "prefetch"}
    /\ InsertAllowed(task[t].reply, task[t].kind = "swr" /\ task[t].bypassed)
    /\ Ended(t)
    /\ UNCHANGED <<admin, neg>>

---------------------------------------------------------------------------
(* The administrator, the memory governor and time.                        *)

\* Every query in flight is under the new settings from now on.
Background(t) == task[t].kind \in {"swr", "prefetch"}

Watch ==
    /\ task' = [t \in Task |-> IF Free(t) \/ Background(t) THEN task[t]
                               ELSE [task[t] EXCEPT !.seen = @ \cup Climate']]
    /\ told' = Silence

MayChange == changes < MaxChanges /\ ~ owed /\ changes' = changes + 1

\* The blocking switch, from the API or the console.  Nothing is flushed.
SetBlocking ==
    /\ MayChange
    /\ blocking' = ~ blocking
    /\ UNCHANGED <<rule, shield, owed, pos, neg>>
    /\ Watch

\* A rule handler: the list changes, and the caches are flushed at its end.
SetRule ==
    /\ MayChange
    /\ \E r \in Rules \ {rule} : rule' = r
    /\ owed' = TRUE
    /\ UNCHANGED <<blocking, shield, pos, neg>>
    /\ Watch

\* handle_toggle_instant_block: stores the switch, then flushes.
SetShield ==
    /\ MayChange
    /\ shield' = ~ shield
    /\ owed' = TRUE
    /\ UNCHANGED <<blocking, rule, pos, neg>>
    /\ Watch

\* flush_all_caches at the end of the call.  Queries in flight are not waited for.
\* Mutant: only the positive cache is flushed.
Cleared_Positive == pos' = NoEntry /\ UNCHANGED neg
Cleared == pos' = NoEntry /\ neg' = NoEntry

Flush ==
    /\ owed
    /\ Cleared
    /\ owed' = FALSE
    /\ task' = [t \in Task |-> IF Free(t) THEN task[t] ELSE [task[t] EXCEPT !.late = TRUE]]
    /\ told' = Silence
    /\ UNCHANGED <<blocking, rule, shield, changes>>

\* The governor under memory pressure, the console's cache flush.
Shed ==
    /\ pos' = NoEntry /\ neg' = NoEntry
    /\ UNCHANGED <<admin, task>> /\ told' = Silence

\* A positive entry is fresh, then stale for its grace, then no entry; so is a
\* negative one after its own time.
AgePositive ==
    /\ pos # NoEntry
    /\ pos' = IF pos.age = "fresh" THEN [pos EXCEPT !.age = "stale"] ELSE NoEntry
    /\ UNCHANGED <<admin, neg, task>> /\ told' = Silence

AgeNegative ==
    /\ neg # NoEntry
    /\ neg' = IF neg.age = "young" THEN [neg EXCEPT !.age = "old"] ELSE NoEntry
    /\ UNCHANGED <<admin, pos, task>> /\ told' = Silence

Step(t) ==
    \/ StoreDenial(t) \/ Shielded(t) \/ NegativeHit(t) \/ Screen(t) \/ SafeBrowsing(t)
    \/ Intercept(t) \/ Hit(t) \/ JsonHit(t) \/ StaleHit(t) \/ Miss(t)
    \/ ResolveFails(t) \/ RefuseQuestion(t) \/ RefuseBogus(t) \/ RejectFlux(t)
    \/ RejectPrivate(t) \/ AcceptReply(t) \/ Store(t) \/ StoreJson(t) \/ StoreBackground(t)

AnswersNext ==
    \/ \E t \in Task :
        ArriveDenied(t) \/ ArrivePassed(t) \/ ArriveJson(t) \/ Prefetch(t) \/ Step(t)
    \/ SetBlocking \/ SetRule \/ SetShield \/ Flush \/ Shed
    \/ AgePositive \/ AgeNegative

Fairness == WF_answersVars(AgePositive) /\ WF_answersVars(AgeNegative)

AnswersSpec == AnswersInit /\ [][AnswersNext]_answersVars /\ Fairness

---------------------------------------------------------------------------
(* Properties.                                                             *)

Climates == {"passes", "unshielded", "denies", "lenient"}
Causes == {None, "rule", "shield", "threat", "nx"}

\* Type invariant: the settings, the caches and the queries in flight.
AnswersTypeOK ==
    /\ blocking \in BOOLEAN /\ rule \in Rules /\ shield \in BOOLEAN /\ owed \in BOOLEAN
    /\ pos = NoEntry \/ pos \in [reply : Reply, age : {"fresh", "stale"}]
    /\ neg = NoEntry \/ neg \in [cause : Causes \ {None}, age : {"young", "old"},
                              late : BOOLEAN]
    /\ task \in [Task -> [kind : {"idle", "wire", "json", "swr", "prefetch"},
                          pc : {"idle", "condemn", "screen", "lookup", "resolve", "store"},
                          bypassed : BOOLEAN, reply : Reply \cup {None}, cause : Causes,
                          late : BOOLEAN, seen : SUBSET Climates]]
    /\ told \in [out : Reply \cup {None, "denied", "fail"}, cause : Causes,
                 late : BOOLEAN, seen : SUBSET Climates]
    /\ changes \in 0 .. MaxChanges

\* What a client is told follows from settings that held at some moment of its
\* query, whatever a cache, a background lookup or an earlier query did: an
\* address only if the policy passed the name and the shield did not hold it, a
\* private address only if blocking was off or the name bypassed, a denial by
\* rule or shield only if they said so - or if an older query wrote its denial
\* after the flush of the change that took the rule away (process_dns_wire_
\* packet_full and doh_json_handler against flush_all_caches).
AnswersMatchPolicy ==
    /\ told.out \in Reply =>
         /\ {"passes", "unshielded"} \subseteq told.seen
         /\ told.out = "private" => RebindOk \/ "lenient" \in told.seen
    /\ (told.out = "denied" /\ told.cause \in {"rule", "shield"}) =>
         {"denies", "lenient"} \cap told.seen # {} \/ told.late

\* A denial that was stored too late, and an answer that is served stale, do not
\* stay for ever, however often they are asked for: the negative cache restarts
\* its idle time on every hit, and only the entry's own clock ends it
\* (get_negative, get_with_swr).
CachedEnds ==
    /\ (neg # NoEntry /\ neg.late) ~> (neg = NoEntry \/ ~ neg.late)
    /\ (pos # NoEntry /\ pos.age = "stale") ~> (pos = NoEntry \/ pos.age = "fresh")

\* "Threat Blocking is now DISABLED (Queries will pass through without
\* filtering)", console.rs:1683: a query that only ever saw blocking off is not
\* denied for a rule.  It is: the negative cache is asked without asking the
\* switch, and switching does not flush it.
OffMeansOpen ==
    (told.out = "denied" /\ told.cause = "rule") => "denies" \in told.seen \/ told.late

\* "RFC 2308: Use SOA MINIMUM TTL for NXDOMAIN negative caching", doh.rs:1263:
\* a name that does not exist is not answered with the sinkhole.  It is: the
\* negative cache does not keep why an entry was made.
NxIsNotBlocked == ~ (told.out = "denied" /\ told.cause = "nx")
=============================================================================
