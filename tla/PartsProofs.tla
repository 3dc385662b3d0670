---------------------------- MODULE PartsProofs ----------------------------
(***************************************************************************)
(* Theorems about the small parts of the server: view tokens (Auth), the   *)
(* root trust anchors (Anchors), the Instant Shield (Shield), the rate     *)
(* limiter (RateLimit), the update (Update) and the daily work (Cron), and *)
(* the types of all ten parts that MCParts runs.                           *)
(***************************************************************************)
EXTENDS MCParts, AnswersProofs, MessageProofs, TLAPS

-----------------------------------------------------------------------------
(* View tokens.                                                            *)

\* The time stamp of a token is the issuer's, which is at most Skew ahead.
TokenBorn ==
    /\ clock \in Nat /\ born \in Nat /\ born <= clock
    /\ token # NoToken => /\ token.ts \in born..(born + Skew)
                          /\ token.ttl \in Nat \ {0}

LEMMA TokenBornStep == TokenBorn /\ [AuthNext]_authVars => TokenBorn'
<1> SUFFICES ASSUME TokenBorn, [AuthNext]_authVars PROVE TokenBorn'
  OBVIOUS
<1>1. CASE UNCHANGED authVars
  BY <1>1 DEF authVars, TokenBorn
<1>2. CASE Tick
  BY <1>2 DEF Tick, TokenBorn
<1>3. ASSUME NEW m \in Machine, NEW scope \in Scope, NEW ttl \in Ttl, Issue(m, scope, ttl)
      PROVE  TokenBorn'
  <2>1. ttl \in Nat /\ Skew \in 0..1
    BY AuthAssumption
  <2>2. Lifetime(ttl) \in Nat \ {0}
    BY <2>1 DEF Lifetime
  <2>3. Now(m) \in clock..(clock + Skew)
    BY <2>1 DEF Now, TokenBorn
  <2>4. /\ token'.ts = Now(m) /\ token'.ttl = Lifetime(ttl)
        /\ born' = clock /\ clock' = clock
    BY <1>3 DEF Issue
  <2> QED
    BY <2>2, <2>3, <2>4 DEF TokenBorn
<1> QED
  BY <1>1, <1>2, <1>3 DEF AuthNext

\* Wherever a request carries a token, and nothing else, it is the token that
\* decides.
LEMMA GoodIfVerified ==
    ASSUME NEW m, NEW path
    PROVE  GoodFor(m, path) <=> Verifies(token, m, path)
<1>1. ASSUME NEW p \in Place
      PROVE  Role([q \in {p} |-> "token"], FALSE, m, path)
                = IF Verifies(token, m, path) THEN "view" ELSE "none"
  <2> DEFINE held == [q \in {p} |-> "token"]
  <2>1. DOMAIN held = {p} /\ held[p] = "token"
    OBVIOUS
  <2>2. held # <<>>
    <3>1. DOMAIN <<>> = {}
      OBVIOUS
    <3> QED
      BY <2>1, <3>1
  <2> HIDE DEF held
  <2>3. Precedence(p) \in Nat
    BY DEF Place, Precedence
  <2>4. First(held) = p
    BY <2>1, <2>3 DEF First
  <2>5. Role(held, FALSE, m, path) = RoleOf("token", m, path)
    BY <2>1, <2>2, <2>4 DEF Role
  <2>6. RoleOf("token", m, path) = IF Verifies(token, m, path) THEN "view" ELSE "none"
    BY DEF RoleOf
  <2> QED
    BY <2>5, <2>6 DEF held
<1>2. "param" \in Place /\ "view" # "none"
  BY DEF Place
<1> QED
  BY <1>1, <1>2 DEF GoodFor

LEMMA BornTravels == TokenBorn => TokenTravels
<1> SUFFICES ASSUME TokenBorn, token # NoToken, token.ttl < FieldLimit,
                    NEW m \in Machine, NEW path \in Path
             PROVE  /\ token.scope \in {"VIEW_ONLY", path}
                         /\ (clock = born \/ clock < born + token.ttl)
                       => Verifies(token, m, path)
                    /\ clock > born + token.ttl + 1 => ~Verifies(token, m, path)
  BY GoodIfVerified DEF TokenTravels
<1>1. /\ clock \in Nat /\ born \in Nat /\ born <= clock /\ Skew \in 0..1
      /\ token.ts \in born..(born + Skew) /\ token.ttl \in Nat \ {0}
  BY AuthAssumption DEF TokenBorn
<1>2. Now(m) \in clock..(clock + Skew)
  BY <1>1 DEF Now
<1>3. WellFormed(token)
  BY DEF WellFormed
<1>4. clock = born \/ clock < born + token.ttl => InWindow(token, m)
  BY <1>1, <1>2 DEF InWindow
<1>5. clock > born + token.ttl + 1 => ~InWindow(token, m)
  BY <1>1, <1>2 DEF InWindow
<1> QED
  BY <1>3, <1>4, <1>5 DEF Verifies

(***************************************************************************)
(* For any paths, lifetimes and machines whose clocks are within the       *)
(* tolerance: a token opens its path on each of them from the moment it is *)
(* issued to the last tick of its life, and nowhere once it is older than  *)
(* that and the tolerance (auth.rs: generate_hmac_token and                *)
(* verify_hmac_token).                                                     *)
(***************************************************************************)
THEOREM TokensTravel == AuthSpec => []TokenTravels
<1>1. AuthInit => TokenBorn
  BY DEF AuthInit, TokenBorn
<1> QED
  BY <1>1, TokenBornStep, BornTravels, PTL DEF AuthSpec

LEMMA TokenTyped ==
    AuthTypeOK /\ TokenBorn /\ [AuthNext]_authVars => AuthTypeOK'
<1> SUFFICES ASSUME AuthTypeOK, TokenBorn, [AuthNext]_authVars PROVE AuthTypeOK'
  OBVIOUS
<1>1. CASE UNCHANGED authVars
  BY <1>1 DEF authVars, AuthTypeOK
<1>2. CASE Tick
  BY <1>2, AuthAssumption DEF Tick, AuthTypeOK, TokenBorn
<1>3. ASSUME NEW m \in Machine, NEW scope \in Scope, NEW ttl \in Ttl, Issue(m, scope, ttl)
      PROVE  AuthTypeOK'
  BY <1>3, AuthAssumption DEF Issue, AuthTypeOK
<1> QED
  BY <1>1, <1>2, <1>3 DEF AuthNext

LEMMA AuthStart == AuthInit => AuthTypeOK /\ TokenBorn
BY AuthAssumption DEF AuthInit, AuthTypeOK, TokenBorn, NoToken

\* A token is for one of the scopes and is issued before now.
THEOREM AuthTypeCorrect == AuthSpec => []AuthTypeOK
<1>1. AuthTypeOK /\ TokenBorn /\ [AuthNext]_authVars => (AuthTypeOK /\ TokenBorn)'
  BY TokenTyped, TokenBornStep
<1> QED
  BY <1>1, AuthStart, PTL DEF AuthSpec


-----------------------------------------------------------------------------
(* The trust anchors.                                                      *)

Fetched ==
    [pc : {"idle", "fetch"}, xml : (0..edition) \cup {Unfetched}, p7s : (0..edition) \cup {Unfetched}]

\* The store and the syncers have only lists that IANA has published.
AnchorsInv ==
    /\ edition \in 1..MaxEdition
    /\ anchors \in 0..edition
    /\ expired \subseteq 1..(edition - 1)
    /\ sync \in [Syncer -> Fetched]
    /\ restarts \in Nat

LEMMA AnchorsStart == AnchorsInit => AnchorsInv
<1> SUFFICES ASSUME AnchorsInit PROVE AnchorsInv
  OBVIOUS
<1>1. NoSync \in Fetched
  BY DEF NoSync, Fetched
<1>2. sync \in [Syncer -> Fetched]
  BY <1>1 DEF AnchorsInit
<1> QED
  BY <1>2, AnchorsAssumption DEF AnchorsInit, AnchorsInv

LEMMA AnchorsTyped == AnchorsInv => AnchorsTypeOK
<1> SUFFICES ASSUME AnchorsInv PROVE AnchorsTypeOK
  OBVIOUS
<1>1. (0..edition) \cup {Unfetched} \subseteq 0..Unfetched
  BY AnchorsAssumption DEF AnchorsInv, Unfetched
<1>2. \A s \in Syncer : sync[s].xml \in 0..Unfetched /\ sync[s].p7s \in 0..Unfetched
  BY <1>1 DEF AnchorsInv, Fetched
<1> QED
  BY <1>2 DEF AnchorsInv, AnchorsTypeOK

LEMMA AnchorsStep == AnchorsInv /\ [AnchorsNext]_anchorsVars => AnchorsInv'
<1> SUFFICES ASSUME AnchorsInv, [AnchorsNext]_anchorsVars PROVE AnchorsInv'
  OBVIOUS
<1>n. /\ MaxEdition \in Nat \ {0} /\ edition \in 1..MaxEdition /\ Unfetched = MaxEdition + 1
      /\ anchors \in 0..edition /\ expired \subseteq 1..(edition - 1)
      /\ sync \in [Syncer -> Fetched] /\ restarts \in Nat
  BY AnchorsAssumption DEF AnchorsInv, Unfetched
<1>i. NoSync \in Fetched
  BY DEF NoSync, Fetched
\* Where no list is published it is enough that what a syncer has stays of its type.
<1>f. ASSUME UNCHANGED edition, anchors' \in 0..edition, expired' \subseteq 1..(edition - 1),
             sync' \in [Syncer -> Fetched], restarts' \in Nat
      PROVE  AnchorsInv'
  BY <1>n, <1>f DEF AnchorsInv, Fetched, Unfetched
<1>1. CASE UNCHANGED anchorsVars
  BY <1>1, <1>n, <1>f DEF anchorsVars
<1>2. CASE Republish
  <2>1. edition' \in 1..MaxEdition /\ edition' = edition + 1
    BY <1>2, <1>n DEF Republish
  <2>2. 0..edition \subseteq 0..edition' /\ 1..(edition - 1) \subseteq 1..(edition' - 1)
    BY <2>1, <1>n
  <2>3. Fetched \subseteq Fetched'
    BY <2>2 DEF Fetched, Unfetched
  <2>4. sync' \in [Syncer -> Fetched']
    BY <2>3, <1>2, <1>n DEF Republish
  <2> QED
    BY <1>2, <1>n, <2>1, <2>2, <2>4 DEF Republish, AnchorsInv
<1>3. ASSUME NEW e \in 1..MaxEdition, Expire(e) PROVE AnchorsInv'
  <2>1. expired' \subseteq 1..(edition - 1)
    BY <1>3, <1>n DEF Expire
  <2> QED
    BY <1>3, <1>n, <1>f, <2>1 DEF Expire
<1>4. ASSUME NEW s \in Syncer, StartSync(s) PROVE AnchorsInv'
  <2>1. sync' \in [Syncer -> Fetched]
    BY <1>4, <1>n DEF StartSync, Fetched
  <2> QED
    BY <1>4, <1>n, <1>f, <2>1 DEF StartSync
<1>5. ASSUME NEW s \in Syncer, NEW e \in {0, edition},
             FetchXml(s, e) \/ FetchSignature(s, e)
      PROVE  AnchorsInv'
  <2>1. e \in (0..edition) \cup {Unfetched}
    BY <1>n
  <2>2. sync' \in [Syncer -> Fetched]
    BY <1>5, <1>n, <2>1 DEF FetchXml, FetchSignature, Fetched
  <2> QED
    BY <1>5, <1>n, <1>f, <2>2 DEF FetchXml, FetchSignature
<1>6. ASSUME NEW s \in Syncer, Update(s) PROVE AnchorsInv'
  <2>1. sync[s].xml \in 0..edition
    BY <1>6, <1>n DEF Update, Fetched
  <2>2. anchors' \in 0..edition
    BY <1>6, <1>n, <2>1 DEF Update
  <2>3. sync' \in [Syncer -> Fetched]
    BY <1>6, <1>n, <1>i DEF Update
  <2> QED
    BY <1>6, <1>n, <1>f, <2>2, <2>3 DEF Update
<1>7. CASE Restart
  <2>1. sync' \in [Syncer -> Fetched]
    BY <1>7, <1>i DEF Restart
  <2> QED
    BY <1>7, <1>n, <1>f, <2>1 DEF Restart
<1> QED
  BY <1>1, <1>2, <1>3, <1>4, <1>5, <1>6, <1>7 DEF AnchorsNext

\* The action of AnchorsLive.
StoreKept ==
    anchors' # anchors /\ restarts' = restarts =>
        /\ anchors' \notin expired
        /\ \A s \in Syncer : sync[s] # sync'[s] => sync[s].p7s \in {0, sync[s].xml}

LEMMA AnchorsKeep == AnchorsInv /\ [AnchorsNext]_anchorsVars => [StoreKept]_anchorsVars
<1> SUFFICES ASSUME AnchorsInv, AnchorsNext, anchors' # anchors, restarts' = restarts
             PROVE  StoreKept
  BY DEF StoreKept
<1>1. ~Restart
  BY DEF Restart, AnchorsInv
<1>2. PICK s \in Syncer : Update(s)
  BY <1>1 DEF AnchorsNext, Republish, Expire, StartSync, FetchXml, FetchSignature
<1>3. anchors' = sync[s].xml /\ Trusted(s) /\ Usable(sync[s].xml)
  BY <1>2 DEF Update
<1>4. \A t \in Syncer : sync[t] # sync'[t] => t = s
  BY <1>2 DEF Update, AnchorsInv
<1>5. sync[s].p7s \in {0, sync[s].xml}
  BY <1>3 DEF Trusted, VerifySmime
<1> QED
  BY <1>3, <1>4, <1>5 DEF StoreKept, Usable

(***************************************************************************)
(* For any number of editions, restarts and syncs at once: the store is    *)
(* only ever replaced by a list with a live key, whose signature, when it  *)
(* was fetched, is that list's own (dnssec.rs: sync_from_iana and          *)
(* parse_and_update).                                                      *)
(***************************************************************************)
THEOREM StoreStaysLive == AnchorsSpec => AnchorsLive
<1> QED
  BY AnchorsStart, AnchorsStep, AnchorsKeep, PTL DEF AnchorsSpec, AnchorsLive, StoreKept

\* Syncers and store hold only what was published.
THEOREM AnchorsTypeCorrect == AnchorsSpec => []AnchorsTypeOK
<1> QED
  BY AnchorsStart, AnchorsStep, AnchorsTyped, PTL DEF AnchorsSpec


-----------------------------------------------------------------------------
(* The Instant Shield.                                                     *)

\* The operations that undo each other's work when they overlap.
Apart ==
    /\ {"toggle"} \notin Overlap
    /\ {"save", "clear"} \notin Overlap
    /\ {"save", "sync"} \notin Overlap /\ {"save", "boot"} \notin Overlap
    /\ {"clear", "sync"} \notin Overlap /\ {"clear", "boot"} \notin Overlap

\* What a call of each operation goes through.
Compiling == {"fetch", "store exact", "store wild", "store sources"}
Calls(whats, steps) == [op : whats, pc : steps, given : SUBSET Source, got : SUBSET Source]
AnyCall ==
    {NoCall} \cup Calls({"save"}, Compiling \cup {"write"})
             \cup Calls({"sync", "boot"}, Compiling)
             \cup Calls({"clear"}, {"clear exact", "clear wild", "write none"})
             \cup Calls({"toggle"}, {"append on", "append off"})

ShieldTyped ==
    /\ call \in [Caller -> AnyCall]
    /\ saved \in [sources : SUBSET Source, enabled : BOOLEAN]
    /\ sources \in SUBSET Source /\ enabled \in BOOLEAN

OverlapAllowed ==
    \A c, d \in Caller :
       c # d /\ call[c].op # "none" /\ call[d].op # "none" => {call[c].op, call[d].op} \in Overlap

\* What is stored is what is written, or a call is still to write it; and no call
\* that is under way stores or writes anything else than what is in force.
Written ==
    /\ (\E c \in Caller : call[c].pc = "write" \/ call[c].op = "clear") \/ saved.sources = sources
    /\ (\E c \in Caller : call[c].op = "toggle") \/ saved.enabled = enabled
Agrees ==
    \A c \in Caller :
       /\ call[c].op = "clear" => sources = {}
       /\ call[c].op \in {"sync", "boot"} => call[c].given = sources
       /\ call[c].pc = "append on" => enabled = TRUE
       /\ call[c].pc = "append off" => enabled = FALSE

ShieldInv == ShieldTyped /\ OverlapAllowed /\ Written /\ Agrees

LEMMA NoCallTyped == NoCall \in AnyCall /\ NoCall.op = "none" /\ NoCall.pc = "none"
BY DEF NoCall, Call, AnyCall

LEMMA CallTyped ==
    ASSUME NEW x \in AnyCall
    PROVE  /\ x = NoCall <=> x.op = "none"
           /\ x = NoCall <=> x.pc = "none"
           /\ x.pc \in Compiling => x.op \in {"save", "sync", "boot"}
           /\ x.pc = "write" => x.op = "save"
           /\ x.pc \in {"clear exact", "clear wild", "write none"} <=> x.op = "clear"
           /\ x.pc \in {"append on", "append off"} <=> x.op = "toggle"
           /\ x.given \subseteq Source /\ x.got \subseteq Source
<1>1. CASE x = NoCall
  BY <1>1, Zenon DEF NoCall, Call, Compiling
<1>2. CASE x \in Calls({"save"}, Compiling \cup {"write"})
  BY <1>2, NoCallTyped DEF Calls, Compiling
<1>3. CASE x \in Calls({"sync", "boot"}, Compiling)
  BY <1>3, NoCallTyped DEF Calls, Compiling
<1>4. CASE x \in Calls({"clear"}, {"clear exact", "clear wild", "write none"})
  BY <1>4, NoCallTyped DEF Calls, Compiling
<1>5. CASE x \in Calls({"toggle"}, {"append on", "append off"})
  BY <1>5, NoCallTyped DEF Calls, Compiling
<1> QED
  BY <1>1, <1>2, <1>3, <1>4, <1>5 DEF AnyCall

\* Two operations that must stay apart are not under way at once.
LEMMA NeverTogether ==
    ASSUME Apart, OverlapAllowed, NEW c \in Caller, NEW d \in Caller, c # d
    PROVE  /\ ~(call[c].op = "toggle" /\ call[d].op = "toggle")
           /\ ~(call[c].op = "save" /\ call[d].op \in {"clear", "sync", "boot"})
           /\ ~(call[c].op = "clear" /\ call[d].op \in {"save", "sync", "boot"})
<1>1. {"toggle", "toggle"} = {"toggle"}
  OBVIOUS
<1>2. \A x, y : {x, y} = {y, x}
  OBVIOUS
<1>3. call[c].op # "none" /\ call[d].op # "none" => {call[c].op, call[d].op} \in Overlap
  BY DEF OverlapAllowed
<1>4. call[c].op # "none" /\ call[d].op # "none" => {call[d].op, call[c].op} \in Overlap
  BY <1>2, <1>3
<1> QED
  BY <1>1, <1>3, <1>4, Zenon DEF Apart

\* One call moves on, ends, or begins when it may.
LEMMA OneMoves ==
    ASSUME ShieldInv, NEW c \in Caller, NEW r \in AnyCall, call' = [call EXCEPT ![c] = r],
           \/ r.op \in {"none", call[c].op}
           \/ MayBegin(r.op)
    PROVE  /\ call' \in [Caller -> AnyCall] /\ call'[c] = r
           /\ \A d \in Caller : d # c => call'[d] = call[d]
           /\ OverlapAllowed'
<1>1. /\ call' \in [Caller -> AnyCall] /\ call'[c] = r
      /\ \A d \in Caller : d # c => call'[d] = call[d]
  BY DEF ShieldInv, ShieldTyped
<1>2. ASSUME NEW a \in Caller, NEW b \in Caller, a # b,
             call'[a].op # "none", call'[b].op # "none"
      PROVE  {call'[a].op, call'[b].op} \in Overlap
  <2>n. \A d \in Caller : call[d] = NoCall <=> call[d].op = "none"
    BY CallTyped DEF ShieldInv, ShieldTyped
  <2>s. \A x, y : {x, y} = {y, x}
    OBVIOUS
  <2>1. CASE r.op \in {"none", call[c].op}
    <3>1. call'[a].op = call[a].op /\ call'[b].op = call[b].op
      BY <1>1, <1>2, <2>1, Zenon
    <3> QED
      BY <1>2, <3>1 DEF ShieldInv, OverlapAllowed
  <2>2. ASSUME MayBegin(r.op) PROVE {call'[a].op, call'[b].op} \in Overlap
    <3>1. \A d \in Caller : call[d].op # "none" => {r.op, call[d].op} \in Overlap
      BY <2>2, <2>n, Zenon DEF MayBegin
    <3>2. CASE a = c
      BY <1>1, <1>2, <3>1, <3>2, Zenon
    <3>3. CASE b = c
      <4>1. {call'[b].op, call'[a].op} \in Overlap
        BY <1>1, <1>2, <3>1, <3>3, Zenon
      <4> QED
        BY <2>s, <4>1, Zenon
    <3>4. CASE a # c /\ b # c
      BY <1>1, <1>2, <3>4, Zenon DEF ShieldInv, OverlapAllowed
    <3> QED
      BY <3>2, <3>3, <3>4
  <2> QED
    BY <2>1, <2>2
<1> QED
  BY <1>1, <1>2 DEF OverlapAllowed

LEMMA ShieldStart == ShieldInit => ShieldInv
<1> SUFFICES ASSUME ShieldInit PROVE ShieldInv
  OBVIOUS
<1>1. /\ sources \in SUBSET Source /\ enabled = TRUE
      /\ saved = [sources |-> sources, enabled |-> TRUE]
  <2>1. PICK given \in SUBSET Source : saved = [sources |-> given, enabled |-> TRUE]
    BY Zenon DEF ShieldInit
  <2>2. sources = saved.sources /\ enabled = saved.enabled
    BY DEF ShieldInit
  <2> QED
    BY <2>1, <2>2
<1>2. Call("boot", "fetch", sources) \in AnyCall /\ Call("boot", "fetch", sources).op = "boot"
      /\ Call("boot", "fetch", sources).pc = "fetch"
      /\ Call("boot", "fetch", sources).given = sources
  BY <1>1 DEF Call, AnyCall, Calls, Compiling
<1>3. \A c \in Caller :
         \/ call[c] = NoCall
         \/ c = Boot /\ call[c] = Call("boot", "fetch", sources)
  BY DEF ShieldInit
<1>4. call \in [Caller -> AnyCall]
  BY <1>1, <1>2, NoCallTyped DEF ShieldInit
<1>5. ShieldTyped
  BY <1>1, <1>4 DEF ShieldTyped
<1>6. OverlapAllowed
  BY <1>3, NoCallTyped, Zenon DEF OverlapAllowed
<1>7. Written
  BY <1>1 DEF Written
<1>8. Agrees
  BY <1>2, <1>3, NoCallTyped DEF Agrees
<1> QED
  BY <1>5, <1>6, <1>7, <1>8 DEF ShieldInv

LEMMA BeginStep ==
    ASSUME Apart, ShieldInv, NEW a \in Admin,
           \/ Sync(a) \/ ClearSources(a)
           \/ \E given \in SUBSET Source : Save(a, given)
           \/ \E to \in BOOLEAN : Toggle(a, to)
    PROVE  ShieldInv'
<1>a. a \in Caller
  BY DEF Caller
<1>t. /\ call \in [Caller -> AnyCall] /\ OverlapAllowed /\ Written /\ Agrees
      /\ saved \in [sources : SUBSET Source, enabled : BOOLEAN]
      /\ sources \in SUBSET Source /\ enabled \in BOOLEAN
  BY DEF ShieldInv, ShieldTyped
<1>c. \A c \in Caller : call[c] = NoCall <=> call[c].op = "none"
  BY <1>t, CallTyped
<1>p. \A c \in Caller : call[c].pc \in {"append on", "append off"} <=> call[c].op = "toggle"
  BY <1>t, CallTyped
<1>1. ASSUME NEW r \in AnyCall, call[a] = NoCall, call' = [call EXCEPT ![a] = r], MayBegin(r.op),
             saved' = saved
      PROVE  /\ call' \in [Caller -> AnyCall] /\ OverlapAllowed' /\ call'[a] = r
             /\ \A c \in Caller : c # a => call'[c] = call[c]
             /\ sources' = sources => (Written => Written' \/ enabled' # enabled)
  <2>1. /\ call' \in [Caller -> AnyCall] /\ OverlapAllowed' /\ call'[a] = r
        /\ \A c \in Caller : c # a => call'[c] = call[c]
    BY <1>1, <1>a, OneMoves
  <2>2. call[a].op = "none" /\ call[a].pc = "none"
    BY <1>1, NoCallTyped
  <2>3. (\E c \in Caller : call[c].pc = "write" \/ call[c].op = "clear")
          => (\E c \in Caller : call'[c].pc = "write" \/ call'[c].op = "clear")
    BY <2>1, <2>2, Zenon
  <2>4. (\E c \in Caller : call[c].op = "toggle") => (\E c \in Caller : call'[c].op = "toggle")
    BY <2>1, <2>2, Zenon
  <2> QED
    BY <1>1, <2>1, <2>3, <2>4 DEF Written
<1>2. CASE Sync(a)
  <2> DEFINE r == Call("sync", "fetch", sources)
  <2>1. r \in AnyCall /\ r.op = "sync" /\ r.pc = "fetch" /\ r.given = sources
    BY <1>t DEF Call, AnyCall, Calls, Compiling
  <2>2. /\ call[a] = NoCall /\ MayBegin("sync") /\ call' = [call EXCEPT ![a] = r]
        /\ sources' = sources /\ enabled' = enabled /\ saved' = saved
    BY <1>2 DEF Sync, rules
  <2> HIDE DEF r
  <2>3. /\ call' \in [Caller -> AnyCall] /\ OverlapAllowed' /\ call'[a] = r /\ Written'
        /\ \A c \in Caller : c # a => call'[c] = call[c]
    BY <1>1, <1>t, <2>1, <2>2
  <2>4. Agrees'
    <3> SUFFICES ASSUME NEW c \in Caller
                 PROVE  /\ call'[c].op = "clear" => sources' = {}
                        /\ call'[c].op \in {"sync", "boot"} => call'[c].given = sources'
                        /\ call'[c].pc = "append on" => enabled' = TRUE
                        /\ call'[c].pc = "append off" => enabled' = FALSE
      BY DEF Agrees
    <3>1. CASE c = a
      BY <2>1, <2>3, <2>2, <3>1
    <3>2. CASE c # a
      BY <1>t, <2>2, <2>3, <3>2 DEF Agrees
    <3> QED
      BY <3>1, <3>2
  <2> QED
    BY <1>t, <2>2, <2>3, <2>4 DEF ShieldInv, ShieldTyped
<1>3. ASSUME NEW given \in SUBSET Source, Save(a, given) PROVE ShieldInv'
  <2> DEFINE r == Call("save", "fetch", given)
  <2>1. r \in AnyCall /\ r.op = "save" /\ r.pc = "fetch"
    BY DEF Call, AnyCall, Calls, Compiling
  <2>2. /\ call[a] = NoCall /\ MayBegin("save") /\ call' = [call EXCEPT ![a] = r]
        /\ sources' = sources /\ enabled' = enabled /\ saved' = saved
    BY <1>3 DEF Save, rules
  <2> HIDE DEF r
  <2>3. /\ call' \in [Caller -> AnyCall] /\ OverlapAllowed' /\ call'[a] = r /\ Written'
        /\ \A c \in Caller : c # a => call'[c] = call[c]
    BY <1>1, <1>t, <2>1, <2>2
  <2>4. Agrees'
    <3> SUFFICES ASSUME NEW c \in Caller
                 PROVE  /\ call'[c].op = "clear" => sources' = {}
                        /\ call'[c].op \in {"sync", "boot"} => call'[c].given = sources'
                        /\ call'[c].pc = "append on" => enabled' = TRUE
                        /\ call'[c].pc = "append off" => enabled' = FALSE
      BY DEF Agrees
    <3>1. CASE c = a
      BY <2>1, <2>3, <2>2, <3>1
    <3>2. CASE c # a
      BY <1>t, <2>2, <2>3, <3>2 DEF Agrees
    <3> QED
      BY <3>1, <3>2
  <2> QED
    BY <1>t, <2>2, <2>3, <2>4 DEF ShieldInv, ShieldTyped
<1>4. CASE ClearSources(a)
  <2> DEFINE r == Call("clear", "clear exact", {})
  <2>1. r \in AnyCall /\ r.op = "clear" /\ r.pc = "clear exact"
    BY DEF Call, AnyCall, Calls, Compiling
  <2>2. /\ call[a] = NoCall /\ MayBegin("clear") /\ call' = [call EXCEPT ![a] = r]
        /\ sources' = {} /\ enabled' = enabled /\ saved' = saved
    BY <1>4 DEF ClearSources
  <2> HIDE DEF r
  <2>3. /\ call' \in [Caller -> AnyCall] /\ OverlapAllowed' /\ call'[a] = r
        /\ \A c \in Caller : c # a => call'[c] = call[c]
    BY <1>1, <2>1, <2>2
  <2>4. \A c \in Caller : c # a => ~(call'[a].op = "clear" /\ call'[c].op \in {"save", "sync", "boot"})
    <3>1. \A c \in Caller : c # a => (call'[c].op \in {"save", "sync", "boot"} =>
                {"clear", call'[c].op} \in Overlap)
      BY <1>a, <2>1, <2>3, Zenon DEF OverlapAllowed
    <3>2. {"clear", "save"} = {"save", "clear"}
      OBVIOUS
    <3> QED
      BY <3>1, <3>2, Zenon DEF Apart
  <2>5. Written'
    <3>1. \E c \in Caller : call'[c].pc = "write" \/ call'[c].op = "clear"
      BY <1>a, <2>1, <2>3, Zenon
    <3>2. call[a].op = "none"
      BY <2>2, NoCallTyped
    <3>3. (\E c \in Caller : call[c].op = "toggle") => (\E c \in Caller : call'[c].op = "toggle")
      BY <2>3, <3>2, Zenon
    <3> QED
      BY <1>t, <2>2, <3>1, <3>3 DEF Written
  <2>6. Agrees'
    <3> SUFFICES ASSUME NEW c \in Caller
                 PROVE  /\ call'[c].op \in {"sync", "boot"} => call'[c].given = sources'
                        /\ call'[c].pc = "append on" => enabled' = TRUE
                        /\ call'[c].pc = "append off" => enabled' = FALSE
      BY <2>2 DEF Agrees
    <3>1. CASE c = a
      BY <2>1, <2>3, <2>2, <3>1
    <3>2. CASE c # a
      BY <1>t, <2>1, <2>2, <2>3, <2>4, <3>2 DEF Agrees
    <3> QED
      BY <3>1, <3>2
  <2> QED
    BY <1>t, <2>2, <2>3, <2>5, <2>6 DEF ShieldInv, ShieldTyped
<1>5. ASSUME NEW to \in BOOLEAN, Toggle(a, to) PROVE ShieldInv'
  <2> DEFINE r == Call("toggle", IF to THEN "append on" ELSE "append off", {})
  <2>1. /\ r.op = "toggle" /\ (r.pc = "append on" <=> to) /\ (r.pc = "append off" <=> ~to)
        /\ r.given = {} /\ r.got = {} /\ r.pc \in {"append on", "append off"}
    BY DEF Call
  <2>2. r \in AnyCall
    BY <2>1 DEF Call, AnyCall, Calls
  <2>3. /\ call[a] = NoCall /\ MayBegin("toggle") /\ call' = [call EXCEPT ![a] = r]
        /\ sources' = sources /\ enabled' = to /\ saved' = saved
    BY <1>5 DEF Toggle, rules
  <2> HIDE DEF r
  <2>4. /\ call' \in [Caller -> AnyCall] /\ OverlapAllowed' /\ call'[a] = r
        /\ \A c \in Caller : c # a => call'[c] = call[c]
    BY <1>1, <2>1, <2>2, <2>3
  <2>5. \A c \in Caller : c # a => call'[c].op # "toggle"
    <3>1. \A c \in Caller : c # a => (call'[c].op = "toggle" => {"toggle", "toggle"} \in Overlap)
      BY <1>a, <2>1, <2>4, Zenon DEF OverlapAllowed
    <3>2. {"toggle", "toggle"} = {"toggle"}
      OBVIOUS
    <3> QED
      BY <3>1, <3>2 DEF Apart
  <2>6. Written'
    <3>1. \E c \in Caller : call'[c].op = "toggle"
      BY <1>a, <2>1, <2>4, Zenon
    <3>2. call[a].op = "none" /\ call[a].pc = "none"
      BY <2>3, NoCallTyped
    <3>3. (\E c \in Caller : call[c].pc = "write" \/ call[c].op = "clear")
            => (\E c \in Caller : call'[c].pc = "write" \/ call'[c].op = "clear")
      BY <2>4, <3>2, Zenon
    <3> QED
      BY <1>t, <2>3, <3>1, <3>3 DEF Written
  <2>7. Agrees'
    <3> SUFFICES ASSUME NEW c \in Caller
                 PROVE  /\ call'[c].op = "clear" => sources' = {}
                        /\ call'[c].op \in {"sync", "boot"} => call'[c].given = sources'
                        /\ call'[c].pc = "append on" => enabled' = TRUE
                        /\ call'[c].pc = "append off" => enabled' = FALSE
      BY DEF Agrees
    <3>1. CASE c = a
      BY <2>1, <2>3, <2>4, <3>1
    <3>2. CASE c # a
      <4>1. call'[c].pc \notin {"append on", "append off"}
        BY <1>p, <2>4, <2>5, <3>2
      <4> QED
        BY <1>t, <2>3, <2>4, <3>2, <4>1 DEF Agrees
    <3> QED
      BY <3>1, <3>2
  <2> QED
    BY <1>t, <2>3, <2>4, <2>6, <2>7 DEF ShieldInv, ShieldTyped
<1> QED
  BY <1>2, <1>3, <1>4, <1>5

LEMMA CompileStep ==
    ASSUME Apart, ShieldInv, NEW c \in Caller,
           \/ StoreDomains(c) \/ StoreWildcards(c) \/ ClearRules(c)
           \/ \E failing \in SUBSET Remote : Compile(c, failing)
    PROVE  ShieldInv'
<1>t. /\ call \in [Caller -> AnyCall] /\ OverlapAllowed /\ Written /\ Agrees
      /\ saved \in [sources : SUBSET Source, enabled : BOOLEAN]
      /\ sources \in SUBSET Source /\ enabled \in BOOLEAN
  BY DEF ShieldInv, ShieldTyped
\* None of these steps touches what the invariant is about, except the call's own place.
<1>1. PICK r \in AnyCall :
         /\ call' = [call EXCEPT ![c] = r]
         /\ r.op = call[c].op /\ r.given = call[c].given
         /\ call[c].pc # "write" /\ call[c].op # "none"
         /\ r.pc \notin {"append on", "append off"}
  <2>1. CASE StoreDomains(c)
    <3> DEFINE r == [call[c] EXCEPT !.pc = "store wild"]
    <3>1. call' = [call EXCEPT ![c] = r] /\ call[c].pc = "store exact"
      BY <2>1 DEF StoreDomains, At, Goto
    <3>2. r \in AnyCall /\ r.op = call[c].op /\ r.given = call[c].given /\ r.pc = "store wild"
          /\ call[c].op # "none"
      BY <1>t, <3>1, NoCallTyped DEF AnyCall, Calls, Compiling
    <3> QED
      BY <3>1, <3>2
  <2>2. CASE StoreWildcards(c)
    <3> DEFINE r == [call[c] EXCEPT !.pc = "store sources"]
    <3>1. call' = [call EXCEPT ![c] = r] /\ call[c].pc = "store wild"
      BY <2>2 DEF StoreWildcards, At, Goto
    <3>2. r \in AnyCall /\ r.op = call[c].op /\ r.given = call[c].given /\ r.pc = "store sources"
          /\ call[c].op # "none"
      BY <1>t, <3>1, NoCallTyped DEF AnyCall, Calls, Compiling
    <3> QED
      BY <3>1, <3>2
  <2>3. CASE ClearRules(c)
    <3>1. PICK step \in {"clear wild", "write none"} :
             /\ call' = [call EXCEPT ![c] = [call[c] EXCEPT !.pc = step]]
             /\ call[c].pc \in {"clear exact", "clear wild"}
      BY <2>3 DEF ClearRules, At, Goto
    <3> DEFINE r == [call[c] EXCEPT !.pc = step]
    <3>2. r \in AnyCall /\ r.op = call[c].op /\ r.given = call[c].given /\ r.pc = step
          /\ call[c].op # "none"
      BY <1>t, <3>1, NoCallTyped DEF AnyCall, Calls, Compiling
    <3> QED
      BY <3>1, <3>2
  <2>4. ASSUME NEW failing \in SUBSET Remote, Compile(c, failing)
        PROVE  \E r \in AnyCall :
                  /\ call' = [call EXCEPT ![c] = r]
                  /\ r.op = call[c].op /\ r.given = call[c].given
                  /\ call[c].pc # "write" /\ call[c].op # "none"
                  /\ r.pc \notin {"append on", "append off"}
    <3> DEFINE r == [call[c] EXCEPT !.got = call[c].given \ failing, !.pc = "store exact"]
    <3>1. call' = [call EXCEPT ![c] = r] /\ call[c].pc = "fetch"
      BY <2>4 DEF Compile, At
    <3>2. call[c].given \ failing \in SUBSET Source
      BY <1>t, CallTyped
    <3>3. r \in AnyCall /\ r.op = call[c].op /\ r.given = call[c].given /\ r.pc = "store exact"
          /\ call[c].op # "none"
      BY <1>t, <3>1, <3>2, NoCallTyped DEF AnyCall, Calls, Compiling
    <3> QED
      BY <3>1, <3>3
  <2> QED
    BY <2>1, <2>2, <2>3, <2>4
<1>2. sources' = sources /\ enabled' = enabled /\ saved' = saved
  BY DEF StoreDomains, StoreWildcards, ClearRules, Compile, rules
<1>3. /\ call' \in [Caller -> AnyCall] /\ OverlapAllowed' /\ call'[c] = r
      /\ \A d \in Caller : d # c => call'[d] = call[d]
  BY <1>1, OneMoves
<1>4. Written'
  <2>1. (\E d \in Caller : call[d].pc = "write" \/ call[d].op = "clear")
          => (\E d \in Caller : call'[d].pc = "write" \/ call'[d].op = "clear")
    BY <1>1, <1>3, Zenon
  <2>2. (\E d \in Caller : call[d].op = "toggle") => (\E d \in Caller : call'[d].op = "toggle")
    BY <1>1, <1>3, Zenon
  <2> QED
    BY <1>t, <1>2, <2>1, <2>2 DEF Written
<1>5. Agrees'
  <2> SUFFICES ASSUME NEW d \in Caller
               PROVE  /\ call'[d].op = "clear" => sources' = {}
                      /\ call'[d].op \in {"sync", "boot"} => call'[d].given = sources'
                      /\ call'[d].pc = "append on" => enabled' = TRUE
                      /\ call'[d].pc = "append off" => enabled' = FALSE
    BY DEF Agrees
  <2>1. CASE d = c
    BY <1>t, <1>1, <1>2, <1>3, <2>1 DEF Agrees
  <2>2. CASE d # c
    BY <1>t, <1>2, <1>3, <2>2 DEF Agrees
  <2> QED
    BY <2>1, <2>2
<1> QED
  BY <1>t, <1>2, <1>3, <1>4, <1>5 DEF ShieldInv, ShieldTyped

LEMMA StoreStep ==
    ASSUME Apart, ShieldInv, NEW c \in Caller, StoreSources(c)
    PROVE  ShieldInv'
<1>t. /\ call \in [Caller -> AnyCall] /\ OverlapAllowed /\ Written /\ Agrees
      /\ saved \in [sources : SUBSET Source, enabled : BOOLEAN]
      /\ sources \in SUBSET Source /\ enabled \in BOOLEAN
  BY DEF ShieldInv, ShieldTyped
<1>1. /\ call[c].pc = "store sources" /\ sources' = call[c].given
      /\ enabled' = enabled /\ saved' = saved
  BY DEF StoreSources, At
<1>2. call[c].op \in {"save", "sync", "boot"} /\ call[c].given \in SUBSET Source
  BY <1>t, <1>1, CallTyped DEF Compiling
<1>3. CASE call[c].op = "save"
  <2> DEFINE r == [call[c] EXCEPT !.pc = "write"]
  <2>1. call' = [call EXCEPT ![c] = r]
    BY <1>3 DEF StoreSources, Goto
  <2>2. r \in AnyCall /\ r.op = "save" /\ r.pc = "write"
    <3>1. call[c] \in AnyCall /\ call[c].op = "save"
      BY <1>t, <1>3
    <3>2. call[c] \in Calls({"save"}, Compiling \cup {"write"})
      BY <3>1, NoCallTyped DEF AnyCall, Calls
    <3>3. r \in Calls({"save"}, Compiling \cup {"write"}) /\ r.op = "save" /\ r.pc = "write"
      BY <3>2 DEF Calls
    <3> QED
      BY <3>3 DEF AnyCall
  <2> HIDE DEF r
  <2>3. /\ call' \in [Caller -> AnyCall] /\ OverlapAllowed' /\ call'[c] = r
        /\ \A d \in Caller : d # c => call'[d] = call[d]
    BY <1>3, <2>1, <2>2, OneMoves
  <2>4. Written'
    <3>1. \E d \in Caller : call'[d].pc = "write" \/ call'[d].op = "clear"
      BY <2>2, <2>3, Zenon
    <3>2. (\E d \in Caller : call[d].op = "toggle") => (\E d \in Caller : call'[d].op = "toggle")
      BY <1>3, <2>3, Zenon
    <3> QED
      BY <1>t, <1>1, <3>1, <3>2 DEF Written
  <2>5. Agrees'
    <3> SUFFICES ASSUME NEW d \in Caller
                 PROVE  /\ call'[d].op = "clear" => sources' = {}
                        /\ call'[d].op \in {"sync", "boot"} => call'[d].given = sources'
                        /\ call'[d].pc = "append on" => enabled' = TRUE
                        /\ call'[d].pc = "append off" => enabled' = FALSE
      BY DEF Agrees
    <3>1. CASE d = c
      BY <2>2, <2>3, <3>1
    <3>2. CASE d # c
      <4>1. call'[d].op \notin {"clear", "sync", "boot"}
        BY <1>t, <1>3, <2>3, <3>2, NeverTogether
      <4> QED
        BY <1>t, <1>1, <2>3, <3>2, <4>1 DEF Agrees
    <3> QED
      BY <3>1, <3>2
  <2> QED
    BY <1>t, <1>1, <1>2, <2>3, <2>4, <2>5 DEF ShieldInv, ShieldTyped
<1>4. CASE call[c].op # "save"
  <2>1. call' = [call EXCEPT ![c] = NoCall]
    BY <1>4 DEF StoreSources, Done
  <2>2. sources' = sources
    BY <1>t, <1>1, <1>2, <1>4 DEF Agrees
  <2>3. /\ call' \in [Caller -> AnyCall] /\ OverlapAllowed' /\ call'[c] = NoCall
        /\ \A d \in Caller : d # c => call'[d] = call[d]
    BY <2>1, NoCallTyped, OneMoves
  <2>4. Written'
    <3>1. call[c].pc # "write" /\ call[c].op \notin {"clear", "toggle"}
      BY <1>1, <1>2
    <3>2. (\E d \in Caller : call[d].pc = "write" \/ call[d].op = "clear")
            => (\E d \in Caller : call'[d].pc = "write" \/ call'[d].op = "clear")
      BY <2>3, <3>1, Zenon
    <3>3. (\E d \in Caller : call[d].op = "toggle") => (\E d \in Caller : call'[d].op = "toggle")
      BY <2>3, <3>1, Zenon
    <3> QED
      BY <1>t, <1>1, <2>2, <3>2, <3>3 DEF Written
  <2>5. Agrees'
    BY <1>t, <1>1, <2>2, <2>3, NoCallTyped DEF Agrees
  <2> QED
    BY <1>t, <1>1, <2>2, <2>3, <2>4, <2>5 DEF ShieldInv, ShieldTyped
<1> QED
  BY <1>3, <1>4

LEMMA WriteStep ==
    ASSUME Apart, ShieldInv, NEW c \in Caller, Write(c)
    PROVE  ShieldInv'
<1>t. /\ call \in [Caller -> AnyCall] /\ OverlapAllowed /\ Written /\ Agrees
      /\ saved \in [sources : SUBSET Source, enabled : BOOLEAN]
      /\ sources \in SUBSET Source /\ enabled \in BOOLEAN
  BY DEF ShieldInv, ShieldTyped
<1>1. /\ call' = [call EXCEPT ![c] = NoCall] /\ sources' = sources /\ enabled' = enabled
  BY DEF Write, Done, rules
<1>2. /\ call' \in [Caller -> AnyCall] /\ OverlapAllowed' /\ call'[c] = NoCall
      /\ \A d \in Caller : d # c => call'[d] = call[d]
  BY <1>1, NoCallTyped, OneMoves
<1>3. Agrees'
  BY <1>t, <1>1, <1>2, NoCallTyped DEF Agrees
<1>k. call[c].pc \in {"append on", "append off"} <=> call[c].op = "toggle"
  BY <1>t, CallTyped
<1>4. CASE call[c].pc \in {"write", "write none"}
  <2>1. call[c].pc = "write none" => sources = {}
    BY <1>t, CallTyped DEF Agrees
  <2>2. saved' = [saved EXCEPT !.sources = sources]
    BY <1>4, <2>1 DEF Write, At, ToWrite
  <2>3. saved'.sources = sources /\ saved'.enabled = saved.enabled
        /\ saved' \in [sources : SUBSET Source, enabled : BOOLEAN]
    BY <1>t, <2>2
  <2>4. call[c].op # "toggle"
    BY <1>4, <1>k
  <2>5. (\E d \in Caller : call[d].op = "toggle") => (\E d \in Caller : call'[d].op = "toggle")
    BY <1>2, <2>4, Zenon
  <2>6. Written'
    BY <1>t, <1>1, <2>3, <2>5 DEF Written
  <2> QED
    BY <1>t, <1>1, <1>2, <1>3, <2>3, <2>6 DEF ShieldInv, ShieldTyped
<1>5. CASE call[c].pc \in {"append on", "append off"}
  <2>1. saved' = [saved EXCEPT !.enabled = enabled]
    BY <1>t, <1>5 DEF Write, At, Agrees
  <2>2. saved'.enabled = enabled /\ saved'.sources = saved.sources
        /\ saved' \in [sources : SUBSET Source, enabled : BOOLEAN]
    BY <1>t, <2>1
  <2>3. call[c].op = "toggle" /\ call[c].pc # "write"
    BY <1>5, <1>k
  <2>4. (\E d \in Caller : call[d].pc = "write" \/ call[d].op = "clear")
          => (\E d \in Caller : call'[d].pc = "write" \/ call'[d].op = "clear")
    BY <1>2, <2>3, Zenon
  <2>5. Written'
    BY <1>t, <1>1, <2>2, <2>4 DEF Written
  <2> QED
    BY <1>t, <1>1, <1>2, <1>3, <2>2, <2>5 DEF ShieldInv, ShieldTyped
<1> QED
  BY <1>4, <1>5 DEF Write, At

LEMMA RebootStep ==
    ASSUME ShieldInv, Reboot
    PROVE  ShieldInv'
<1>1. /\ saved \in [sources : SUBSET Source, enabled : BOOLEAN]
      /\ sources' = saved.sources /\ enabled' = saved.enabled /\ saved' = saved
      /\ \A c \in Caller :
            \/ call'[c] = NoCall
            \/ c = Boot /\ call'[c] = Call("boot", "fetch", saved.sources)
  BY DEF Reboot, ShieldInv, ShieldTyped
<1>2. Call("boot", "fetch", saved.sources) \in AnyCall
      /\ Call("boot", "fetch", saved.sources).op = "boot"
      /\ Call("boot", "fetch", saved.sources).pc = "fetch"
      /\ Call("boot", "fetch", saved.sources).given = saved.sources
  BY <1>1 DEF Call, AnyCall, Calls, Compiling
<1>3. call' \in [Caller -> AnyCall]
  BY <1>2, NoCallTyped DEF Reboot
<1>4. ShieldTyped'
  BY <1>1, <1>3 DEF ShieldTyped
<1>5. OverlapAllowed'
  BY <1>1, NoCallTyped, Zenon DEF OverlapAllowed
<1>6. Written'
  BY <1>1 DEF Written
<1>7. Agrees'
  BY <1>1, <1>2, NoCallTyped DEF Agrees
<1> QED
  BY <1>4, <1>5, <1>6, <1>7 DEF ShieldInv

LEMMA ShieldStep ==
    ASSUME Apart
    PROVE  ShieldInv /\ [ShieldNext]_shieldVars => ShieldInv'
<1> SUFFICES ASSUME ShieldInv, [ShieldNext]_shieldVars PROVE ShieldInv'
  OBVIOUS
<1>1. CASE UNCHANGED shieldVars
  BY <1>1 DEF shieldVars, ShieldInv, ShieldTyped, OverlapAllowed, Written, Agrees
<1>2. CASE ShieldNext
  BY <1>2, BeginStep, CompileStep, StoreStep, WriteStep, RebootStep DEF ShieldNext
<1> QED
  BY <1>1, <1>2

LEMMA ShieldSaved == ShieldInv => SavedIsStored
<1> SUFFICES ASSUME ShieldInv, \A c \in Caller : call[c] = NoCall
             PROVE  saved = [sources |-> sources, enabled |-> enabled]
  BY DEF SavedIsStored
<1>1. saved.sources = sources /\ saved.enabled = enabled
  BY NoCallTyped DEF ShieldInv, Written
<1> QED
  BY <1>1 DEF ShieldInv, ShieldTyped

(***************************************************************************)
(* For any sources, lists that fail, callers and restarts: whenever no     *)
(* call is under way, a restart would bring back the sources and the       *)
(* switch in force.  Saves may overlap with each other and with switches,  *)
(* syncs with the boot; the pairs that Apart names may not, as each of     *)
(* them leaves one outcome in force and another in the log (system.rs,     *)
(* wal.rs: save_instant_block_sources and toggle_instant_block).           *)
(***************************************************************************)
THEOREM LogHasShield ==
    ASSUME Apart
    PROVE  ShieldSpec => []SavedIsStored
<1>1. ShieldInv /\ [ShieldNext]_shieldVars => ShieldInv'
  BY ShieldStep
<1> QED
  BY <1>1, ShieldStart, ShieldSaved, PTL DEF ShieldSpec

\* What a call may be at, whichever calls are under way with it.
AnyStep ==
    [op : {"none", "save", "sync", "clear", "toggle", "boot"},
     pc : {"none", "write", "clear exact", "clear wild", "write none", "append on", "append off"}
             \cup Compiling,
     given : SUBSET Source, got : SUBSET Source]
ShieldTypes ==
    /\ call \in [Caller -> AnyStep] /\ \A c \in Caller : call[c].got \subseteq call[c].given
    /\ saved \in [sources : SUBSET Source, enabled : BOOLEAN] /\ enabled \in BOOLEAN
    /\ {sources, domains, wildcards} \subseteq SUBSET Source
    /\ boots \in 0..MaxBoots

LEMMA NewCall ==
    ASSUME NEW kind \in {"none", "save", "sync", "clear", "toggle", "boot"},
           NEW where \in {"none", "clear exact", "append on", "append off", "fetch"},
           NEW given \in SUBSET Source
    PROVE  /\ Call(kind, where, given) \in AnyStep
           /\ Call(kind, where, given).got \subseteq Call(kind, where, given).given
BY DEF Call, AnyStep, Compiling

\* One call takes a step, which leaves what it carries as it should be.
LEMMA CallMoves ==
    ASSUME ShieldTypes, NEW c \in Caller, NEW r \in AnyStep, r.got \subseteq r.given,
           call' = [call EXCEPT ![c] = r]
    PROVE  call' \in [Caller -> AnyStep] /\ \A d \in Caller : call'[d].got \subseteq call'[d].given
BY DEF ShieldTypes

LEMMA CallGoes ==
    ASSUME ShieldTypes, NEW c \in Caller,
           \/ Done(c)
           \/ \E where \in Compiling \cup {"write", "clear wild", "write none"} : Goto(c, where)
    PROVE  call' \in [Caller -> AnyStep] /\ \A d \in Caller : call'[d].got \subseteq call'[d].given
<1>1. CASE Done(c)
  <2>1. NoCall \in AnyStep /\ NoCall.got \subseteq NoCall.given
    BY NewCall DEF NoCall
  <2> QED
    BY <1>1, <2>1, CallMoves DEF Done
<1>2. ASSUME NEW where \in Compiling \cup {"write", "clear wild", "write none"}, Goto(c, where)
      PROVE  call' \in [Caller -> AnyStep] /\ \A d \in Caller : call'[d].got \subseteq call'[d].given
  <2> DEFINE r == [call[c] EXCEPT !.pc = where]
  <2>1. call[c] \in AnyStep /\ call[c].got \subseteq call[c].given
    BY DEF ShieldTypes
  <2>2. r \in AnyStep /\ r.got \subseteq r.given
    BY <2>1 DEF AnyStep
  <2>3. call' = [call EXCEPT ![c] = r]
    BY <1>2 DEF Goto
  <2> HIDE DEF r
  <2> QED
    BY <2>2, <2>3, CallMoves
<1> QED
  BY <1>1, <1>2

LEMMA ShieldedBegins ==
    ASSUME ShieldTypes, NEW a \in Admin,
           \/ Sync(a) \/ ClearSources(a)
           \/ \E given \in SUBSET Source : Save(a, given)
           \/ \E to \in BOOLEAN : Toggle(a, to)
    PROVE  ShieldTypes'
<1>a. a \in Caller /\ sources \in SUBSET Source /\ {} \in SUBSET Source
  BY DEF Caller, ShieldTypes
<1>1. CASE Sync(a)
  <2>1. call' = [call EXCEPT ![a] = Call("sync", "fetch", sources)]
    BY <1>1 DEF Sync
  <2> QED
    BY <1>1, <1>a, <2>1, NewCall, CallMoves DEF Sync, ShieldTypes, rules
<1>2. CASE ClearSources(a)
  <2>1. call' = [call EXCEPT ![a] = Call("clear", "clear exact", {})]
    BY <1>2 DEF ClearSources
  <2> QED
    BY <1>2, <1>a, <2>1, NewCall, CallMoves DEF ClearSources, ShieldTypes
<1>3. ASSUME NEW given \in SUBSET Source, Save(a, given) PROVE ShieldTypes'
  <2>1. call' = [call EXCEPT ![a] = Call("save", "fetch", given)]
    BY <1>3 DEF Save
  <2> QED
    BY <1>3, <1>a, <2>1, NewCall, CallMoves DEF Save, ShieldTypes, rules
<1>4. ASSUME NEW to \in BOOLEAN, Toggle(a, to) PROVE ShieldTypes'
  <2>1. PICK where \in {"append on", "append off"} : call' = [call EXCEPT ![a] = Call("toggle", where, {})]
    BY <1>4 DEF Toggle
  <2> QED
    BY <1>4, <1>a, <2>1, NewCall, CallMoves DEF Toggle, ShieldTypes, rules
<1> QED
  BY <1>1, <1>2, <1>3, <1>4

LEMMA ShieldedGoesOn ==
    ASSUME ShieldTypes, NEW c \in Caller,
           \/ StoreDomains(c) \/ StoreWildcards(c) \/ StoreSources(c) \/ ClearRules(c) \/ Write(c)
           \/ \E failing \in SUBSET Remote : Compile(c, failing)
    PROVE  ShieldTypes'
<1>c. /\ call[c] \in AnyStep /\ call[c].given \in SUBSET Source /\ call[c].got \in SUBSET Source
      /\ saved \in [sources : SUBSET Source, enabled : BOOLEAN] /\ sources \in SUBSET Source
  BY DEF ShieldTypes, AnyStep
<1>1. CASE StoreDomains(c)
  BY <1>1, <1>c, CallGoes DEF StoreDomains, ShieldTypes, Compiling
<1>2. CASE StoreWildcards(c)
  BY <1>2, <1>c, CallGoes DEF StoreWildcards, ShieldTypes, Compiling
<1>3. CASE StoreSources(c)
  BY <1>3, <1>c, CallGoes DEF StoreSources, ShieldTypes
<1>4. CASE ClearRules(c)
  BY <1>4, <1>c, CallGoes DEF ClearRules, ShieldTypes
<1>5. CASE Write(c)
  <2>1. saved' \in [sources : SUBSET Source, enabled : BOOLEAN]
    BY <1>5, <1>c DEF Write, ToWrite
  <2> QED
    BY <1>5, <2>1, CallGoes DEF Write, ShieldTypes, rules
<1>6. ASSUME NEW failing \in SUBSET Remote, Compile(c, failing) PROVE ShieldTypes'
  <2> DEFINE r == [call[c] EXCEPT !.got = call[c].given \ failing, !.pc = "store exact"]
  <2>1. r.got = call[c].given \ failing /\ r.given = call[c].given
    BY <1>c DEF AnyStep
  <2>2. r \in AnyStep
    BY <1>c DEF AnyStep, Compiling
  <2>4. r.got \subseteq r.given
    BY <2>1
  <2>3. call' = [call EXCEPT ![c] = r]
    BY <1>6 DEF Compile
  <2> HIDE DEF r
  <2> QED
    BY <1>6, <2>2, <2>3, <2>4, CallMoves DEF Compile, ShieldTypes, rules
<1> QED
  BY <1>1, <1>2, <1>3, <1>4, <1>5, <1>6

\* At a start of the process, the first or a later one.
LEMMA ShieldedStarts ==
    ASSUME NEW kept \in SUBSET Source,
           NEW f, f = [c \in Caller |-> IF c = Boot /\ kept # {} THEN Call("boot", "fetch", kept) ELSE NoCall]
    PROVE  f \in [Caller -> AnyStep] /\ \A c \in Caller : f[c].got \subseteq f[c].given
<1>1. /\ Call("boot", "fetch", kept) \in AnyStep /\ NoCall \in AnyStep
      /\ Call("boot", "fetch", kept).got \subseteq Call("boot", "fetch", kept).given
      /\ NoCall.got \subseteq NoCall.given
  BY NewCall DEF NoCall
<1>2. \A c \in Caller : f[c] = Call("boot", "fetch", kept) \/ f[c] = NoCall
  OBVIOUS
<1>3. f \in [Caller -> AnyStep]
  BY <1>1, <1>2
<1> QED
  BY <1>1, <1>2, <1>3

LEMMA ShieldedInit == ShieldInit => ShieldTypes
<1> SUFFICES ASSUME ShieldInit PROVE ShieldTypes
  OBVIOUS
<1>1. PICK given \in SUBSET Source : saved = [sources |-> given, enabled |-> TRUE]
  BY Zenon DEF ShieldInit
<1>2. /\ sources = saved.sources /\ enabled = saved.enabled /\ boots = 0
      /\ domains = sources \cap Local /\ wildcards = sources \cap Local
      /\ call = [c \in Caller |-> IF c = Boot /\ sources # {} THEN Call("boot", "fetch", sources) ELSE NoCall]
  BY DEF ShieldInit
<1>3. saved.sources = given /\ saved.enabled = TRUE /\ saved \in [sources : SUBSET Source, enabled : BOOLEAN]
  BY <1>1
<1>4. {sources, domains, wildcards} \subseteq SUBSET Source /\ enabled = TRUE
  BY <1>2, <1>3
<1>5. call \in [Caller -> AnyStep] /\ \A c \in Caller : call[c].got \subseteq call[c].given
  BY <1>2, <1>4, ShieldedStarts
<1> QED
  BY <1>2, <1>3, <1>4, <1>5, ShieldAssumption DEF ShieldTypes

LEMMA ShieldedStep == ShieldTypes /\ [ShieldNext]_shieldVars => ShieldTypes'
<1> SUFFICES ASSUME ShieldTypes, [ShieldNext]_shieldVars PROVE ShieldTypes'
  OBVIOUS
<1>1. CASE UNCHANGED shieldVars
  BY <1>1 DEF shieldVars, ShieldTypes
<1>2. CASE Reboot
  <2>1. /\ sources' = saved.sources /\ enabled' = saved.enabled /\ saved' = saved
        /\ domains' = saved.sources \cap Local /\ wildcards' = saved.sources \cap Local
        /\ call' = [c \in Caller |-> IF c = Boot /\ saved.sources # {}
                                     THEN Call("boot", "fetch", saved.sources) ELSE NoCall]
        /\ boots < MaxBoots /\ boots' = boots + 1 /\ saved.sources \in SUBSET Source
    BY <1>2 DEF Reboot, ShieldTypes
  <2>2. call' \in [Caller -> AnyStep] /\ \A c \in Caller : call'[c].got \subseteq call'[c].given
    BY <2>1, ShieldedStarts
  <2>3. boots' \in 0..MaxBoots
    BY <2>1, ShieldAssumption DEF ShieldTypes
  <2> QED
    BY <2>1, <2>2, <2>3 DEF ShieldTypes
<1>3. CASE ShieldNext /\ ~Reboot
  BY <1>3, ShieldedBegins, ShieldedGoesOn DEF ShieldNext
<1> QED
  BY <1>1, <1>2, <1>3

LEMMA ShieldTyping == ShieldTypes => ShieldTypeOK
<1> SUFFICES ASSUME ShieldTypes PROVE ShieldTypeOK
  OBVIOUS
<1>1. sources \cup domains \cup wildcards \cup saved.sources \subseteq Source
  BY DEF ShieldTypes
<1>2. enabled \in BOOLEAN /\ saved.enabled \in BOOLEAN
  BY DEF ShieldTypes
<1>3. \A c \in Caller : call[c].given \subseteq Source /\ call[c].got \subseteq call[c].given
  BY DEF ShieldTypes, AnyStep
<1>4. boots <= MaxBoots
  BY ShieldAssumption DEF ShieldTypes
<1> QED
  BY <1>1, <1>2, <1>3, <1>4 DEF ShieldTypeOK

\* Whichever calls overlap, only sources are stored, compiled and written, and no call stores
\* rules of a source it was not given.
THEOREM ShieldTypeCorrect == ShieldSpec => []ShieldTypeOK
<1> QED
  BY ShieldTyping, ShieldedInit, ShieldedStep, PTL DEF ShieldSpec

-----------------------------------------------------------------------------
(* The rate limiter.  BudgetHolds is not inductive: a thread whose clock   *)
(* reading is late gets its token from what there was then, and what was   *)
(* refilled since stays above the capacity.  Covered says how far above.   *)

---------------------------------------------------------------------------
(* Arithmetic.  The provers need the monotony of a product spelt out.      *)

\* A product does not decrease with its factor.
LEMMA TimesMonotone ==
    ASSUME NEW m \in Nat, NEW n \in Nat, NEW r \in Nat, m <= n
    PROVE  m * r \in Nat /\ n * r \in Nat /\ m * r <= n * r
OBVIOUS

\* A product over a difference.
LEMMA TimesDifference ==
    ASSUME NEW m \in Nat, NEW n \in Nat, NEW r \in Nat, m <= n
    PROVE  (n - m) * r = n * r - m * r /\ (n - m) * r \in Nat
OBVIOUS

\* The least of two, and the time that passed.
LEMMA Lesser ==
    ASSUME NEW m \in Nat, NEW n \in Nat
    PROVE  /\ LesserOf(m, n) \in Nat /\ LesserOf(m, n) <= m /\ LesserOf(m, n) <= n
           /\ m <= n => LesserOf(m, n) = m
           /\ n <= m => LesserOf(m, n) = n
           /\ Elapsed(m, n) \in Nat
           /\ m <= n => Elapsed(m, n) = 0
           /\ n <= m => Elapsed(m, n) = m - n
BY DEF LesserOf, Elapsed

LEMMA LesserAbove ==
    ASSUME NEW m \in Nat, NEW n \in Nat, NEW k \in Nat, k <= m, k <= n
    PROVE  k <= LesserOf(m, n)
BY DEF LesserOf

\* An amount covers what a bucket can give to threads whose readings are at most MaxLag old.
Covered(tokens, age, cap, rate, amount) ==
    \/ tokens + age * rate <= amount
    \/ cap + LesserOf(age, MaxLag) * rate <= amount

---------------------------------------------------------------------------
\* What try_consume grants is covered.
LEMMA ConsumeAffordable ==
    ASSUME NEW tokens \in Nat, NEW age \in Nat, NEW cap \in Nat, NEW rate \in Nat,
           NEW amount \in Nat, NEW late \in Nat, MaxLag \in Nat, late <= MaxLag,
           Covered(tokens, age, cap, rate, amount)
    PROVE  LesserOf(tokens + Elapsed(age, late) * rate, cap) <= amount
<1>1. /\ Elapsed(age, late) \in Nat /\ Elapsed(age, late) <= age
      BY DEF Elapsed
<1>2. /\ age * rate \in Nat /\ Elapsed(age, late) * rate \in Nat
      /\ Elapsed(age, late) * rate <= age * rate
      BY <1>1, TimesMonotone
<1>3. LesserOf(age, MaxLag) * rate \in Nat
      BY Lesser, TimesMonotone
<1>4. CASE tokens + age * rate <= amount
      BY <1>4, <1>2 DEF LesserOf
<1>5. CASE cap + LesserOf(age, MaxLag) * rate <= amount
      BY <1>5, <1>2, <1>3 DEF LesserOf
<1> QED BY <1>4, <1>5 DEF Covered

\* What try_consume leaves of a bucket is covered by what it leaves of the budget.
LEMMA ConsumeCovered ==
    ASSUME NEW tokens \in Nat, NEW age \in Nat, NEW cap \in Nat, NEW rate \in Nat,
           NEW amount \in Nat, NEW late \in Nat, NEW granted \in {0, 1},
           tokens <= cap, late <= MaxLag, amount <= cap + MaxLag * rate, MaxLag \in Nat,
           Covered(tokens, age, cap, rate, amount),
           LesserOf(tokens + Elapsed(age, late) * rate, cap) \in Nat,
           granted <= LesserOf(tokens + Elapsed(age, late) * rate, cap)
    PROVE  Covered(LesserOf(tokens + Elapsed(age, late) * rate, cap) - granted, late, cap, rate,
                   LesserOf(amount - granted + Elapsed(late, age) * rate, cap + MaxLag * rate))
<1> DEFINE refilled == LesserOf(tokens + Elapsed(age, late) * rate, cap)
           left == LesserOf(amount - granted + Elapsed(late, age) * rate, cap + MaxLag * rate)
           ar == age * rate
           lr == late * rate
           mr == MaxLag * rate
<1>0. ar \in Nat /\ lr \in Nat /\ mr \in Nat /\ lr <= mr
      BY TimesMonotone
<1>1. CASE late <= age
  <2>1. /\ Elapsed(age, late) * rate = ar - lr /\ ar - lr \in Nat
        /\ Elapsed(late, age) * rate = 0
        BY <1>1, Lesser, TimesDifference
  <2>2. refilled <= tokens + (ar - lr) /\ refilled <= cap
    <3>1. tokens + (ar - lr) \in Nat
          BY <2>1
    <3> QED BY <3>1, <2>1 DEF LesserOf
  <2>3. LesserOf(age, MaxLag) \in Nat /\ late <= LesserOf(age, MaxLag)
        BY <1>1, Lesser DEF LesserOf
  <2>4. LesserOf(age, MaxLag) * rate \in Nat /\ lr <= LesserOf(age, MaxLag) * rate
        BY <2>3, TimesMonotone
  <2>5. refilled + lr <= amount
    <3>1. CASE tokens + ar <= amount
          BY <3>1, <2>1, <2>2, <1>0
    <3>2. CASE cap + LesserOf(age, MaxLag) * rate <= amount
          BY <3>2, <2>2, <2>4, <1>0
    <3> QED BY <3>1, <3>2 DEF Covered
  <2>6. amount - granted \in Nat /\ amount - granted <= cap + mr
        BY <2>5, <1>0
  <2>7. left = amount - granted
        BY <2>1, <2>6, <1>0, Lesser
  <2>8. (refilled - granted) + lr <= left
        BY <2>5, <2>7, <1>0
  <2> QED BY <2>2, <2>5, <2>8, <1>0 DEF Covered
<1>2. CASE age < late
  <2>1. /\ Elapsed(age, late) * rate = 0
        /\ Elapsed(late, age) * rate = lr - ar /\ lr - ar \in Nat
        BY <1>2, Lesser, TimesDifference
  <2>2. refilled = tokens
        BY <2>1, Lesser
  <2>3. LesserOf(age, MaxLag) = age
        BY <1>2, Lesser
  <2>4. tokens + ar <= amount
        BY <2>3, <1>0 DEF Covered
  <2>5. amount - granted \in Nat
        BY <2>2, <2>4, <1>0
  <2>6. /\ (tokens - granted) + lr <= amount - granted + (lr - ar)
        /\ (tokens - granted) + lr <= cap + mr
        BY <2>4, <2>5, <1>0
  <2>7. (tokens - granted) + lr <= left
        BY <2>1, <2>5, <2>6, <1>0, Lesser DEF LesserOf
  <2> QED BY <2>2, <2>4, <2>7, <1>0 DEF Covered
<1> QED BY <1>1, <1>2

\* A tick adds to the budget what it adds to the bucket.
LEMMA TickCovered ==
    ASSUME NEW tokens \in Nat, NEW age \in Nat, NEW cap \in Nat, NEW rate \in Nat,
           NEW amount \in Nat, MaxLag \in Nat, tokens <= cap,
           Covered(tokens, age, cap, rate, amount)
    PROVE  Covered(tokens, age + 1, cap, rate, LesserOf(amount + rate, cap + MaxLag * rate))
<1> DEFINE ar == age * rate
           mr == MaxLag * rate
           least == LesserOf(age + 1, MaxLag)
<1>0. ar \in Nat /\ mr \in Nat /\ (age + 1) * rate = ar + rate
      BY TimesMonotone
<1>1. least \in Nat /\ least * rate \in Nat /\ least * rate <= mr
  <2>1. least \in Nat /\ least <= MaxLag
        BY DEF LesserOf
  <2> QED BY <2>1, TimesMonotone
<1>2. CASE tokens + ar <= amount
  <2>1. CASE amount + rate <= cap + mr
    <3>1. LesserOf(amount + rate, cap + mr) = amount + rate
          BY <2>1, <1>0 DEF LesserOf
    <3> QED BY <3>1, <1>2, <1>0 DEF Covered
  <2>2. CASE ~(amount + rate <= cap + mr)
    <3>1. LesserOf(amount + rate, cap + mr) = cap + mr
          BY <2>2, <1>0 DEF LesserOf
    <3> QED BY <3>1, <1>1, <1>0 DEF Covered
  <2> QED BY <2>1, <2>2
<1>3. CASE cap + LesserOf(age, MaxLag) * rate <= amount
  <2>1. least * rate <= LesserOf(age, MaxLag) * rate + rate
    <3>1. LesserOf(age, MaxLag) \in Nat /\ least <= LesserOf(age, MaxLag) + 1
          BY DEF LesserOf
    <3>2. least * rate <= (LesserOf(age, MaxLag) + 1) * rate
          BY <3>1, <1>1, TimesMonotone
    <3> QED BY <3>1, <3>2
  <2>2. LesserOf(age, MaxLag) * rate \in Nat
        BY Lesser, TimesMonotone
  <2>3. cap + least * rate <= amount + rate /\ cap + least * rate <= cap + mr
        BY <1>3, <2>1, <2>2, <1>1, <1>0
  <2>4. cap + least * rate <= LesserOf(amount + rate, cap + mr)
    <3>1. cap + least * rate \in Nat /\ amount + rate \in Nat /\ cap + mr \in Nat
          BY <1>1, <1>0
    <3> QED BY <3>1, <2>3, LesserAbove
  <2> QED BY <2>4 DEF Covered
<1> QED BY <1>2, <1>3 DEF Covered
---------------------------------------------------------------------------
(* The invariant.                                                          *)

\* What a bucket can give is covered by its budget, an absent one's by being full.
BucketCovered(b) ==
    /\ Found(b).tokens <= Cap(b)
    /\ budget[b] <= Most(b)
    /\ Covered(Found(b).tokens, Found(b).age, Cap(b), Rate(b), budget[b])

RateTyped ==
    /\ bucket \in [Bucket -> [tokens : Nat, age : Nat]]
    /\ check \in [Checker -> [pc : {"idle", "identity", "ceiling"}, who : Bucket, late : 0..MaxLag]]
    /\ sweep \in [kind : {"none", "prune", "clear"}, late : Nat, left : SUBSET Bucket]
    /\ budget \in [Bucket -> Nat]
    /\ \A b \in Bucket : bucket[b] # Absent => bucket[b].tokens <= Cap(b) /\ bucket[b].age <= MaxAge

RateInv == RateTyped /\ \A b \in Bucket : BucketCovered(b)

\* The constants, by bucket.
LEMMA Capacities ==
    ASSUME NEW b \in Bucket
    PROVE  /\ Cap(b) \in Nat /\ Rate(b) \in Nat /\ Most(b) \in Nat
           /\ Most(b) = Cap(b) + MaxLag * Rate(b)
           /\ Cap(b) <= IdleTicks * Rate(b)
           /\ MaxLag \in Nat /\ MaxAge \in Nat /\ IdleTicks \in Nat /\ MaxLag <= MaxAge
           /\ Ip \in Bucket
<1>1. /\ MaxLag \in Nat /\ MaxAge \in Nat /\ IdleTicks \in Nat
      /\ Cap(b) \in Nat /\ Rate(b) \in Nat
      BY RateAssumption DEF Cap, Rate
<1>2. MaxLag * Rate(b) \in Nat
      BY <1>1, TimesMonotone
<1> QED BY <1>1, <1>2, RateAssumption DEF Most, Cap, Rate, Bucket

\* What a check finds is a bucket, and the absent one is a full one.
LEMMA FoundTyped ==
    ASSUME RateTyped, NEW b \in Bucket
    PROVE  /\ Found(b).tokens \in Nat /\ Found(b).age \in Nat
           /\ bucket[b] # Absent => Found(b) = bucket[b] /\ Found(b).age <= MaxAge
           /\ bucket[b] = Absent => Found(b).tokens = Cap(b) /\ Found(b).age = 0
           /\ Found(b).tokens <= Cap(b)
BY Capacities DEF RateTyped, Found

\* A full bucket of now is covered by its capacity.
LEMMA FullCovered ==
    ASSUME NEW cap \in Nat, NEW rate \in Nat, NEW amount \in Nat, cap <= amount
    PROVE  Covered(cap, 0, cap, rate, amount)
<1>1. 0 * rate = 0
      BY TimesMonotone
<1> QED BY <1>1 DEF Covered
---------------------------------------------------------------------------
(* Initiation, consecution, and what the invariant implies.                *)

LEMMA RateStart == RateInit => RateInv
<1> SUFFICES ASSUME RateInit PROVE RateInv
    OBVIOUS
<1>1. RateTyped
      BY Capacities, RateAssumption DEF RateInit, RateTyped, Absent, NoCheck, NoSweep, Bucket
<1>2. ASSUME NEW b \in Bucket PROVE BucketCovered(b)
  <2>1. Found(b).tokens = Cap(b) /\ Found(b).age = 0
        BY <1>1, FoundTyped DEF RateInit
  <2>2. budget[b] = Most(b) /\ Cap(b) <= Most(b)
        BY Capacities, TimesMonotone DEF RateInit
  <2> QED BY <2>1, <2>2, Capacities, FullCovered DEF BucketCovered
<1> QED BY <1>1, <1>2 DEF RateInv

\* What a bucket can give depends on nothing but itself and its budget.
LEMMA SameCovered ==
    ASSUME NEW b \in Bucket, BucketCovered(b), bucket'[b] = bucket[b], budget'[b] = budget[b]
    PROVE  BucketCovered(b)'
BY DEF BucketCovered, Found, Cap, Rate, Most

\* One call of try_consume.
LEMMA ConsumePreserves ==
    ASSUME RateInv, NEW b \in Bucket, NEW late \in 0..MaxLag, TryConsume(b, late)
    PROVE  /\ bucket' \in [Bucket -> [tokens : Nat, age : Nat]]
           /\ budget' \in [Bucket -> Nat]
           /\ \A c \in Bucket : BucketCovered(c)'
           /\ \A c \in Bucket :
                 bucket'[c] # Absent => bucket'[c].tokens <= Cap(c) /\ bucket'[c].age <= MaxAge
<1> DEFINE granted == IF Refilled(b, late) >= 1 THEN 1 ELSE 0
           spare == Refilled(b, late) - granted
           left == LesserOf(budget[b] - granted + Elapsed(late, Found(b).age) * Rate(b), Most(b))
<1>1. /\ bucket' = [bucket EXCEPT ![b] = [tokens |-> spare, age |-> late]]
      /\ budget' = [budget EXCEPT ![b] = left]
      BY DEF TryConsume
<1>2. /\ Found(b).tokens \in Nat /\ Found(b).age \in Nat /\ Found(b).tokens <= Cap(b)
      /\ budget[b] \in Nat /\ budget[b] <= Most(b)
      /\ Covered(Found(b).tokens, Found(b).age, Cap(b), Rate(b), budget[b])
      BY FoundTyped DEF RateInv, RateTyped, BucketCovered
<1>3. Refilled(b, late) \in Nat /\ granted \in {0, 1} /\ granted <= Refilled(b, late)
  <2>1. Elapsed(Found(b).age, late) * Rate(b) \in Nat
    <3>1. Elapsed(Found(b).age, late) \in Nat
          BY <1>2 DEF Elapsed
    <3> QED BY <3>1, Capacities, TimesMonotone
  <2>2. Refilled(b, late) \in Nat
        BY <2>1, <1>2, Capacities DEF Refilled, LesserOf
  <2> QED BY <2>2
<1>4. Elapsed(late, Found(b).age) * Rate(b) \in Nat
  <2>1. Elapsed(late, Found(b).age) \in Nat
        BY <1>2, Capacities DEF Elapsed
  <2> QED BY <2>1, Capacities, TimesMonotone
<1>5. granted <= budget[b]
  <2>1. Cap(b) \in Nat /\ Rate(b) \in Nat /\ MaxLag \in Nat /\ late \in Nat /\ late <= MaxLag
        BY Capacities
  <2>2. Refilled(b, late) <= budget[b]
        BY <1>2, <2>1, ConsumeAffordable, Zenon DEF Refilled
  <2> QED BY <2>2, <1>2, <1>3
<1>6. left \in Nat /\ left <= Most(b)
      BY <1>2, <1>3, <1>4, <1>5, Capacities DEF LesserOf
<1>7. /\ spare \in Nat /\ spare <= Cap(b)
      /\ Covered(spare, late, Cap(b), Rate(b), left)
  <2>1. /\ Cap(b) \in Nat /\ Rate(b) \in Nat /\ MaxLag \in Nat
        /\ late \in Nat /\ late <= MaxLag /\ Most(b) = Cap(b) + MaxLag * Rate(b)
        BY Capacities
  <2>2. Refilled(b, late) = LesserOf(Found(b).tokens + Elapsed(Found(b).age, late) * Rate(b), Cap(b))
        BY DEF Refilled
  <2>3. left = LesserOf(budget[b] - granted + Elapsed(late, Found(b).age) * Rate(b),
                        Cap(b) + MaxLag * Rate(b))
        BY <2>1
  <2>4. budget[b] <= Cap(b) + MaxLag * Rate(b)
        BY <1>2, <2>1
  <2>5. Refilled(b, late) <= Cap(b)
        BY <2>1, <2>2, <1>3 DEF LesserOf
  <2> HIDE DEF granted
  <2>6. Covered(LesserOf(Found(b).tokens + Elapsed(Found(b).age, late) * Rate(b), Cap(b)) - granted,
                late, Cap(b), Rate(b),
                LesserOf(budget[b] - granted + Elapsed(late, Found(b).age) * Rate(b),
                         Cap(b) + MaxLag * Rate(b)))
        BY <1>2, <1>3, <2>1, <2>2, <2>4, ConsumeCovered
  <2> QED BY <1>3, <2>1, <2>2, <2>3, <2>5, <2>6
<1>8. ASSUME NEW c \in Bucket
      PROVE  /\ BucketCovered(c)'
             /\ bucket'[c] # Absent => bucket'[c].tokens <= Cap(c) /\ bucket'[c].age <= MaxAge
  <2>1. CASE c = b
    <3>1. bucket'[b] = [tokens |-> spare, age |-> late] /\ budget'[b] = left
          BY <1>1 DEF RateInv, RateTyped
    <3>2. bucket'[b] # Absent /\ late <= MaxAge
          BY <3>1, Capacities DEF Absent
    <3>3. Found(b)' = [tokens |-> spare, age |-> late]
          BY <3>1, <3>2 DEF Found, Absent
    <3>4. BucketCovered(b)'
          BY <3>1, <3>3, <1>6, <1>7 DEF BucketCovered, Cap, Rate, Most
    <3> QED BY <2>1, <3>1, <3>2, <3>4, <1>7
  <2>2. CASE c # b
        BY <2>2, <1>1, SameCovered DEF RateInv, RateTyped
  <2> QED BY <2>1, <2>2
<1> QED BY <1>1, <1>2, <1>6, <1>7, <1>8, Capacities DEF RateInv, RateTyped

\* What a thread is at stays typed.
LEMMA CheckTyped ==
    ASSUME RateTyped, NEW t \in Checker
    PROVE  check[t].who \in Bucket /\ check[t].late \in 0..MaxLag
BY DEF RateTyped

\* The identity's bucket.
LEMMA AskIdentityPreserves ==
    ASSUME RateInv, NEW t \in Checker, AskIdentity(t)
    PROVE  RateInv'
<1>1. /\ check[t].who \in Bucket /\ check[t].late \in 0..MaxLag
      /\ TryConsume(check[t].who, check[t].late)
      BY CheckTyped DEF RateInv, AskIdentity
<1>2. /\ bucket' \in [Bucket -> [tokens : Nat, age : Nat]]
      /\ budget' \in [Bucket -> Nat]
      /\ \A c \in Bucket : BucketCovered(c)'
      /\ \A c \in Bucket :
            bucket'[c] # Absent => bucket'[c].tokens <= Cap(c) /\ bucket'[c].age <= MaxAge
      BY <1>1, ConsumePreserves
<1>3. /\ check' \in [Checker -> [pc : {"idle", "identity", "ceiling"}, who : Bucket, late : 0..MaxLag]]
      /\ sweep' = sweep
      BY RateAssumption DEF RateInv, RateTyped, AskIdentity, NoCheck, Bucket, Ip
<1>4. sweep' \in [kind : {"none", "prune", "clear"}, late : Nat, left : SUBSET Bucket]
      BY <1>3 DEF RateInv, RateTyped
<1> QED BY <1>2, <1>3, <1>4 DEF RateInv, RateTyped, Cap, Absent

\* The address's bucket.
LEMMA AskCeilingPreserves ==
    ASSUME RateInv, NEW t \in Checker, AskCeiling(t)
    PROVE  RateInv'
<1>1. /\ Ip \in Bucket /\ check[t].late \in 0..MaxLag
      /\ TryConsume(Ip, check[t].late)
      BY CheckTyped DEF RateInv, AskCeiling, Bucket
<1>2. /\ bucket' \in [Bucket -> [tokens : Nat, age : Nat]]
      /\ budget' \in [Bucket -> Nat]
      /\ \A c \in Bucket : BucketCovered(c)'
      /\ \A c \in Bucket :
            bucket'[c] # Absent => bucket'[c].tokens <= Cap(c) /\ bucket'[c].age <= MaxAge
      BY <1>1, ConsumePreserves
<1>3. /\ check' \in [Checker -> [pc : {"idle", "identity", "ceiling"}, who : Bucket, late : 0..MaxLag]]
      /\ sweep' = sweep
      BY RateAssumption DEF RateInv, RateTyped, AskCeiling, NoCheck, Bucket, Ip
<1>4. sweep' \in [kind : {"none", "prune", "clear"}, late : Nat, left : SUBSET Bucket]
      BY <1>3 DEF RateInv, RateTyped
<1> QED BY <1>2, <1>3, <1>4 DEF RateInv, RateTyped, Cap, Absent

\* A sweep's step from bucket to bucket.
LEMMA VisitTyped ==
    ASSUME RateTyped, NEW b \in Bucket, Visit(b)
    PROVE  /\ sweep' \in [kind : {"none", "prune", "clear"}, late : Nat, left : SUBSET Bucket]
           /\ check' = check
BY DEF RateTyped, Visit, NoSweep

\* What is pruned has had the time to fill.
LEMMA StaleIsFull ==
    ASSUME RateInv, NEW b \in Bucket, bucket[b] # Absent, Stale(b)
    PROVE  Cap(b) <= budget[b]
<1>1. /\ Found(b) = bucket[b] /\ bucket[b].tokens \in Nat /\ bucket[b].age \in Nat
      /\ Covered(bucket[b].tokens, bucket[b].age, Cap(b), Rate(b), budget[b])
      /\ budget[b] \in Nat /\ sweep.late \in Nat
      BY FoundTyped DEF RateInv, RateTyped, BucketCovered
<1>2. IdleTicks <= bucket[b].age
  <2>1. Elapsed(bucket[b].age, sweep.late) <= bucket[b].age
        BY <1>1 DEF Elapsed
  <2>2. Elapsed(bucket[b].age, sweep.late) \in Nat /\ IdleTicks \in Nat
        BY <1>1, Capacities DEF Elapsed
  <2> QED BY <2>1, <2>2, <1>1 DEF Stale
<1>3. /\ IdleTicks * Rate(b) \in Nat /\ bucket[b].age * Rate(b) \in Nat
      /\ IdleTicks * Rate(b) <= bucket[b].age * Rate(b)
      BY <1>1, <1>2, Capacities, TimesMonotone
<1>4. LesserOf(bucket[b].age, MaxLag) * Rate(b) \in Nat
  <2>1. LesserOf(bucket[b].age, MaxLag) \in Nat
        BY <1>1, Capacities DEF LesserOf
  <2> QED BY <2>1, Capacities, TimesMonotone
<1> QED BY <1>1, <1>3, <1>4, Capacities DEF Covered

\* An absent bucket is found full.
LEMMA AbsentCovered ==
    ASSUME NEW b \in Bucket, bucket'[b] = Absent, budget'[b] \in Nat,
           Cap(b) <= budget'[b], budget'[b] <= Most(b)
    PROVE  BucketCovered(b)'
<1>1. Found(b)' = [tokens |-> Cap(b), age |-> 0]
      BY DEF Found, Cap, Absent
<1>2. Covered(Cap(b), 0, Cap(b), Rate(b), budget'[b])
      BY Capacities, FullCovered
<1> QED BY <1>1, <1>2, Capacities DEF BucketCovered, Cap, Rate, Most

LEMMA PrunePreserves ==
    ASSUME RateInv, NEW b \in Bucket, Prune(b)
    PROVE  RateInv'
<1>1. /\ bucket' = [bucket EXCEPT ![b] = IF bucket[b] # Absent /\ Stale(b) THEN Absent ELSE bucket[b]]
      /\ budget' = budget
      BY DEF Prune
<1>2. /\ sweep' \in [kind : {"none", "prune", "clear"}, late : Nat, left : SUBSET Bucket]
      /\ check' = check
      BY VisitTyped DEF Prune, RateInv
<1>3. Absent \in [tokens : Nat, age : Nat]
      BY RateAssumption DEF Absent
<1>4. bucket' \in [Bucket -> [tokens : Nat, age : Nat]]
      BY <1>1, <1>3 DEF RateInv, RateTyped
<1>5. ASSUME NEW c \in Bucket
      PROVE  /\ BucketCovered(c)'
             /\ bucket'[c] # Absent => bucket'[c].tokens <= Cap(c) /\ bucket'[c].age <= MaxAge
  <2>1. CASE c = b /\ bucket[b] # Absent /\ Stale(b)
    <3>1. bucket'[c] = Absent /\ budget'[c] = budget[b]
          BY <2>1, <1>1 DEF RateInv, RateTyped
    <3>2. budget[b] \in Nat /\ Cap(b) <= budget[b] /\ budget[b] <= Most(b)
          BY <2>1, StaleIsFull DEF RateInv, RateTyped, BucketCovered
    <3> QED BY <2>1, <3>1, <3>2, AbsentCovered
  <2>2. CASE ~(c = b /\ bucket[b] # Absent /\ Stale(b))
    <3>1. bucket'[c] = bucket[c] /\ budget'[c] = budget[c]
          BY <2>2, <1>1 DEF RateInv, RateTyped
    <3> QED BY <3>1, SameCovered DEF RateInv, RateTyped
  <2> QED BY <2>1, <2>2
<1> QED BY <1>1, <1>2, <1>4, <1>5 DEF RateInv, RateTyped, Cap, Absent

LEMMA ClearPreserves ==
    ASSUME RateInv, NEW b \in Bucket, Clear(b)
    PROVE  RateInv'
<1>1. /\ bucket' = [bucket EXCEPT ![b] = Absent]
      /\ budget' = [budget EXCEPT ![b] = Most(b)]
      BY DEF Clear
<1>2. /\ sweep' \in [kind : {"none", "prune", "clear"}, late : Nat, left : SUBSET Bucket]
      /\ check' = check
      BY VisitTyped DEF Clear, RateInv
<1>3. Absent \in [tokens : Nat, age : Nat]
      BY RateAssumption DEF Absent
<1>4. /\ bucket' \in [Bucket -> [tokens : Nat, age : Nat]]
      /\ budget' \in [Bucket -> Nat]
      BY <1>1, <1>3, Capacities DEF RateInv, RateTyped
<1>5. ASSUME NEW c \in Bucket
      PROVE  /\ BucketCovered(c)'
             /\ bucket'[c] # Absent => bucket'[c].tokens <= Cap(c) /\ bucket'[c].age <= MaxAge
  <2>1. CASE c = b
    <3>1. bucket'[c] = Absent /\ budget'[c] = Most(b)
          BY <2>1, <1>1 DEF RateInv, RateTyped
    <3>2. Cap(b) <= Most(b)
          BY Capacities, TimesMonotone
    <3> QED BY <2>1, <3>1, <3>2, Capacities, AbsentCovered
  <2>2. CASE c # b
    <3>1. bucket'[c] = bucket[c] /\ budget'[c] = budget[c]
          BY <2>2, <1>1 DEF RateInv, RateTyped
    <3> QED BY <3>1, SameCovered DEF RateInv, RateTyped
  <2> QED BY <2>1, <2>2
<1> QED BY <1>2, <1>4, <1>5 DEF RateInv, RateTyped, Cap, Absent

\* A tick, at one bucket.
LEMMA SecondAtBucket ==
    ASSUME RateInv, Second, NEW b \in Bucket
    PROVE  /\ bucket'[b] \in [tokens : Nat, age : Nat]
           /\ budget'[b] \in Nat
           /\ bucket'[b] # Absent => bucket'[b].tokens <= Cap(b) /\ bucket'[b].age <= MaxAge
           /\ BucketCovered(b)'
<1>1. /\ bucket'[b] = IF bucket[b].age < MaxAge THEN [bucket[b] EXCEPT !.age = @ + 1] ELSE bucket[b]
      /\ budget'[b] = LesserOf(budget[b] + Rate(b), Most(b))
      BY DEF Second
<1>2. /\ bucket[b] \in [tokens : Nat, age : Nat] /\ budget[b] \in Nat /\ budget[b] <= Most(b)
      /\ Found(b).tokens \in Nat /\ Found(b).age \in Nat /\ Found(b).tokens <= Cap(b)
      /\ Covered(Found(b).tokens, Found(b).age, Cap(b), Rate(b), budget[b])
      BY FoundTyped DEF RateInv, RateTyped, BucketCovered
<1>3. /\ budget'[b] \in Nat /\ budget[b] <= budget'[b] /\ budget'[b] <= Most(b)
      BY <1>1, <1>2, Capacities DEF LesserOf
<1>4. CASE bucket[b] = Absent
  <2>1. bucket'[b] = Absent
        BY <1>1, <1>4, Capacities DEF Absent
  <2>2. Found(b).tokens = Cap(b) /\ Found(b).age = 0
        BY <1>4 DEF Found
  <2>3. Cap(b) <= budget[b]
    <3>1. 0 * Rate(b) = 0 /\ LesserOf(0, MaxLag) = 0
          BY Capacities DEF LesserOf
    <3> QED BY <3>1, <2>2, <1>2, Capacities DEF Covered
  <2>4. Cap(b) <= budget'[b]
        BY <2>3, <1>2, <1>3, Capacities
  <2> QED BY <2>1, <2>4, <1>2, <1>3, <1>4, AbsentCovered
<1>5. CASE bucket[b] # Absent
  <2>1. Found(b) = bucket[b] /\ bucket[b].age <= MaxAge
        BY <1>5, FoundTyped DEF RateInv
  <2>2. CASE bucket[b].age < MaxAge
    <3>1. bucket'[b] = [tokens |-> bucket[b].tokens, age |-> bucket[b].age + 1]
          BY <2>2, <1>1, <1>2
    <3>2. bucket'[b] # Absent /\ bucket[b].age + 1 <= MaxAge
          BY <3>1, <2>2, <1>2, Capacities DEF Absent
    <3>3. Covered(bucket[b].tokens, bucket[b].age + 1, Cap(b), Rate(b), budget'[b])
      <4>1. /\ Cap(b) \in Nat /\ Rate(b) \in Nat /\ MaxLag \in Nat
            /\ budget'[b] = LesserOf(budget[b] + Rate(b), Cap(b) + MaxLag * Rate(b))
            BY <1>1, Capacities
      <4>2. Covered(bucket[b].tokens, bucket[b].age + 1, Cap(b), Rate(b),
                    LesserOf(budget[b] + Rate(b), Cap(b) + MaxLag * Rate(b)))
            BY <4>1, <1>2, <2>1, TickCovered
      <4> QED BY <4>1, <4>2
    <3>4. Found(b)' = bucket'[b]
          BY <3>2 DEF Found, Absent
    <3> QED BY <3>1, <3>2, <3>3, <3>4, <2>1, <1>2, <1>3 DEF BucketCovered, Cap, Rate, Most
  <2>3. CASE bucket[b].age = MaxAge
    <3>1. bucket'[b] = bucket[b]
          BY <2>3, <1>1, Capacities
    <3>2. Found(b)' = bucket[b]
          BY <3>1, <1>5 DEF Found, Absent
    <3>3. Covered(bucket[b].tokens, bucket[b].age, Cap(b), Rate(b), budget'[b])
      <4>1. /\ bucket[b].age * Rate(b) \in Nat /\ LesserOf(bucket[b].age, MaxLag) * Rate(b) \in Nat
            BY <2>1, <1>2, Capacities, Lesser, TimesMonotone
      <4> QED BY <4>1, <2>1, <1>2, <1>3, Capacities DEF Covered
    <3> QED BY <3>1, <3>2, <3>3, <2>1, <1>2, <1>3, <1>5 DEF BucketCovered, Cap, Rate, Most
  <2>4. bucket[b].age < MaxAge \/ bucket[b].age = MaxAge
    <3>1. MaxAge \in Nat /\ bucket[b].age \in Nat
          BY <1>2, Capacities
    <3> QED BY <3>1, <2>1
  <2> QED BY <2>2, <2>3, <2>4
<1> QED BY <1>4, <1>5

LEMMA SecondPreserves ==
    ASSUME RateInv, Second
    PROVE  RateInv'
<1>1. /\ bucket' \in [Bucket -> [tokens : Nat, age : Nat]]
      /\ budget' \in [Bucket -> Nat]
  <2>1. /\ bucket' = [b \in Bucket |-> bucket'[b]] /\ budget' = [b \in Bucket |-> budget'[b]]
        BY DEF Second
  <2> QED BY <2>1, SecondAtBucket
<1>2. check' \in [Checker -> [pc : {"idle", "identity", "ceiling"}, who : Bucket, late : 0..MaxLag]]
  <2>1. NoCheck \in [pc : {"idle", "identity", "ceiling"}, who : Bucket, late : 0..MaxLag]
        BY RateAssumption DEF RateInv, RateTyped, NoCheck, Bucket, Ip
  <2>2. ASSUME NEW t \in Checker
        PROVE  /\ check[t].late + 1 \in 0..MaxLag
               /\ check[t] \in [pc : {"idle", "identity", "ceiling"}, who : Bucket, late : 0..MaxLag]
        BY RateAssumption DEF RateInv, RateTyped, Second
  <2>3. check' = [t \in Checker |-> IF check[t].pc = "idle" THEN NoCheck
                                     ELSE [check[t] EXCEPT !.late = check[t].late + 1]]
        BY DEF Second
  <2> QED BY <2>1, <2>2, <2>3
<1>3. sweep' \in [kind : {"none", "prune", "clear"}, late : Nat, left : SUBSET Bucket]
  <2>1. CASE sweep = NoSweep
        BY <2>1 DEF RateInv, RateTyped, Second
  <2>2. CASE sweep # NoSweep
    <3>1. sweep' = [sweep EXCEPT !.late = sweep.late + 1]
          BY <2>2 DEF Second
    <3>2. sweep \in [kind : {"none", "prune", "clear"}, late : Nat, left : SUBSET Bucket]
          BY DEF RateInv, RateTyped
    <3> QED BY <3>1, <3>2
  <2> QED BY <2>1, <2>2
<1> QED BY <1>1, <1>2, <1>3, SecondAtBucket DEF RateInv, RateTyped, Cap, Absent

LEMMA UnchangedPreserves ==
    ASSUME RateInv, bucket' = bucket, budget' = budget,
           check' \in [Checker -> [pc : {"idle", "identity", "ceiling"}, who : Bucket, late : 0..MaxLag]],
           sweep' \in [kind : {"none", "prune", "clear"}, late : Nat, left : SUBSET Bucket]
    PROVE  RateInv'
BY SameCovered DEF RateInv, RateTyped, Cap, Absent

LEMMA RateStep == RateInv /\ [RateNext]_rateVars => RateInv'
<1> SUFFICES ASSUME RateInv, [RateNext]_rateVars PROVE RateInv'
    OBVIOUS
<1>1. ASSUME NEW t \in Checker, NEW who \in Identity, Enter(t, who) PROVE RateInv'
      BY <1>1, UnchangedPreserves, RateAssumption DEF Enter, RateInv, RateTyped, Bucket
<1>2. ASSUME NEW t \in Checker, AskIdentity(t) PROVE RateInv'
      BY <1>2, AskIdentityPreserves
<1>3. ASSUME NEW t \in Checker, AskCeiling(t) PROVE RateInv'
      BY <1>3, AskCeilingPreserves
<1>4. ASSUME NEW kind \in {"prune", "clear"}, StartSweep(kind) PROVE RateInv'
      BY <1>4, UnchangedPreserves DEF StartSweep, RateInv, RateTyped
<1>5. ASSUME NEW b \in Bucket, Prune(b) PROVE RateInv'
      BY <1>5, PrunePreserves
<1>6. ASSUME NEW b \in Bucket, Clear(b) PROVE RateInv'
      BY <1>6, ClearPreserves
<1>7. CASE Second
      BY <1>7, SecondPreserves
<1>8. CASE UNCHANGED rateVars
      BY <1>8, UnchangedPreserves DEF rateVars, RateInv, RateTyped
<1> QED BY <1>1, <1>2, <1>3, <1>4, <1>5, <1>6, <1>7, <1>8 DEF RateNext

---------------------------------------------------------------------------
\* What is refilled is covered.
LEMMA RateBudget == RateInv => BudgetHolds
<1> SUFFICES ASSUME RateInv, NEW b \in Bucket PROVE Refilled(b, 0) <= budget[b]
    BY DEF BudgetHolds
<1>1. /\ Found(b).tokens \in Nat /\ Found(b).age \in Nat /\ budget[b] \in Nat
      /\ Covered(Found(b).tokens, Found(b).age, Cap(b), Rate(b), budget[b])
      BY FoundTyped DEF RateInv, RateTyped, BucketCovered
<1>2. Cap(b) \in Nat /\ Rate(b) \in Nat /\ MaxLag \in Nat /\ 0 <= MaxLag
      BY Capacities
<1> QED BY <1>1, <1>2, ConsumeAffordable DEF Refilled

LEMMA RateTypes == RateInv => RateTypeOK
<1> SUFFICES ASSUME RateInv PROVE RateTypeOK
    OBVIOUS
<1>1. /\ \A b \in Bucket : bucket[b] # Absent => bucket[b].tokens <= Cap(b) /\ bucket[b].age <= MaxAge
      /\ \A t \in Checker : check[t].pc \in {"idle", "identity", "ceiling"} /\ check[t].late \in 0..MaxLag
      /\ sweep.kind \in {"none", "prune", "clear"} /\ sweep.left \subseteq Bucket
      BY DEF RateInv, RateTyped
<1>2. \A b \in Bucket : budget[b] \in 0..Most(b)
      BY Capacities DEF RateInv, RateTyped, BucketCovered
<1>3. \A t \in Checker : check[t].late <= MaxLag
      BY <1>1, RateAssumption
<1> QED BY <1>1, <1>2, <1>3 DEF RateTypeOK

LEMMA RateInvariance == RateSpec => []RateInv
<1> QED BY RateStart, RateStep, PTL DEF RateSpec

(***************************************************************************)
(* The limiter's variables keep their types (rate_limit.rs).               *)
(***************************************************************************)
THEOREM RateTypeCorrect == RateSpec => []RateTypeOK
<1> QED BY RateInvariance, RateTypes, PTL

(***************************************************************************)
(* No bucket gives more than its burst and the time that passed justify,   *)
(* whatever prune_idle drops, clear forgets and late threads consume:      *)
(* try_consume with its backwards last_refill, prune_idle, clear.          *)
(***************************************************************************)
THEOREM BudgetNeverExceeded == RateSpec => []BudgetHolds
<1> QED BY RateInvariance, RateBudget, PTL

-----------------------------------------------------------------------------
(* The update: a whole binary is always there to be started, and what was  *)
(* installed keeps running.                                                *)

\* What UpdatesSafe asks of an installation: a root file system that is put back
\* at every start or at none, one administrator who waits for a scheduled restart
\* and does not remove the binary by its bare name, and no crash while the only
\* copy of a binary is written.
OneAtATime ==
    /\ Host \subseteq {"always", "never"} /\ Hasty = FALSE
    /\ \A a, b \in Updater : a = b
    /\ "bare" \notin Requests
    /\ CrashIn \cap {"saving", "restore", "regain", "restoring", "regaining"} = {}

InstallStep == {"stage", "staging", "verify", "backup", "saving", "swap", "mirror", "mirroring",
                "installed"}
RestoreStep == {"restore", "regain", "restoring", "regaining"}

Request ==
    [pc : InstallStep \cup RestoreStep \cup {"idle"}, release : 0..Newest,
     target : {"active", "data"}, tmp : {"tmp", "dtmp"}, bak : {"bak", "dbak"}, source : 0..Torn]

Ranges ==
    /\ host \in Host /\ volume \in BOOLEAN /\ writable \in BOOLEAN
    /\ file \in [Location -> 0..Torn] /\ archive \in [Release -> 0..Newest]
    /\ op \in [Updater -> Request]
    /\ proc \in [pc : {"down", "serving"}, release : 0..Newest, exe : {"active", "data"}]
    /\ due \in {"none", "active", "data"} /\ wanted \in 0..Newest

Nobody(steps) == \A a \in Updater : op[a].pc \notin steps

\* Between the requests the binaries are whole, but for the volume's: that may be torn
\* by a crash, as long as nobody runs it.
Rested ==
    /\ proc.pc = "serving" => proc.release \in Release
    /\ proc.pc = "down" \/ due # "none" => Nobody(InstallStep \cup RestoreStep)
    /\ proc.pc = "down" => due = "none"
    /\ due # "none" => Complete(file[due])
    /\ Nobody({"saving"}) => file["bak"] # Torn
    /\ Nobody(RestoreStep) => Complete(file["active"])
    /\ Nobody({"mirroring"}) /\ proc.pc = "serving" /\ proc.exe = "data" => file["data"] # Torn
    /\ ~writable => file["active"] = Image

\* What a request has done so far.
Underway(a) ==
    /\ op[a].pc \in InstallStep =>
          /\ op[a].release \in Release
          /\ \/ writable /\ op[a].target = "active" /\ op[a].tmp = "tmp" /\ op[a].bak = "bak"
             \/ ~writable /\ volume /\ op[a].target = "data" /\ op[a].tmp = "dtmp" /\ op[a].bak = "dbak"
    /\ op[a].pc \in {"verify", "backup", "saving", "swap"} => file[op[a].tmp] = op[a].release
    /\ op[a].pc = "saving" /\ op[a].bak # "bak" => file["bak"] # Torn
    /\ op[a].pc \in {"mirror", "mirroring"} =>
          /\ volume /\ op[a].target = "active" /\ file["active"] = op[a].release
    /\ op[a].pc = "installed" =>
          /\ file[op[a].target] = op[a].release
          /\ volume => file["data"] = op[a].release
    /\ op[a].pc \in {"mirror", "mirroring", "installed"} => wanted = Missing
    /\ op[a].pc \in RestoreStep =>
          /\ writable /\ wanted = Missing /\ Complete(Content(op[a].source))

\* Where the release is that has to stay: the next start takes it from there.
Stayed ==
    wanted # Missing =>
       /\ volume /\ wanted > Image
       /\ IF writable /\ host = "never"
            THEN file["active"] = wanted /\ file["data"] \in {Missing, wanted}
            ELSE file["data"] = wanted
       /\ proc.pc = "serving" =>
             IF due = "none" THEN proc.release = wanted ELSE file[due] = wanted

UpdateInv == Ranges /\ Rested /\ Stayed /\ \A a \in Updater : Underway(a)

LEMMA Releases ==
    /\ Newest \in Nat /\ Image \in 1..Newest /\ Torn = Newest + 1 /\ Missing = 0
    /\ \A b \in 0..Torn : Complete(b) <=> b # Missing /\ b # Torn
    /\ \A b : Complete(b) <=> b \in 1..Newest
BY UpdateAssumption DEF Release, Torn, Missing, Complete

LEMMA InitUpdateInv == UpdateInit => UpdateInv
<1> SUFFICES ASSUME UpdateInit PROVE UpdateInv
  OBVIOUS
<1>1. \A a \in Updater : op[a] = NoRequest
  BY DEF UpdateInit
<1>2. NoRequest.pc = "idle" /\ NoRequest \in Request
  <2>1. FromBak \in 0..Torn /\ Missing \in 0..Newest
    BY Releases DEF FromBak
  <2> QED BY <2>1 DEF NoRequest, Request
<1>3. \A steps : "idle" \notin steps => Nobody(steps)
  BY <1>1, <1>2 DEF Nobody
<1>4. "idle" \notin InstallStep /\ "idle" \notin RestoreStep
  BY DEF InstallStep, RestoreStep
<1>5. Ranges
  <2>1. file \in [Location -> 0..Torn]
    BY Releases DEF UpdateInit, Shipped
  <2>2. archive \in [Release -> 0..Newest] /\ wanted \in 0..Newest
    BY Releases DEF UpdateInit, NoArchive
  <2>3. op \in [Updater -> Request]
    BY <1>2 DEF UpdateInit
  <2>4. proc \in [pc : {"down", "serving"}, release : 0..Newest, exe : {"active", "data"}]
    <3>1. Missing \in 0..Newest
      BY Releases
    <3> QED BY <3>1 DEF UpdateInit, Down
  <2> QED BY <2>1, <2>2, <2>3, <2>4 DEF Ranges, UpdateInit
<1>6. Rested
  <2>1. proc.pc = "down" /\ due = "none"
    BY DEF UpdateInit, Down
  <2>2. file["active"] = Image /\ file["bak"] = Missing
    BY DEF UpdateInit, Shipped, Location
  <2>3. Complete(file["active"]) /\ file["bak"] # Torn
    BY <2>2, Releases
  <2> QED BY <1>3, <1>4, <2>1, <2>2, <2>3 DEF Rested
<1>7. Stayed
  BY DEF UpdateInit, Stayed
<1>8. ASSUME NEW a \in Updater PROVE Underway(a)
  <2>1. op[a].pc = "idle"
    BY <1>1, <1>2
  <2> QED BY <2>1 DEF Underway, InstallStep, RestoreStep
<1> QED BY <1>5, <1>6, <1>7, <1>8 DEF UpdateInv

\* There is one request at a time, and what a step makes of it is all there is.
LEMMA TheOne ==
    ASSUME OneAtATime, UpdateInv, NEW a \in Updater
    PROVE  /\ \A b \in Updater : b = a
           /\ op[a] \in Request
           /\ \A steps : Nobody(steps) <=> op[a].pc \notin steps
           /\ \A r : r \in Request => \A o : o = [op EXCEPT ![a] = r] => o[a] = r /\ o \in [Updater -> Request]
<1>1. \A b \in Updater : b = a
  BY DEF OneAtATime
<1>2. op \in [Updater -> Request]
  BY DEF UpdateInv, Ranges
<1>3. \A steps : Nobody(steps) <=> op[a].pc \notin steps
  BY <1>1, Zenon DEF Nobody
<1> QED BY <1>1, <1>2, <1>3

\* The requests that may begin find everything at rest.
LEMMA AtRest ==
    ASSUME OneAtATime, UpdateInv, NEW a \in Updater, NEW what, Asks(a, what)
    PROVE  /\ due = "none" /\ proc.pc = "serving" /\ proc.release \in Release
           /\ file["bak"] # Torn /\ Complete(file["active"])
           /\ proc.exe = "data" => file["data"] # Torn
           /\ op[a].pc = "idle" /\ what \in Requests
<1>1. due = "none" /\ proc.pc = "serving" /\ op[a].pc = "idle" /\ what \in Requests
  BY DEF Asks, Serves, OneAtATime
<1>2. Nobody({"saving"}) /\ Nobody(RestoreStep) /\ Nobody({"mirroring"})
  BY <1>1, TheOne DEF RestoreStep
<1> QED BY <1>1, <1>2 DEF UpdateInv, Rested

LEMMA EndedIs ==
    /\ NoRequest \in Request /\ NoRequest.pc = "idle"
    /\ \A f : f = [a \in Updater |-> NoRequest] =>
          f \in [Updater -> Request] /\ \A a \in Updater : f[a].pc = "idle"
<1>1. NoRequest.pc = "idle" /\ NoRequest \in Request
  <2>1. FromBak \in 0..Torn /\ Missing \in 0..Newest
    BY Releases DEF FromBak
  <2> QED BY <2>1 DEF NoRequest, Request
<1> QED BY <1>1

\* A request that is at rest, or whose process is gone, is at no step.
LEMMA NobodyIdle ==
    ASSUME \A a \in Updater : op[a].pc = "idle"
    PROVE  /\ \A a \in Updater : Underway(a)
           /\ Nobody(InstallStep \cup RestoreStep) /\ Nobody(InstallStep) /\ Nobody(RestoreStep)
           /\ Nobody({"saving"}) /\ Nobody({"mirroring"})
<1>1. "idle" \notin InstallStep \cup RestoreStep
  BY DEF InstallStep, RestoreStep
<1>2. \A a \in Updater : Underway(a)
  BY DEF Underway, InstallStep, RestoreStep
<1> QED BY <1>1, <1>2 DEF Nobody

LEMMA BootloadKeeps ==
    ASSUME OneAtATime, UpdateInv, NEW reset \in BOOLEAN, Bootload(reset)
    PROVE  UpdateInv'
<1> DEFINE base == IF reset THEN Image ELSE file["active"]
           d == file["data"]
<1>1. /\ proc.pc = "down" /\ Complete(base) /\ due = "none"
      /\ reset => host # "never"
      /\ ~reset => host # "always"
  BY DEF Bootload, UpdateInv, Rested
<1>2. host \in {"always", "never"} /\ Ranges /\ Stayed
  BY DEF UpdateInv, Ranges, OneAtATime
<1>3. \A a \in Updater : op[a].pc = "idle"
  <2>1. Nobody(InstallStep \cup RestoreStep)
    BY <1>1 DEF UpdateInv, Rested
  <2> QED BY <1>2, <2>1 DEF Nobody, Ranges, Request
<1>4. /\ host' = host /\ volume' = volume /\ writable' = writable /\ op' = op /\ due' = due /\ wanted' = wanted
      /\ archive' = IF reset THEN NoArchive ELSE archive
      /\ proc' = IF HandsOver(d, base) THEN [pc |-> "serving", release |-> d, exe |-> "data"]
                 ELSE [pc |-> "serving", release |-> base, exe |-> "active"]
  BY DEF Bootload
<1>5. file' \in [Location -> 0..Torn]
      /\ file'["active"] = base
      /\ file'["bak"] = (IF reset THEN Missing ELSE file["bak"])
      /\ file'["data"] = (IF Complete(d) /\ ~HandsOver(d, base) THEN Missing ELSE d)
  <2>1. file' = [p \in Location |->
               IF p = "data" THEN (IF Complete(d) /\ ~HandsOver(d, base) THEN Missing ELSE d)
               ELSE IF reset /\ p \in {"active", "bak", "tmp"} THEN Shipped[p] ELSE file[p]]
    BY DEF Bootload
  <2>2. /\ Shipped \in [Location -> 0..Torn] /\ Shipped["active"] = Image /\ Shipped["bak"] = Missing
        /\ file \in [Location -> 0..Torn] /\ Missing \in 0..Torn
    BY <1>2, Releases DEF Shipped, Location, Ranges
  <2> HIDE DEF d, base
  <2>3. d \in 0..Torn
    BY <2>2 DEF d, Location
  <2>4. file' \in [Location -> 0..Torn]
    BY <2>1, <2>2, <2>3
  <2>5. "active" \in Location /\ "bak" \in Location /\ "data" \in Location
    BY DEF Location
  <2>6. file'["active"] = base
    BY <2>1, <2>2, <2>5 DEF base
  <2>7. file'["bak"] = (IF reset THEN Missing ELSE file["bak"])
    BY <2>1, <2>2, <2>5
  <2>8. file'["data"] = (IF Complete(d) /\ ~HandsOver(d, base) THEN Missing ELSE d)
    BY <2>1, <2>5
  <2> QED BY <2>4, <2>6, <2>7, <2>8
<1>6. d \in 0..Torn /\ file["active"] \in 0..Torn /\ base \in 1..Newest
      /\ (HandsOver(d, base) => d \in 1..Newest /\ d > base)
      /\ (d \in 1..Newest /\ d > base => HandsOver(d, base))
  BY <1>1, <1>2, Releases DEF Ranges, Location, HandsOver
<1>7. /\ file["bak"] # Torn /\ Complete(file["active"])
      /\ ~writable => file["active"] = Image
  BY <1>3, NobodyIdle DEF UpdateInv, Rested
<1> HIDE DEF base, d
<1>8. proc'.pc = "serving" /\ proc'.release = (IF HandsOver(d, base) THEN d ELSE base)
      /\ proc'.exe = (IF HandsOver(d, base) THEN "data" ELSE "active")
  BY <1>4
<1>9. Ranges'
  <2>1. proc' \in [pc : {"down", "serving"}, release : 0..Newest, exe : {"active", "data"}]
    <3>1. d \in 0..Newest \/ ~HandsOver(d, base)
      BY <1>6
    <3>2. base \in 0..Newest
      BY <1>6
    <3> QED BY <1>4, <3>1, <3>2
  <2>2. archive' \in [Release -> 0..Newest]
    BY <1>2, <1>4, Releases DEF Ranges, NoArchive
  <2> QED BY <1>2, <1>4, <1>5, <2>1, <2>2 DEF Ranges
<1>10. Nobody(InstallStep \cup RestoreStep)' /\ \A a \in Updater : Underway(a)'
  <2>1. (\A a \in Updater : op[a].pc = "idle")'
    BY <1>3, <1>4
  <2>2. ((\A a \in Updater : op[a].pc = "idle") =>
         Nobody(InstallStep \cup RestoreStep) /\ \A a \in Updater : Underway(a))'
    BY NobodyIdle, PTL
  <2> QED BY <2>1, <2>2
<1>11. Rested'
  <2>1. (proc.pc = "serving" => proc.release \in Release)'
    BY <1>6, <1>8 DEF Release
  <2>2. (file["bak"] # Torn)'
    BY <1>5, <1>7, Releases DEF Torn
  <2>3. Complete(file["active"])'
    BY <1>1, <1>5 DEF Complete, Release
  <2>4. (proc.exe = "data" => file["data"] # Torn)'
    BY <1>5, <1>6, <1>8, Releases DEF Torn
  <2>5. (~writable => file["active"] = Image)'
    BY <1>4, <1>5, <1>7 DEF base
  <2> QED BY <1>1, <1>4, <1>8, <1>10, <2>1, <2>2, <2>3, <2>4, <2>5 DEF Rested
<1>12. Stayed'
  <2> SUFFICES ASSUME wanted # Missing PROVE Stayed'
    BY <1>4 DEF Stayed, Missing
  <2>1. /\ volume /\ wanted > Image
        /\ IF writable /\ host = "never"
            THEN file["active"] = wanted /\ d \in {Missing, wanted}
            ELSE d = wanted
    BY <1>2 DEF Stayed, d
  <2>2. wanted \in 1..Newest
    BY <1>2, Releases DEF Ranges
  <2>3. CASE writable /\ host = "never"
    <3>1. base = wanted
      BY <1>1, <2>1, <2>3 DEF base
    <3>2. ~HandsOver(d, base)
      BY <1>6, <2>1, <2>2, <2>3, <3>1, Releases
    <3>3. file'["data"] = Missing
      BY <1>5, <2>1, <2>2, <2>3, <3>2, Releases
    <3> QED BY <1>1, <1>4, <1>5, <1>8, <2>1, <2>3, <3>1, <3>2, <3>3 DEF Stayed, Missing
  <2>4. CASE ~(writable /\ host = "never")
    <3>1. base = Image
      BY <1>1, <1>2, <1>7, <2>4 DEF base
    <3>2. d = wanted /\ HandsOver(d, base)
      BY <1>6, <2>1, <2>2, <2>4, <3>1
    <3> QED BY <1>1, <1>4, <1>5, <1>8, <2>1, <2>4, <3>1, <3>2 DEF Stayed, Missing
  <2> QED BY <2>3, <2>4
<1> QED BY <1>9, <1>10, <1>11, <1>12 DEF UpdateInv

\* An install that goes from one of its steps to another.
LEMMA Proceeds ==
    ASSUME OneAtATime, UpdateInv, NEW a \in Updater, NEW s \in InstallStep, NEW t \in InstallStep,
           Serves(a, s), Goes(a, t)
    PROVE  /\ op' \in [Updater -> Request] /\ op'[a].pc = t
           /\ op'[a].release = op[a].release /\ op'[a].target = op[a].target /\ op'[a].tmp = op[a].tmp
           /\ op[a].pc = s /\ op[a].release \in Release
           /\ \/ writable /\ op[a].target = "active" /\ op[a].tmp = "tmp" /\ op[a].bak = "bak"
              \/ ~writable /\ volume /\ op[a].target = "data" /\ op[a].tmp = "dtmp" /\ op[a].bak = "dbak"
           /\ due = "none" /\ proc.pc = "serving" /\ proc.release \in Release
           /\ Complete(file["active"])
           /\ s # "saving" => file["bak"] # Torn
           /\ s # "mirroring" /\ proc.exe = "data" => file["data"] # Torn
           /\ ~writable => file["active"] = Image
           /\ \A steps : Nobody(steps)' <=> t \notin steps
           /\ op'[a].bak = op[a].bak
<1>1. op[a].pc = s /\ proc.pc = "serving" /\ op[a] \in Request /\ op \in [Updater -> Request]
  BY TheOne DEF Serves, UpdateInv, Ranges
<1>2. op' = [op EXCEPT ![a] = [op[a] EXCEPT !.pc = t]]
  BY DEF Goes
<1>3. /\ [op[a] EXCEPT !.pc = t] \in Request
      /\ [op[a] EXCEPT !.pc = t].pc = t
      /\ [op[a] EXCEPT !.pc = t].release = op[a].release
      /\ [op[a] EXCEPT !.pc = t].target = op[a].target
      /\ [op[a] EXCEPT !.pc = t].tmp = op[a].tmp
      /\ [op[a] EXCEPT !.pc = t].bak = op[a].bak
  BY <1>1 DEF Request
<1>4. op'[a] = [op[a] EXCEPT !.pc = t] /\ op' \in [Updater -> Request]
  BY <1>1, <1>2, <1>3
<1>5. \A b \in Updater : b = a
  BY DEF OneAtATime
<1>6. \A steps : Nobody(steps)' <=> t \notin steps
  <2>1. op'[a].pc = t
    BY <1>3, <1>4
  <2> QED BY <1>5, <2>1, Zenon DEF Nobody
<1>7. \A steps : Nobody(steps) <=> s \notin steps
  BY <1>1, TheOne
<1>8. due = "none"
  <2>1. ~Nobody(InstallStep \cup RestoreStep)
    BY <1>7
  <2> QED BY <2>1 DEF UpdateInv, Rested
<1>9. /\ Complete(file["active"])
      /\ s # "saving" => file["bak"] # Torn
      /\ s # "mirroring" /\ proc.exe = "data" => file["data"] # Torn
      /\ ~writable => file["active"] = Image
      /\ proc.release \in Release
  <2>1. s \notin RestoreStep
    BY DEF InstallStep, RestoreStep
  <2> QED BY <1>1, <1>7, <2>1 DEF UpdateInv, Rested
<1>10. /\ op[a].release \in Release
       /\ \/ writable /\ op[a].target = "active" /\ op[a].tmp = "tmp" /\ op[a].bak = "bak"
          \/ ~writable /\ volume /\ op[a].target = "data" /\ op[a].tmp = "dtmp" /\ op[a].bak = "dbak"
  BY <1>1 DEF UpdateInv, Underway
<1> QED BY <1>1, <1>3, <1>4, <1>6, <1>8, <1>9, <1>10

\* What one write does to the files.
LEMMA OneFile ==
    ASSUME UpdateInv, NEW p \in Location, NEW b \in 0..Torn, Puts(p, b)
    PROVE  /\ file' \in [Location -> 0..Torn] /\ file'[p] = b
           /\ \A q \in Location : q # p => file'[q] = file[q]
BY DEF UpdateInv, Ranges, Puts

LEMMA Places ==
    /\ "active" \in Location /\ "bak" \in Location /\ "tmp" \in Location
    /\ "data" \in Location /\ "dbak" \in Location /\ "dtmp" \in Location
    /\ \A p \in Location : file[p] = file[p]
BY DEF Location

LEMMA OneUnderway ==
    ASSUME OneAtATime, NEW a \in Updater, Underway(a)'
    PROVE  \A b \in Updater : Underway(b)'
<1>1. \A b \in Updater : b = a
  BY DEF OneAtATime
<1> QED BY <1>1, Zenon

\* Steps that leave the two binaries alone.
LEMMA AsideKeeps ==
    ASSUME OneAtATime, UpdateInv, NEW a \in Updater,
           NEW s \in InstallStep, NEW t \in InstallStep, Serves(a, s), Goes(a, t),
           UNCHANGED <<host, volume, writable, archive, proc, due, wanted>>,
           file' \in [Location -> 0..Torn],
           file'["active"] = file["active"], file'["data"] = file["data"],
           t # "saving" \/ op[a].bak # "bak" => file'["bak"] # Torn, s # "mirroring", 
           t \in {"verify", "backup", "saving", "swap"} => file'[op[a].tmp] = op[a].release,
           t \notin {"mirror", "mirroring", "installed"}
    PROVE  UpdateInv'
<1>1. /\ op' \in [Updater -> Request] /\ op'[a].pc = t
      /\ op'[a].release = op[a].release /\ op'[a].target = op[a].target
      /\ op'[a].tmp = op[a].tmp /\ op'[a].bak = op[a].bak
      /\ op[a].release \in Release
      /\ \/ writable /\ op[a].target = "active" /\ op[a].tmp = "tmp" /\ op[a].bak = "bak"
         \/ ~writable /\ volume /\ op[a].target = "data" /\ op[a].tmp = "dtmp" /\ op[a].bak = "dbak"
      /\ due = "none" /\ proc.pc = "serving" /\ proc.release \in Release /\ Complete(file["active"])
      /\ proc.exe = "data" => file["data"] # Torn
      /\ ~writable => file["active"] = Image
      /\ \A steps : Nobody(steps)' <=> t \notin steps
  BY Proceeds
<1>2. Ranges'
  BY <1>1 DEF UpdateInv, Ranges
<1>3. Rested'
  <2>1. (proc.pc = "serving" => proc.release \in Release)'
        /\ (~(proc.pc = "down" \/ due # "none"))' /\ (Nobody({"saving"}) => file["bak"] # Torn)'
    BY <1>1
  <2>2. Complete(file["active"])' /\ (proc.exe = "data" => file["data"] # Torn)'
        /\ (~writable => file["active"] = Image)'
    BY <1>1 DEF Complete, Release, Torn
  <2> QED BY <2>1, <2>2 DEF Rested
<1>4. Stayed'
  BY <1>1 DEF UpdateInv, Stayed, Missing
<1>5. Underway(a)'
  <2>1. t \notin RestoreStep
    BY DEF InstallStep, RestoreStep
  <2> QED BY <1>1, <2>1 DEF Underway, Release
<1> QED BY <1>2, <1>3, <1>4, <1>5, OneUnderway DEF UpdateInv

LEMMA StageKeeps ==
    ASSUME OneAtATime, UpdateInv, NEW a \in Updater, Stage(a)
    PROVE  UpdateInv'
<1>1. "stage" \in InstallStep /\ "staging" \in InstallStep
  BY DEF InstallStep
<1>2. Serves(a, "stage") /\ Goes(a, "staging") /\ Puts(op[a].tmp, Torn)
      /\ UNCHANGED <<host, volume, writable, archive, proc, due, wanted>>
  BY DEF Stage
<1>3. op[a].tmp \in {"tmp", "dtmp"} /\ file["bak"] # Torn
  BY <1>1, <1>2, Proceeds
<1>4. Torn \in 0..Torn
  BY Releases
<1>5. /\ file' \in [Location -> 0..Torn]
      /\ file'["active"] = file["active"] /\ file'["data"] = file["data"] /\ file'["bak"] = file["bak"]
  BY <1>2, <1>3, <1>4, OneFile, Places
<1> QED BY <1>1, <1>2, <1>3, <1>5, AsideKeeps

LEMMA StagedKeeps ==
    ASSUME OneAtATime, UpdateInv, NEW a \in Updater, Staged(a)
    PROVE  UpdateInv'
<1>1. "staging" \in InstallStep /\ "verify" \in InstallStep
  BY DEF InstallStep
<1>2. Serves(a, "staging") /\ Goes(a, "verify") /\ Puts(op[a].tmp, op[a].release)
      /\ UNCHANGED <<host, volume, writable, archive, proc, due, wanted>>
  BY DEF Staged
<1>3. op[a].tmp \in {"tmp", "dtmp"} /\ file["bak"] # Torn /\ op[a].release \in Release
  BY <1>1, <1>2, Proceeds
<1>4. op[a].release \in 0..Torn
  BY <1>3, Releases DEF Release
<1>5. /\ file' \in [Location -> 0..Torn] /\ file'[op[a].tmp] = op[a].release
      /\ file'["active"] = file["active"] /\ file'["data"] = file["data"] /\ file'["bak"] = file["bak"]
  BY <1>2, <1>3, <1>4, OneFile, Places
<1> QED BY <1>1, <1>2, <1>3, <1>5, AsideKeeps

LEMMA VerifyKeeps ==
    ASSUME OneAtATime, UpdateInv, NEW a \in Updater, Verify(a)
    PROVE  UpdateInv'
<1>1. "verify" \in InstallStep /\ "backup" \in InstallStep
  BY DEF InstallStep
<1>2. Serves(a, "verify") /\ UNCHANGED <<host, volume, writable, archive, proc, due, wanted>>
  BY DEF Verify
<1>3. file[op[a].tmp] = op[a].release /\ op[a].release \in Release
  BY <1>1, <1>2 DEF UpdateInv, Underway, Serves
<1>4. Goes(a, "backup") /\ file' = file
  BY <1>3 DEF Verify, Complete
<1>5. file["bak"] # Torn
  BY <1>1, <1>2, <1>4, Proceeds
<1>6. file' \in [Location -> 0..Torn]
  BY <1>4 DEF UpdateInv, Ranges
<1> QED BY <1>1, <1>2, <1>3, <1>4, <1>5, <1>6, AsideKeeps

LEMMA BackupKeeps ==
    ASSUME OneAtATime, UpdateInv, NEW a \in Updater, Backup(a)
    PROVE  UpdateInv'
<1>1. "backup" \in InstallStep /\ "saving" \in InstallStep /\ "swap" \in InstallStep
  BY DEF InstallStep
<1>2. Serves(a, "backup") /\ UNCHANGED <<host, volume, writable, archive, proc, due, wanted>>
  BY DEF Backup
<1>3. file[op[a].tmp] = op[a].release
  BY <1>2 DEF UpdateInv, Underway, Serves
<1>4. CASE Goes(a, "swap") /\ file' = file
  <2>1. file["bak"] # Torn
    BY <1>1, <1>2, <1>4, Proceeds
  <2>2. file' \in [Location -> 0..Torn]
    BY <1>4 DEF UpdateInv, Ranges
  <2> QED BY <1>1, <1>2, <1>3, <1>4, <2>1, <2>2, AsideKeeps
<1>5. CASE Goes(a, "saving") /\ Puts(op[a].bak, Torn)
  <2>1. op[a].bak \in {"bak", "dbak"} /\ op[a].tmp \in {"tmp", "dtmp"}
    BY <1>1, <1>2, <1>5, Proceeds
  <2>2. Torn \in 0..Torn
    BY Releases
  <2>3. /\ file' \in [Location -> 0..Torn] /\ file'[op[a].tmp] = file[op[a].tmp]
        /\ file'["active"] = file["active"] /\ file'["data"] = file["data"]
        /\ op[a].bak # "bak" => file'["bak"] = file["bak"]
    BY <1>5, <2>1, <2>2, OneFile, Places
  <2>4. file["bak"] # Torn
    BY <1>1, <1>2, <1>5, Proceeds
  <2> QED BY <1>1, <1>2, <1>3, <1>5, <2>3, <2>4, AsideKeeps
<1> QED BY <1>4, <1>5 DEF Backup

LEMMA SavedKeeps ==
    ASSUME OneAtATime, UpdateInv, NEW a \in Updater, Saved(a)
    PROVE  UpdateInv'
<1>1. "saving" \in InstallStep /\ "swap" \in InstallStep
  BY DEF InstallStep
<1>2. Serves(a, "saving") /\ Goes(a, "swap") /\ Puts(op[a].bak, file[op[a].target])
      /\ UNCHANGED <<host, volume, writable, archive, proc, due, wanted>>
  BY DEF Saved
<1>3. /\ \/ op[a].target = "active" /\ op[a].tmp = "tmp" /\ op[a].bak = "bak"
         \/ op[a].target = "data" /\ op[a].tmp = "dtmp" /\ op[a].bak = "dbak"
      /\ Complete(file["active"])
  <2>1. /\ \/ writable /\ op[a].target = "active" /\ op[a].tmp = "tmp" /\ op[a].bak = "bak"
           \/ ~writable /\ volume /\ op[a].target = "data" /\ op[a].tmp = "dtmp" /\ op[a].bak = "dbak"
        /\ Complete(file["active"])
    BY <1>1, <1>2, Proceeds
  <2> QED BY <2>1
<1>4. file[op[a].tmp] = op[a].release
  BY <1>2 DEF UpdateInv, Underway, Serves
<1>5. file["active"] \in 0..Torn /\ file["data"] \in 0..Torn /\ file["active"] # Torn
  BY <1>3, Places, Releases DEF UpdateInv, Ranges
<1>6. CASE op[a].target = "active" /\ op[a].tmp = "tmp" /\ op[a].bak = "bak"
  <2>1. Puts("bak", file["active"])
    BY <1>2, <1>6
  <2>2. /\ file' \in [Location -> 0..Torn] /\ file'["bak"] = file["active"]
        /\ file'["active"] = file["active"] /\ file'["data"] = file["data"] /\ file'["tmp"] = file["tmp"]
    BY <1>5, <2>1, OneFile, Places
  <2> QED BY <1>1, <1>2, <1>4, <1>5, <1>6, <2>2, AsideKeeps
<1>7. CASE op[a].target = "data" /\ op[a].tmp = "dtmp" /\ op[a].bak = "dbak"
  <2>1. Puts("dbak", file["data"])
    BY <1>2, <1>7
  <2>2. /\ file' \in [Location -> 0..Torn] /\ file'["bak"] = file["bak"]
        /\ file'["active"] = file["active"] /\ file'["data"] = file["data"] /\ file'["dtmp"] = file["dtmp"]
    BY <1>5, <2>1, OneFile, Places
  <2>3. file["bak"] # Torn
    BY <1>2, <1>7 DEF UpdateInv, Underway, Serves
  <2> QED BY <1>1, <1>2, <1>4, <1>7, <2>2, <2>3, AsideKeeps
<1> QED BY <1>3, <1>6, <1>7

LEMMA SwapKeeps ==
    ASSUME OneAtATime, UpdateInv, NEW a \in Updater, Swap(a)
    PROVE  UpdateInv'
<1> DEFINE r == op[a].release
           t == IF op[a].target = "active" /\ volume THEN "mirror" ELSE "installed"
<1>1. "swap" \in InstallStep /\ t \in InstallStep
  BY DEF InstallStep
<1>2. Serves(a, "swap") /\ wanted' = Missing
      /\ UNCHANGED <<host, volume, writable, archive, proc, due>>
  BY DEF Swap
<1>3. file[op[a].tmp] = r
  BY <1>2 DEF UpdateInv, Underway, Serves
<1>4. /\ r \in Release
      /\ \/ writable /\ op[a].target = "active" /\ op[a].tmp = "tmp"
         \/ ~writable /\ volume /\ op[a].target = "data" /\ op[a].tmp = "dtmp"
  <2>1. op[a].pc = "swap"
    BY <1>2 DEF Serves
  <2> QED BY <1>1, <2>1 DEF UpdateInv, Underway
<1>5. r # Missing /\ r # Torn /\ r \in 0..Torn /\ Missing \in 0..Torn /\ Complete(r)
  BY <1>4, Releases DEF Release
<1> HIDE DEF r, t
<1>6. file' = [file EXCEPT ![op[a].target] = r, ![op[a].tmp] = Missing]
  BY <1>3, <1>5 DEF Swap, Swapped
<1>7. /\ file' \in [Location -> 0..Torn]
      /\ file'[op[a].target] = r /\ file'["bak"] = file["bak"]
      /\ op[a].target = "active" => file'["data"] = file["data"]
      /\ op[a].target = "data" => file'["active"] = file["active"]
  <2>1. file \in [Location -> 0..Torn]
    BY DEF UpdateInv, Ranges
  <2>2. CASE op[a].target = "active" /\ op[a].tmp = "tmp"
    BY <1>5, <1>6, <2>1, <2>2, Places
  <2>3. CASE op[a].target = "data" /\ op[a].tmp = "dtmp"
    BY <1>5, <1>6, <2>1, <2>3, Places
  <2> QED BY <1>4, <2>2, <2>3
<1>8. Goes(a, t)
  BY <1>5, <1>7 DEF Swap, t
<1>9. /\ op' \in [Updater -> Request] /\ op'[a].pc = t
      /\ op'[a].release = op[a].release /\ op'[a].target = op[a].target
      /\ op'[a].tmp = op[a].tmp /\ op'[a].bak = op[a].bak
      /\ due = "none" /\ proc.pc = "serving" /\ proc.release \in Release
      /\ \/ writable /\ op[a].target = "active" /\ op[a].tmp = "tmp" /\ op[a].bak = "bak"
         \/ ~writable /\ volume /\ op[a].target = "data" /\ op[a].tmp = "dtmp" /\ op[a].bak = "dbak"
      /\ file["bak"] # Torn /\ Complete(file["active"])
      /\ proc.exe = "data" => file["data"] # Torn
      /\ ~writable => file["active"] = Image
      /\ \A steps : Nobody(steps)' <=> t \notin steps
  BY <1>1, <1>2, <1>8, Proceeds
<1>10. Ranges'
  <2>1. wanted' \in 0..Newest
    BY <1>2, Releases
  <2> QED BY <1>2, <1>7, <1>9, <2>1 DEF UpdateInv, Ranges
<1>11. Rested'
  <2>1. (proc.pc = "serving" /\ proc.release \in Release /\ due = "none" /\ file["bak"] # Torn)'
    BY <1>2, <1>7, <1>9 DEF Torn, Release
  <2>2. (Complete(file["active"]) /\ (proc.exe = "data" => file["data"] # Torn)
         /\ (~writable => file["active"] = Image))'
    <3>1. CASE op[a].target = "active" /\ writable
      BY <1>2, <1>5, <1>7, <1>9, <3>1 DEF Complete, Release, Torn
    <3>2. CASE op[a].target = "data" /\ ~writable
      BY <1>2, <1>5, <1>7, <1>9, <3>2 DEF Complete, Release, Torn
    <3> QED BY <1>4, <3>1, <3>2
  <2> QED BY <2>1, <2>2 DEF Rested
<1>12. Stayed'
  BY <1>2 DEF Stayed, Missing
<1>13. Underway(a)'
  <2>1. t \in {"mirror", "installed"} /\ (t = "mirror" => op[a].target = "active" /\ volume)
        /\ (t = "installed" => op[a].target = "data" \/ ~volume)
    BY <1>4 DEF t
  <2>2. t \notin RestoreStep /\ t \notin {"verify", "backup", "saving", "swap"} /\ t # "mirroring"
    BY <2>1 DEF RestoreStep
  <2>3. wanted' = Missing' /\ volume' = volume /\ writable' = writable
    BY <1>2 DEF Missing
  <2>4. op'[a].release \in Release'
    BY <1>4, <1>9 DEF Release, r
  <2>5. t = "mirror" => file'["active"] = op'[a].release
    BY <1>7, <1>9, <2>1 DEF r
  <2>6. t = "installed" => file'[op'[a].target] = op'[a].release
                           /\ (volume => file'["data"] = op'[a].release)
    BY <1>4, <1>7, <1>9, <2>1 DEF r
  <2> QED BY <1>9, <2>1, <2>2, <2>3, <2>4, <2>5, <2>6 DEF Underway
<1> QED BY <1>10, <1>11, <1>12, <1>13, OneUnderway DEF UpdateInv

LEMMA MirrorKeeps ==
    ASSUME OneAtATime, UpdateInv, NEW a \in Updater, Mirror(a)
    PROVE  UpdateInv'
<1>1. "mirror" \in InstallStep /\ "mirroring" \in InstallStep
  BY DEF InstallStep
<1>2. Serves(a, "mirror") /\ Goes(a, "mirroring") /\ Puts("data", Torn)
      /\ UNCHANGED <<host, volume, writable, archive, proc, due, wanted>>
  BY DEF Mirror
<1>3. /\ op' \in [Updater -> Request] /\ op'[a].pc = "mirroring"
      /\ op'[a].release = op[a].release /\ op'[a].target = op[a].target
      /\ op'[a].tmp = op[a].tmp /\ op'[a].bak = op[a].bak
      /\ op[a].release \in Release
      /\ due = "none" /\ proc.pc = "serving" /\ proc.release \in Release
      /\ \/ writable /\ op[a].target = "active" /\ op[a].tmp = "tmp" /\ op[a].bak = "bak"
         \/ ~writable /\ volume /\ op[a].target = "data" /\ op[a].tmp = "dtmp" /\ op[a].bak = "dbak"
      /\ file["bak"] # Torn /\ Complete(file["active"])
      /\ ~writable => file["active"] = Image
      /\ \A steps : Nobody(steps)' <=> "mirroring" \notin steps
  BY <1>1, <1>2, Proceeds
<1>4. volume /\ op[a].target = "active" /\ file["active"] = op[a].release /\ wanted = Missing
  BY <1>2 DEF UpdateInv, Underway, Serves
<1>5. file' \in [Location -> 0..Torn]
      /\ file'["active"] = file["active"] /\ file'["bak"] = file["bak"]
  <2>1. Torn \in 0..Torn
    BY Releases
  <2> QED BY <1>2, <2>1, OneFile, Places
<1>6. Ranges'
  BY <1>2, <1>3, <1>5 DEF UpdateInv, Ranges
<1>7. Rested'
  <2>1. (proc.pc = "serving" /\ proc.release \in Release /\ due = "none" /\ file["bak"] # Torn
         /\ Complete(file["active"]) /\ (~writable => file["active"] = Image))'
    BY <1>2, <1>3, <1>5 DEF Torn, Release, Complete
  <2>2. ~Nobody({"mirroring"})'
    BY <1>3
  <2> QED BY <2>1, <2>2 DEF Rested
<1>8. Stayed'
  BY <1>2, <1>4 DEF Stayed, Missing
<1>9. Underway(a)'
  <2>1. "mirroring" \notin RestoreStep
    BY DEF RestoreStep
  <2> QED BY <1>2, <1>3, <1>4, <1>5, <2>1 DEF Underway, Release, Missing
<1> QED BY <1>6, <1>7, <1>8, <1>9, OneUnderway DEF UpdateInv

LEMMA MirroredKeeps ==
    ASSUME OneAtATime, UpdateInv, NEW a \in Updater, Mirrored(a)
    PROVE  UpdateInv'
<1>1. "mirroring" \in InstallStep /\ "installed" \in InstallStep
  BY DEF InstallStep
<1>2. Serves(a, "mirroring") /\ Goes(a, "installed") /\ Puts("data", file["active"])
      /\ UNCHANGED <<host, volume, writable, archive, proc, due, wanted>>
  BY DEF Mirrored
<1>3. /\ op' \in [Updater -> Request] /\ op'[a].pc = "installed"
      /\ op'[a].release = op[a].release /\ op'[a].target = op[a].target
      /\ op'[a].tmp = op[a].tmp /\ op'[a].bak = op[a].bak
      /\ op[a].release \in Release
      /\ due = "none" /\ proc.pc = "serving" /\ proc.release \in Release
      /\ \/ writable /\ op[a].target = "active" /\ op[a].tmp = "tmp" /\ op[a].bak = "bak"
         \/ ~writable /\ volume /\ op[a].target = "data" /\ op[a].tmp = "dtmp" /\ op[a].bak = "dbak"
      /\ file["bak"] # Torn /\ Complete(file["active"])
      /\ ~writable => file["active"] = Image
  BY <1>1, <1>2, Proceeds
<1>4. volume /\ op[a].target = "active" /\ file["active"] = op[a].release /\ wanted = Missing
  BY <1>2 DEF UpdateInv, Underway, Serves
<1>5. file' \in [Location -> 0..Torn] /\ file'["data"] = file["active"]
      /\ file'["active"] = file["active"] /\ file'["bak"] = file["bak"]
  <2>1. file["active"] \in 0..Torn
    BY Places DEF UpdateInv, Ranges
  <2> QED BY <1>2, <2>1, OneFile, Places
<1>6. Ranges'
  BY <1>2, <1>3, <1>5 DEF UpdateInv, Ranges
<1>7. Rested'
  <2>1. file["active"] # Torn
    BY <1>3, Releases
  <2>2. (proc.pc = "serving" /\ proc.release \in Release /\ due = "none" /\ file["bak"] # Torn
         /\ Complete(file["active"]) /\ (~writable => file["active"] = Image) /\ file["data"] # Torn)'
    BY <1>2, <1>3, <1>5, <2>1 DEF Torn, Release, Complete
  <2> QED BY <2>2 DEF Rested
<1>8. Stayed'
  BY <1>2, <1>4 DEF Stayed, Missing
<1>9. Underway(a)'
  <2>1. "installed" \notin RestoreStep
    BY DEF RestoreStep
  <2> QED BY <1>2, <1>3, <1>4, <1>5, <2>1 DEF Underway, Release, Missing
<1> QED BY <1>6, <1>7, <1>8, <1>9, OneUnderway DEF UpdateInv

\* A request that takes the place of what was there before.
LEMMA Replaced ==
    ASSUME OneAtATime, UpdateInv, NEW a \in Updater, NEW q \in Request, op' = [op EXCEPT ![a] = q]
    PROVE  /\ op' \in [Updater -> Request] /\ op'[a] = q
           /\ \A steps : Nobody(steps)' <=> q.pc \notin steps
<1>1. op \in [Updater -> Request]
  BY DEF UpdateInv, Ranges
<1>2. op' \in [Updater -> Request] /\ op'[a] = q
  BY <1>1
<1>3. \A b \in Updater : b = a
  BY DEF OneAtATime
<1>4. \A steps : Nobody(steps)' <=> q.pc \notin steps
  BY <1>2, <1>3, Zenon DEF Nobody
<1> QED BY <1>2, <1>4

LEMMA AllIdle ==
    ((\A a \in Updater : op[a].pc = "idle") =>
     Nobody(InstallStep \cup RestoreStep) /\ \A a \in Updater : Underway(a))'
<1>1. (\A a \in Updater : op[a].pc = "idle") =>
     Nobody(InstallStep \cup RestoreStep) /\ \A a \in Updater : Underway(a)
  BY NobodyIdle
<1> QED BY <1>1, PTL

LEMMA IdleAfter ==
    ASSUME OneAtATime, UpdateInv, NEW a \in Updater, op'[a].pc = "idle"
    PROVE  /\ \A b \in Updater : Underway(b)'
           /\ (Nobody(InstallStep \cup RestoreStep))'
<1>1. \A b \in Updater : b = a
  BY DEF OneAtATime
<1>2. (\A b \in Updater : op[b].pc = "idle")'
  BY <1>1
<1> QED BY <1>2, AllIdle

LEMMA InstallKeeps ==
    ASSUME OneAtATime, UpdateInv, NEW a \in Updater, NEW v \in Release, Install(a, v)
    PROVE  UpdateInv'
<1> DEFINE q == IF writable THEN [NoRequest EXCEPT !.pc = "stage", !.release = v]
                ELSE [pc |-> "stage", release |-> v, target |-> "data", tmp |-> "dtmp", bak |-> "dbak", source |-> FromBak]
<1>1. Asks(a, "install") /\ (writable \/ volume) /\ op' = [op EXCEPT ![a] = q]
      /\ UNCHANGED <<host, volume, writable, file, archive, proc, due, wanted>>
  BY DEF Install
<1>2. /\ q \in Request /\ q.pc = "stage" /\ q.release = v
      /\ \/ writable /\ q.target = "active" /\ q.tmp = "tmp" /\ q.bak = "bak"
         \/ ~writable /\ q.target = "data" /\ q.tmp = "dtmp" /\ q.bak = "dbak"
  <2>1. v \in 0..Newest /\ FromBak \in 0..Torn /\ Missing \in 0..Newest /\ "stage" \in InstallStep
    BY Releases DEF Release, FromBak, InstallStep
  <2>2. CASE writable
    <3>1. q = [pc |-> "stage", release |-> v, target |-> "active", tmp |-> "tmp", bak |-> "bak", source |-> FromBak]
      BY <2>2 DEF NoRequest
    <3> HIDE DEF q
    <3> QED BY <2>1, <2>2, <3>1 DEF Request
  <2>3. CASE ~writable
    <3>1. q = [pc |-> "stage", release |-> v, target |-> "data", tmp |-> "dtmp", bak |-> "dbak", source |-> FromBak]
      BY <2>3
    <3> HIDE DEF q
    <3> QED BY <2>1, <2>3, <3>1 DEF Request
  <2> QED BY <2>2, <2>3
<1> HIDE DEF q
<1>3. /\ op' \in [Updater -> Request] /\ op'[a] = q
      /\ \A steps : Nobody(steps)' <=> q.pc \notin steps
  BY <1>1, <1>2, Replaced
<1>4. /\ due = "none" /\ proc.pc = "serving" /\ proc.release \in Release
      /\ file["bak"] # Torn /\ Complete(file["active"])
      /\ proc.exe = "data" => file["data"] # Torn
  BY <1>1, AtRest
<1>5. Ranges'
  BY <1>1, <1>3 DEF UpdateInv, Ranges
<1>6. Rested'
  <2>1. (proc.pc = "serving" /\ proc.release \in Release /\ due = "none" /\ file["bak"] # Torn
         /\ Complete(file["active"]) /\ (~writable => file["active"] = Image)
         /\ (proc.exe = "data" => file["data"] # Torn))'
    BY <1>1, <1>4 DEF Torn, Release, Complete, UpdateInv, Rested
  <2> QED BY <2>1 DEF Rested
<1>7. Stayed'
  BY <1>1, <1>4 DEF UpdateInv, Stayed, Missing
<1>8. Underway(a)'
  <2>1. "stage" \notin RestoreStep
    BY DEF RestoreStep
  <2> QED BY <1>1, <1>2, <1>3, <2>1 DEF Underway, Release
<1> QED BY <1>5, <1>6, <1>7, <1>8, OneUnderway DEF UpdateInv

LEMMA InstalledKeeps ==
    ASSUME OneAtATime, UpdateInv, NEW a \in Updater, Installed(a)
    PROVE  UpdateInv'
<1>1. Serves(a, "installed") /\ op' = [op EXCEPT ![a] = NoRequest]
      /\ due' = op[a].target
      /\ wanted' = (IF volume /\ op[a].release > Image THEN op[a].release ELSE Missing)
      /\ UNCHANGED <<host, volume, writable, file, archive, proc>>
  BY DEF Installed, Ends
<1>2. /\ op' \in [Updater -> Request] /\ op'[a].pc = "idle"
  BY <1>1, EndedIs, Replaced
<1>3. (\A b \in Updater : Underway(b)') /\ (Nobody(InstallStep \cup RestoreStep))'
  BY <1>2, IdleAfter
<1>4. /\ op[a].release \in Release
      /\ \/ writable /\ op[a].target = "active" /\ op[a].tmp = "tmp" /\ op[a].bak = "bak"
         \/ ~writable /\ volume /\ op[a].target = "data" /\ op[a].tmp = "dtmp" /\ op[a].bak = "dbak"
      /\ file[op[a].target] = op[a].release
      /\ volume => file["data"] = op[a].release
      /\ op[a].pc = "installed" /\ proc.pc = "serving"
  <2>1. op[a].pc = "installed" /\ "installed" \in InstallStep /\ proc.pc = "serving"
    BY <1>1 DEF Serves, InstallStep
  <2> QED BY <2>1 DEF UpdateInv, Underway
<1>5. op[a].release \in 0..Newest /\ Missing \in 0..Newest /\ op[a].release # Torn /\ Complete(op[a].release)
  BY <1>4, Releases DEF Release
<1>6. /\ file["bak"] # Torn /\ Complete(file["active"]) /\ proc.release \in Release
      /\ ~writable => file["active"] = Image
      /\ proc.exe = "data" => file["data"] # Torn
  <2>1. \A steps : Nobody(steps) <=> "installed" \notin steps
    BY <1>4, TheOne
  <2>2. "installed" \notin RestoreStep
    BY DEF RestoreStep
  <2> QED BY <1>4, <2>1, <2>2 DEF UpdateInv, Rested
<1>7. Ranges'
  BY <1>1, <1>2, <1>4, <1>5 DEF UpdateInv, Ranges
<1>8. Rested'
  <2>1. (proc.pc = "serving" /\ proc.release \in Release /\ file["bak"] # Torn
         /\ Complete(file["active"]) /\ (~writable => file["active"] = Image)
         /\ (proc.exe = "data" => file["data"] # Torn))'
    BY <1>1, <1>4, <1>6 DEF Torn, Release, Complete
  <2>2. Complete(file[due])'
    BY <1>1, <1>4, <1>5 DEF Complete, Release
  <2> QED BY <1>3, <2>1, <2>2 DEF Rested
<1>9. Stayed'
  <2> SUFFICES ASSUME volume, op[a].release > Image, wanted' = op[a].release PROVE Stayed'
    BY <1>1 DEF Stayed, Missing
  <2>1. due' # "none" /\ file'[due'] = wanted' /\ volume' /\ wanted' > Image /\ file'["data"] = wanted'
    BY <1>1, <1>4
  <2>2. writable' => file'["active"] = wanted'
    BY <1>1, <1>4
  <2> QED BY <2>1, <2>2 DEF Stayed
<1> QED BY <1>3, <1>7, <1>8, <1>9 DEF UpdateInv

LEMMA ExitKeeps == OneAtATime /\ UpdateInv /\ Exit => UpdateInv'
<1> SUFFICES ASSUME OneAtATime, UpdateInv, Exit PROVE UpdateInv'
  OBVIOUS
<1>1. proc' = Down /\ op' = [a \in Updater |-> NoRequest] /\ due' = "none"
      /\ UNCHANGED <<host, volume, writable, file, archive, wanted>>
  BY DEF Exit
<1>2. op' \in [Updater -> Request] /\ (\A a \in Updater : op[a].pc = "idle")'
  BY <1>1, EndedIs
<1>3. (Nobody(InstallStep \cup RestoreStep) /\ \A b \in Updater : Underway(b))'
  BY <1>2, AllIdle
<1>4. proc'.pc = "down" /\ proc' \in [pc : {"down", "serving"}, release : 0..Newest, exe : {"active", "data"}]
  <2>1. Missing \in 0..Newest
    BY Releases
  <2> QED BY <1>1, <2>1 DEF Down
<1>5. Ranges'
  BY <1>1, <1>2, <1>4 DEF UpdateInv, Ranges
<1>6. /\ Nobody({"saving"}) /\ Nobody(RestoreStep)
  <2>1. \A a \in Updater : op[a].pc = "idle" \/ op[a].pc \in CrashIn
    BY DEF Exit
  <2>2. "idle" \notin RestoreStep
    BY DEF RestoreStep
  <2> QED BY <2>1, <2>2 DEF Nobody, RestoreStep, OneAtATime
<1>7. Rested'
  <2>1. file["bak"] # Torn /\ Complete(file["active"]) /\ (~writable => file["active"] = Image)
    BY <1>6 DEF UpdateInv, Rested
  <2>2. (file["bak"] # Torn /\ Complete(file["active"]) /\ (~writable => file["active"] = Image))'
    BY <1>1, <2>1 DEF Torn, Complete, Release
  <2> QED BY <1>1, <1>3, <1>4, <2>2 DEF Rested
<1>8. Stayed'
  BY <1>1, <1>4 DEF UpdateInv, Stayed, Missing
<1> QED BY <1>3, <1>5, <1>7, <1>8 DEF UpdateInv

LEMMA ExecKeeps == OneAtATime /\ UpdateInv /\ Exec => UpdateInv'
<1> SUFFICES ASSUME OneAtATime, UpdateInv, Exec PROVE UpdateInv'
  OBVIOUS
<1>1. due \in {"active", "data"} /\ Complete(file[due]) /\ proc.pc = "serving"
      /\ Nobody(InstallStep \cup RestoreStep)
  BY DEF Exec, UpdateInv, Ranges, Rested
<1>2. proc' = [pc |-> "serving", release |-> file[due], exe |-> due]
      /\ op' = [a \in Updater |-> NoRequest] /\ due' = "none"
      /\ UNCHANGED <<host, volume, writable, file, archive, wanted>>
  BY <1>1 DEF Exec
<1>3. op' \in [Updater -> Request] /\ (\A a \in Updater : op[a].pc = "idle")'
  BY <1>2, EndedIs
<1>4. (Nobody(InstallStep \cup RestoreStep) /\ \A b \in Updater : Underway(b))'
  BY <1>3, AllIdle
<1>5. file[due] \in 0..Newest /\ file[due] \in Release /\ file[due] # Torn
  BY <1>1, Releases DEF Release
<1>6. Ranges'
  <2>1. proc' \in [pc : {"down", "serving"}, release : 0..Newest, exe : {"active", "data"}]
    BY <1>1, <1>2, <1>5
  <2> QED BY <1>2, <1>3, <2>1 DEF UpdateInv, Ranges
<1>7. Rested'
  <2>1. "saving" \in InstallStep \cup RestoreStep
    BY DEF InstallStep
  <2>2. Nobody({"saving"}) /\ Nobody(RestoreStep)
    BY <1>1, <2>1 DEF Nobody
  <2>3. file["bak"] # Torn /\ Complete(file["active"]) /\ (~writable => file["active"] = Image)
    BY <2>2 DEF UpdateInv, Rested
  <2>4. (file["bak"] # Torn /\ Complete(file["active"]) /\ (~writable => file["active"] = Image))'
    BY <1>2, <2>3 DEF Torn, Complete, Release
  <2>5. (proc.pc = "serving" /\ proc.release \in Release /\ (proc.exe = "data" => file["data"] # Torn))'
    BY <1>2, <1>5 DEF Torn, Release
  <2> QED BY <1>2, <1>4, <2>4, <2>5 DEF Rested
<1>8. Stayed'
  <2> SUFFICES ASSUME wanted # Missing PROVE Stayed'
    BY <1>2 DEF Stayed, Missing
  <2>1. file[due] = wanted
    BY <1>1 DEF UpdateInv, Stayed
  <2> QED BY <1>2, <2>1 DEF UpdateInv, Stayed, Missing
<1> QED BY <1>4, <1>6, <1>7, <1>8 DEF UpdateInv

LEMMA RequestIs ==
    ASSUME NEW source
    PROVE  /\ [NoRequest EXCEPT !.pc = "restore", !.source = source]
                 = [pc |-> "restore", release |-> Missing, target |-> "active", tmp |-> "tmp",
                    bak |-> "bak", source |-> source]
           /\ [NoRequest EXCEPT !.pc = "regain", !.source = source]
                 = [pc |-> "regain", release |-> Missing, target |-> "active", tmp |-> "tmp",
                    bak |-> "bak", source |-> source]
<1>1. \A step : [NoRequest EXCEPT !.pc = step, !.source = source]
                   = [[NoRequest EXCEPT !.pc = step] EXCEPT !.source = source]
  BY DEF NoRequest
<1>2. [NoRequest EXCEPT !.pc = "restore"] = [pc |-> "restore", release |-> Missing, target |-> "active", tmp |-> "tmp", bak |-> "bak", source |-> FromBak]
  BY DEF NoRequest
<1>3. [NoRequest EXCEPT !.pc = "regain"] = [pc |-> "regain", release |-> Missing, target |-> "active", tmp |-> "tmp", bak |-> "bak", source |-> FromBak]
  BY DEF NoRequest
<1>4. [[pc |-> "restore", release |-> Missing, target |-> "active", tmp |-> "tmp", bak |-> "bak", source |-> FromBak] EXCEPT !.source = source] = [pc |-> "restore", release |-> Missing, target |-> "active", tmp |-> "tmp", bak |-> "bak", source |-> source]
  OBVIOUS
<1>5. [[pc |-> "regain", release |-> Missing, target |-> "active", tmp |-> "tmp", bak |-> "bak", source |-> FromBak] EXCEPT !.source = source] = [pc |-> "regain", release |-> Missing, target |-> "active", tmp |-> "tmp", bak |-> "bak", source |-> source]
  OBVIOUS
<1> QED BY <1>1, <1>2, <1>3, <1>4, <1>5

LEMMA RequestTo ==
    ASSUME NEW source \in 0..Torn
    PROVE  /\ [NoRequest EXCEPT !.pc = "restore", !.source = source] \in Request
           /\ [NoRequest EXCEPT !.pc = "restore", !.source = source].pc = "restore"
           /\ [NoRequest EXCEPT !.pc = "restore", !.source = source].source = source
           /\ [NoRequest EXCEPT !.pc = "regain", !.source = source] \in Request
           /\ [NoRequest EXCEPT !.pc = "regain", !.source = source].pc = "regain"
           /\ [NoRequest EXCEPT !.pc = "regain", !.source = source].source = source
<1> DEFINE q == [NoRequest EXCEPT !.pc = "restore", !.source = source]
           r == [NoRequest EXCEPT !.pc = "regain", !.source = source]
<1>1. q = [pc |-> "restore", release |-> Missing, target |-> "active", tmp |-> "tmp", bak |-> "bak", source |-> source]
  BY RequestIs
<1>2. r = [pc |-> "regain", release |-> Missing, target |-> "active", tmp |-> "tmp", bak |-> "bak", source |-> source]
  BY RequestIs
<1>3. Missing \in 0..Newest /\ "restore" \in RestoreStep /\ "regain" \in RestoreStep
  BY Releases DEF RestoreStep
<1> HIDE DEF q, r
<1>4. q \in Request /\ q.pc = "restore" /\ q.source = source
  BY <1>1, <1>3 DEF Request
<1>5. r \in Request /\ r.pc = "regain" /\ r.source = source
  BY <1>2, <1>3 DEF Request
<1> QED BY <1>4, <1>5 DEF q, r

\* The binary is taken away, and it is known from where it is to come back.
LEMMA TakenAway ==
    ASSUME OneAtATime, UpdateInv, NEW a \in Updater, NEW what, Asks(a, what), writable,
           NEW step \in {"restore", "regain"}, NEW source \in 0..Torn,
           NEW q \in Request, q.pc = step, q.source = source, op' = [op EXCEPT ![a] = q],
           Puts("active", Missing), wanted' = Missing,
           UNCHANGED <<host, volume, writable, proc, due>>,
           archive' \in [Release -> 0..Newest],
           Complete(IF source = FromBak THEN file["bak"]
                    ELSE IF source = FromVolume THEN file["data"] ELSE archive'[source])
    PROVE  UpdateInv'
<1>1. /\ op' \in [Updater -> Request] /\ op'[a].pc = step /\ op'[a].source = source
      /\ \A steps : Nobody(steps)' <=> step \notin steps
  BY Replaced
<1>2. /\ due = "none" /\ proc.pc = "serving" /\ proc.release \in Release
      /\ file["bak"] # Torn
      /\ proc.exe = "data" => file["data"] # Torn
  BY AtRest
<1>3. /\ file' \in [Location -> 0..Torn]
      /\ file'["bak"] = file["bak"] /\ file'["data"] = file["data"]
  <2>1. Missing \in 0..Torn
    BY Releases
  <2> QED BY <2>1, OneFile, Places
<1>4. Ranges'
  <2>1. wanted' \in 0..Newest
    BY Releases
  <2> QED BY <1>1, <1>3, <2>1 DEF UpdateInv, Ranges
<1>5. Rested'
  <2>1. (proc.pc = "serving" /\ proc.release \in Release /\ due = "none" /\ file["bak"] # Torn
         /\ writable /\ (proc.exe = "data" => file["data"] # Torn))'
    BY <1>2, <1>3 DEF Torn, Release
  <2>2. ~Nobody(RestoreStep)'
    BY <1>1 DEF RestoreStep
  <2> QED BY <2>1, <2>2 DEF Rested
<1>6. Stayed'
  BY DEF Stayed, Missing
<1>7. Underway(a)'
  <2>1. step \notin InstallStep
    BY DEF InstallStep
  <2>2. Complete(Content(op[a].source))'
    <3>1. Content(op[a].source)' = (IF source = FromBak THEN file["bak"]
                    ELSE IF source = FromVolume THEN file["data"] ELSE archive'[source])
      BY <1>1, <1>3 DEF Content, FromBak, FromVolume, Missing, Torn
    <3> QED BY <3>1 DEF Complete, Release
  <2>3. step \notin {"verify", "backup", "saving", "swap"} /\ step \notin {"mirror", "mirroring", "installed"}
    OBVIOUS
  <2>4. wanted' = Missing' /\ writable'
    BY DEF Missing
  <2> QED BY <1>1, <2>1, <2>2, <2>3, <2>4 DEF Underway
<1> QED BY <1>4, <1>5, <1>6, <1>7, OneUnderway DEF UpdateInv

LEMMA Sources ==
    /\ FromBak \in 0..Torn /\ FromVolume \in 0..Torn /\ FromVolume # FromBak
    /\ \A v \in Release : v \in 0..Torn /\ v # FromBak /\ v # FromVolume
BY Releases DEF FromBak, FromVolume, Release

LEMMA RollbackKeeps ==
    ASSUME OneAtATime, UpdateInv, NEW a \in Updater, Rollback(a)
    PROVE  UpdateInv'
<1>1. /\ Asks(a, "rollback") /\ writable /\ Puts("active", Missing) /\ wanted' = Missing
      /\ UNCHANGED <<host, volume, writable, proc, due>>
  BY DEF Rollback
<1>2. /\ proc.release \in Release /\ file["bak"] # Torn /\ Complete(file["active"])
  BY <1>1, AtRest
<1>3. file["active"] \in 1..Newest /\ file["active"] # Missing /\ archive \in [Release -> 0..Newest]
      /\ file["bak"] \in 0..Torn
  BY <1>2, Releases, Places DEF UpdateInv, Ranges
<1>4. archive' = [archive EXCEPT ![proc.release] = file["active"]]
  BY <1>3 DEF Rollback
<1>5. archive' \in [Release -> 0..Newest] /\ archive'[proc.release] = file["active"]
      /\ \A v \in Release : v # proc.release => archive'[v] = archive[v]
  BY <1>2, <1>3, <1>4, Releases
<1>6. PICK source \in IF file["bak"] # Missing THEN {FromBak} ELSE Archived :
          op' = [op EXCEPT ![a] = [NoRequest EXCEPT !.pc = "restore", !.source = source]]
  BY DEF Rollback
<1>7. CASE file["bak"] # Missing
  <2>1. source = FromBak /\ Complete(file["bak"])
    BY <1>2, <1>3, <1>6, <1>7, Releases
  <2> DEFINE q == [NoRequest EXCEPT !.pc = "restore", !.source = source]
  <2>2. q \in Request /\ q.pc = "restore" /\ q.source = source /\ op' = [op EXCEPT ![a] = q]
    BY <1>6, <2>1, Sources, RequestTo
  <2> HIDE DEF q
  <2> QED BY <1>1, <1>5, <2>1, <2>2, Sources, TakenAway
<1>8. CASE file["bak"] = Missing
  <2>1. source \in Release /\ archive[source] # Missing
    BY <1>6, <1>8 DEF Archived
  <2>2. Complete(archive'[source])
    <3>1. archive[source] \in 1..Newest
      BY <1>3, <2>1, Releases
    <3> QED BY <1>3, <1>5, <2>1, <3>1, Releases
  <2> DEFINE q == [NoRequest EXCEPT !.pc = "restore", !.source = source]
  <2>3. q \in Request /\ q.pc = "restore" /\ q.source = source /\ op' = [op EXCEPT ![a] = q]
    BY <1>6, <2>1, Sources, RequestTo
  <2> HIDE DEF q
  <2> QED BY <1>1, <1>5, <2>1, <2>2, <2>3, Sources, TakenAway
<1> QED BY <1>7, <1>8

LEMMA RemoveKeeps ==
    ASSUME OneAtATime, UpdateInv, NEW a \in Updater, RemoveBinary(a)
    PROVE  UpdateInv'
<1>1. /\ Asks(a, "remove") /\ writable /\ Puts("active", Missing) /\ wanted' = Missing
      /\ UNCHANGED <<host, volume, writable, archive, proc, due>>
  BY DEF RemoveBinary
<1>2. file["bak"] # Torn
  BY <1>1, AtRest
<1>3. archive \in [Release -> 0..Newest] /\ file["bak"] \in 0..Torn
  BY Places DEF UpdateInv, Ranges
<1>4. PICK source \in IF Archived # {} THEN Archived ELSE {FromBak} :
          /\ Content(source) # Missing
          /\ op' = [op EXCEPT ![a] = [NoRequest EXCEPT !.pc = "regain", !.source = source]]
  BY DEF RemoveBinary
<1>5. CASE source \in Archived
  <2>1. source \in Release /\ archive[source] # Missing
    BY <1>5 DEF Archived
  <2>2. Complete(archive'[source])
    <3>1. archive[source] \in 1..Newest
      BY <1>3, <2>1, Releases
    <3> QED BY <1>1, <3>1, Releases
  <2> DEFINE q == [NoRequest EXCEPT !.pc = "regain", !.source = source]
  <2>3. q \in Request /\ q.pc = "regain" /\ q.source = source /\ op' = [op EXCEPT ![a] = q]
    BY <1>4, <2>1, Sources, RequestTo
  <2> HIDE DEF q
  <2> QED BY <1>1, <1>3, <2>1, <2>2, <2>3, Sources, TakenAway
<1>6. CASE source = FromBak
  <2>1. Complete(file["bak"])
    BY <1>2, <1>3, <1>4, <1>6, Releases DEF Content
  <2> DEFINE q == [NoRequest EXCEPT !.pc = "regain", !.source = source]
  <2>2. q \in Request /\ q.pc = "regain" /\ q.source = source /\ op' = [op EXCEPT ![a] = q]
    BY <1>4, <1>6, Sources, RequestTo
  <2> HIDE DEF q
  <2> QED BY <1>1, <1>3, <1>6, <2>1, <2>2, Sources, TakenAway
<1> QED BY <1>4, <1>5, <1>6

LEMMA RemoveLastKeeps ==
    ASSUME OneAtATime, UpdateInv, NEW a \in Updater, RemoveLast(a)
    PROVE  UpdateInv'
<1>1. /\ writable /\ Puts("active", Missing) /\ wanted' = Missing
      /\ UNCHANGED <<host, volume, writable, archive, proc, due>>
  BY DEF RemoveLast
<1>2. /\ Asks(a, "remove") /\ proc.exe = "data" /\ file["data"] # Missing
      /\ op' = [op EXCEPT ![a] = [NoRequest EXCEPT !.pc = "regain", !.source = FromVolume]]
  BY DEF RemoveLast, Asks, OneAtATime
<1>3. file["data"] # Torn
  BY <1>2, AtRest
<1>4. archive \in [Release -> 0..Newest] /\ file["data"] \in 0..Torn
  BY Places DEF UpdateInv, Ranges
<1>5. Complete(file["data"])
  BY <1>2, <1>3, <1>4, Releases
<1> DEFINE q == [NoRequest EXCEPT !.pc = "regain", !.source = FromVolume]
<1>6. q \in Request /\ q.pc = "regain" /\ q.source = FromVolume /\ op' = [op EXCEPT ![a] = q]
  BY <1>2, Sources, RequestTo
<1> HIDE DEF q
<1> QED BY <1>1, <1>2, <1>4, <1>5, <1>6, Sources, TakenAway

LEMMA RestoreKeeps ==
    ASSUME OneAtATime, UpdateInv, NEW a \in Updater, Restore(a)
    PROVE  UpdateInv'
<1> DEFINE t == IF op[a].pc = "restore" THEN "restoring" ELSE "regaining"
<1>1. /\ op[a].pc \in {"restore", "regain"} /\ proc.pc = "serving" /\ Puts("active", Torn)
      /\ op' = [op EXCEPT ![a] = [op[a] EXCEPT !.pc = t]]
      /\ UNCHANGED <<host, volume, writable, archive, proc, due, wanted>>
  BY DEF Restore, Goes
<1>2. op[a] \in Request
  BY TheOne
<1>3. t \in {"restoring", "regaining"}
  OBVIOUS
<1> HIDE DEF t
<1>4. /\ [op[a] EXCEPT !.pc = t] \in Request /\ [op[a] EXCEPT !.pc = t].pc = t
      /\ [op[a] EXCEPT !.pc = t].source = op[a].source
  BY <1>2, <1>3 DEF Request, RestoreStep
<1>5. /\ op' \in [Updater -> Request] /\ op'[a].pc = t /\ op'[a].source = op[a].source
      /\ \A steps : Nobody(steps)' <=> t \notin steps
  <2> DEFINE q == [op[a] EXCEPT !.pc = t]
  <2>1. q \in Request /\ q.pc = t /\ q.source = op[a].source /\ op' = [op EXCEPT ![a] = q]
    BY <1>1, <1>4
  <2> HIDE DEF q
  <2>2. /\ op' \in [Updater -> Request] /\ op'[a] = q
        /\ \A steps : Nobody(steps)' <=> q.pc \notin steps
    BY <2>1, Replaced
  <2> QED BY <2>1, <2>2
<1>6. /\ op[a].pc \in RestoreStep /\ \A steps : Nobody(steps) <=> op[a].pc \notin steps
  BY <1>1, TheOne DEF RestoreStep
<1>7. /\ due = "none" /\ proc.release \in Release /\ file["bak"] # Torn
      /\ proc.exe = "data" => file["data"] # Torn
  <2>1. op[a].pc # "saving" /\ op[a].pc # "mirroring"
    BY <1>1
  <2> QED BY <1>1, <1>6, <2>1 DEF UpdateInv, Rested
<1>8. writable /\ wanted = Missing /\ Complete(Content(op[a].source))
  BY <1>6 DEF UpdateInv, Underway
<1>9. /\ file' \in [Location -> 0..Torn]
      /\ file'["bak"] = file["bak"] /\ file'["data"] = file["data"]
  <2>1. Torn \in 0..Torn
    BY Releases
  <2> QED BY <1>1, <2>1, OneFile, Places
<1>10. Ranges'
  BY <1>1, <1>5, <1>9 DEF UpdateInv, Ranges
<1>11. Rested'
  <2>1. (proc.pc = "serving" /\ proc.release \in Release /\ due = "none" /\ file["bak"] # Torn
         /\ writable /\ (proc.exe = "data" => file["data"] # Torn))'
    BY <1>1, <1>7, <1>8, <1>9 DEF Torn, Release
  <2>2. ~Nobody(RestoreStep)'
    BY <1>3, <1>5 DEF RestoreStep
  <2> QED BY <2>1, <2>2 DEF Rested
<1>12. Stayed'
  BY <1>1, <1>8 DEF Stayed, Missing
<1>13. Underway(a)'
  <2>1. t \notin InstallStep
    BY <1>3 DEF InstallStep
  <2>2. Complete(Content(op[a].source))'
    <3>1. Content(op[a].source)' = Content(op[a].source)
      BY <1>1, <1>5, <1>9 DEF Content, FromBak, FromVolume, Missing, Torn
    <3> QED BY <1>8, <3>1 DEF Complete, Release
  <2>3. t \notin {"verify", "backup", "saving", "swap"} /\ t \notin {"mirror", "mirroring", "installed"}
    BY <1>3
  <2>4. wanted' = Missing' /\ writable'
    BY <1>1, <1>8 DEF Missing
  <2> QED BY <1>5, <2>1, <2>2, <2>3, <2>4 DEF Underway
<1> QED BY <1>10, <1>11, <1>12, <1>13, OneUnderway DEF UpdateInv

LEMMA RestoredKeeps ==
    ASSUME OneAtATime, UpdateInv, NEW a \in Updater, Restored(a)
    PROVE  UpdateInv'
<1> DEFINE c == Content(op[a].source)
           d == IF op[a].pc = "restoring" THEN Missing ELSE file["data"]
<1>1. /\ op[a].pc \in {"restoring", "regaining"} /\ proc.pc = "serving"
      /\ op' = [op EXCEPT ![a] = NoRequest] /\ due' = "active"
      /\ UNCHANGED <<host, volume, writable, archive, proc, wanted>>
  BY DEF Restored, Ends
<1>2. op' \in [Updater -> Request] /\ op'[a].pc = "idle"
  BY <1>1, EndedIs, Replaced
<1>3. (\A b \in Updater : Underway(b)') /\ (Nobody(InstallStep \cup RestoreStep))'
  BY <1>2, IdleAfter
<1>4. writable /\ wanted = Missing /\ Complete(c)
  BY <1>1 DEF UpdateInv, Underway, RestoreStep
<1>5. c \in 0..Torn
  BY <1>4, Releases
<1> HIDE DEF c
<1>6. /\ file' \in [Location -> 0..Torn] /\ file'["active"] = c /\ file'["bak"] = file["bak"]
      /\ file'["data"] = d
  <2>1. file' = [file EXCEPT !["active"] = c, !["data"] = d]
    BY DEF Restored, c
  <2>2. file \in [Location -> 0..Torn] /\ Missing \in 0..Torn /\ d \in 0..Torn
    BY Releases, Places DEF UpdateInv, Ranges
  <2> HIDE DEF d
  <2> QED BY <1>5, <2>1, <2>2, Places
<1>7. /\ proc.release \in Release /\ file["bak"] # Torn
      /\ proc.exe = "data" => file["data"] # Torn
  <2>1. \A steps : Nobody(steps) <=> op[a].pc \notin steps
    BY TheOne
  <2>2. op[a].pc # "saving" /\ op[a].pc # "mirroring"
    BY <1>1
  <2> QED BY <1>1, <2>1, <2>2 DEF UpdateInv, Rested
<1>8. Ranges'
  BY <1>1, <1>2, <1>6 DEF UpdateInv, Ranges
<1>9. Rested'
  <2>1. (proc.pc = "serving" /\ proc.release \in Release /\ due = "active" /\ file["bak"] # Torn
         /\ writable)'
    BY <1>1, <1>4, <1>6, <1>7 DEF Torn, Release
  <2>2. Complete(file["active"])'
    BY <1>4, <1>6 DEF Complete, Release
  <2>3. (proc.exe = "data" => file["data"] # Torn)'
    <3>1. Missing # Torn
      BY Releases
    <3> QED BY <1>1, <1>6, <1>7, <3>1 DEF Torn
  <2> QED BY <1>3, <2>1, <2>2, <2>3 DEF Rested
<1>10. Stayed'
  BY <1>1, <1>4 DEF Stayed, Missing
<1> QED BY <1>3, <1>8, <1>9, <1>10 DEF UpdateInv

\* Requests that leave the two binaries that run alone, and the volume's whole.
LEMMA TidyKeeps ==
    ASSUME OneAtATime, UpdateInv, NEW a \in Updater, NEW what, Asks(a, what),
           UNCHANGED <<host, volume, writable, proc, op, due>>,
           archive' \in [Release -> 0..Newest], file' \in [Location -> 0..Torn],
           file'["active"] = file["active"], file'["bak"] # Torn,
           \/ wanted' = wanted /\ file'["data"] = file["data"]
           \/ wanted' = Missing /\ file'["data"] = Missing
    PROVE  UpdateInv'
<1>1. /\ due = "none" /\ proc.pc = "serving" /\ proc.release \in Release
      /\ Complete(file["active"]) /\ op[a].pc = "idle"
      /\ proc.exe = "data" => file["data"] # Torn
  BY AtRest
<1>2. (\A b \in Updater : Underway(b)') /\ (Nobody(InstallStep \cup RestoreStep))'
  BY <1>1, IdleAfter
<1>3. Ranges'
  <2>1. wanted' \in 0..Newest
    BY Releases DEF UpdateInv, Ranges
  <2> QED BY <2>1 DEF UpdateInv, Ranges
<1>4. Rested'
  <2>1. (proc.pc = "serving" /\ proc.release \in Release /\ due = "none" /\ file["bak"] # Torn
         /\ Complete(file["active"]) /\ (~writable => file["active"] = Image))'
    BY <1>1 DEF Torn, Release, Complete, UpdateInv, Rested
  <2>2. (proc.exe = "data" => file["data"] # Torn)'
    <3>1. Missing # Torn
      BY Releases
    <3> QED BY <1>1, <3>1 DEF Torn
  <2> QED BY <2>1, <2>2 DEF Rested
<1>5. Stayed'
  BY <1>1 DEF UpdateInv, Stayed, Missing
<1> QED BY <1>2, <1>3, <1>4, <1>5 DEF UpdateInv

LEMMA DropKeeps ==
    ASSUME OneAtATime, UpdateInv, NEW a \in Updater, Drop(a)
    PROVE  UpdateInv'
<1>1. Asks(a, "drop") /\ UNCHANGED <<host, volume, writable, proc, op, due>>
  BY DEF Drop
<1>2. /\ archive \in [Release -> 0..Newest] /\ file \in [Location -> 0..Torn]
      /\ Missing \in 0..Torn /\ Missing \in 0..Newest /\ Missing # Torn
  BY Releases DEF UpdateInv, Ranges
<1>3. file["bak"] # Torn
  BY <1>1, AtRest
<1>4. ASSUME NEW p \in Location \ {"active"}, Puts(p, Missing),
             wanted' = (IF p = "data" THEN Missing ELSE wanted), archive' = archive
      PROVE  UpdateInv'
  <2>1. /\ file' \in [Location -> 0..Torn] /\ file'["active"] = file["active"]
        /\ file'["bak"] = file["bak"] \/ file'["bak"] = Missing
        /\ p = "data" => file'["data"] = Missing
        /\ p # "data" => file'["data"] = file["data"]
    BY <1>2, <1>4, OneFile, Places
  <2>2. file'["bak"] # Torn
    BY <1>2, <1>3, <2>1
  <2>3. archive' \in [Release -> 0..Newest]
    BY <1>2, <1>4
  <2>4. \/ wanted' = wanted /\ file'["data"] = file["data"]
        \/ wanted' = Missing /\ file'["data"] = Missing
    BY <1>4, <2>1
  <2> QED BY <1>1, <2>1, <2>2, <2>3, <2>4, TidyKeeps
<1>5. ASSUME NEW v \in Archived, archive' = [archive EXCEPT ![v] = Missing], UNCHANGED <<file, wanted>>
      PROVE  UpdateInv'
  <2>1. archive' \in [Release -> 0..Newest]
    BY <1>2, <1>5
  <2>2. file' \in [Location -> 0..Torn] /\ file'["active"] = file["active"] /\ file'["bak"] # Torn
        /\ wanted' = wanted /\ file'["data"] = file["data"]
    BY <1>2, <1>3, <1>5
  <2> QED BY <1>1, <2>1, <2>2, TidyKeeps
<1> QED BY <1>4, <1>5 DEF Drop

LEMMA PruneKeeps ==
    ASSUME OneAtATime, UpdateInv, NEW a \in Updater, PruneBinaries(a)
    PROVE  UpdateInv'
<1>1. Asks(a, "prune") /\ UNCHANGED <<host, volume, writable, proc, op, due, wanted>>
      /\ archive' = NoArchive /\ Puts("tmp", Missing)
  BY DEF PruneBinaries
<1>2. archive' \in [Release -> 0..Newest] /\ Missing \in 0..Torn
  BY <1>1, Releases DEF NoArchive
<1>3. /\ file' \in [Location -> 0..Torn] /\ file'["active"] = file["active"]
      /\ file'["bak"] = file["bak"] /\ file'["data"] = file["data"]
  BY <1>1, <1>2, OneFile, Places
<1>4. file["bak"] # Torn
  BY <1>1, AtRest
<1> QED BY <1>1, <1>2, <1>3, <1>4, TidyKeeps

LEMMA StepUpdateInv == OneAtATime /\ UpdateInv /\ [UpdateNext]_updateVars => UpdateInv'
<1> SUFFICES ASSUME OneAtATime, UpdateInv, [UpdateNext]_updateVars PROVE UpdateInv'
  OBVIOUS
<1>1. CASE UNCHANGED updateVars
  <2>1. UNCHANGED <<host, volume, writable, file, archive, proc, op, due, wanted>>
    BY <1>1 DEF updateVars
  <2>2. Ranges' /\ Stayed'
    BY <2>1 DEF UpdateInv, Ranges, Stayed, Missing
  <2>3. Rested'
    BY <2>1 DEF UpdateInv, Rested, Nobody, Complete, Release, Torn
  <2>4. ASSUME NEW a \in Updater PROVE Underway(a)'
    BY <2>1 DEF UpdateInv, Underway, Content, Complete, Release, Missing, FromBak, FromVolume, Torn
  <2> QED BY <2>2, <2>3, <2>4 DEF UpdateInv
<1>2. ASSUME NEW reset \in BOOLEAN, Bootload(reset) PROVE UpdateInv'
  BY <1>2, BootloadKeeps
<1>3. CASE Exit
  BY <1>3, ExitKeeps
<1>4. CASE Exec
  BY <1>4, ExecKeeps
<1>5. ASSUME NEW a \in Updater, NEW v \in Release, Install(a, v) PROVE UpdateInv'
  BY <1>5, InstallKeeps
<1>6. ASSUME NEW a \in Updater,
             Stage(a) \/ Staged(a) \/ Verify(a) \/ Backup(a) \/ Saved(a) \/ Swap(a)
      PROVE  UpdateInv'
  BY <1>6, StageKeeps, StagedKeeps, VerifyKeeps, BackupKeeps, SavedKeeps, SwapKeeps
<1>7. ASSUME NEW a \in Updater, Mirror(a) \/ Mirrored(a) \/ Installed(a) PROVE UpdateInv'
  BY <1>7, MirrorKeeps, MirroredKeeps, InstalledKeeps
<1>8. ASSUME NEW a \in Updater,
             \/ Rollback(a) \/ RemoveBinary(a) \/ RemoveLast(a) \/ Restore(a) \/ Restored(a)
             \/ Drop(a) \/ PruneBinaries(a)
      PROVE  UpdateInv'
  BY <1>8, RollbackKeeps, RemoveKeeps, RemoveLastKeeps, RestoreKeeps, RestoredKeeps, DropKeeps, PruneKeeps
<1> QED BY <1>1, <1>2, <1>3, <1>4, <1>5, <1>6, <1>7, <1>8 DEF UpdateNext

\* Whatever one administrator installs, rolls back, removes and tidies up, and wherever a
\* crash falls but into the few steps that OneAtATime names: the next start finds a
\* whole binary, and what was installed last is what runs.
THEOREM UpdatesStaySafe == OneAtATime => (UpdateSpec => []UpdatesSafe)
<1>1. UpdateInv => UpdatesSafe
  <2> SUFFICES ASSUME UpdateInv PROVE UpdatesSafe
    OBVIOUS
  <2>1. proc.pc = "down" \/ due # "none" => Nobody(RestoreStep)
    BY DEF UpdateInv, Rested, Nobody
  <2>2. BaseRuns
    BY <2>1 DEF BaseRuns, UpdateInv, Rested
  <2>3. UpdateStays
    BY DEF UpdateStays, UpdateInv, Stayed
  <2> QED BY <2>2, <2>3 DEF UpdatesSafe
<1>2. SUFFICES ASSUME OneAtATime PROVE UpdateSpec => []UpdatesSafe
  OBVIOUS
<1>3. UpdateInv /\ [UpdateNext]_updateVars => UpdateInv'
  BY <1>2, StepUpdateInv
<1> QED BY <1>1, <1>3, InitUpdateInv, PTL DEF UpdateSpec

\* What the update's variables hold at any host, whoever asks for what, and wherever a
\* crash falls.
UpdateTyped ==
    /\ file \in [Location -> 0..Torn] /\ archive \in [Release -> 0..Torn]
    /\ op \in [Updater -> Request]
    /\ proc \in [pc : {"down", "serving"}, release : 0..Newest, exe : {"active", "data"}]
    /\ due \in {"none", "active", "data"} /\ wanted \in 0..Newest

LEMMA OpTyped ==
    ASSUME UpdateTyped, NEW a \in Updater,
           \/ Ends(a)
           \/ \E step \in InstallStep \cup RestoreStep : Goes(a, step)
           \/ \E r \in Request : op' = [op EXCEPT ![a] = r]
           \/ op' = [b \in Updater |-> NoRequest]
           \/ UNCHANGED op
    PROVE  op' \in [Updater -> Request]
<1>1. op \in [Updater -> Request] /\ op[a] \in Request
  BY DEF UpdateTyped
<1>2. ASSUME NEW r \in Request, op' = [op EXCEPT ![a] = r] PROVE op' \in [Updater -> Request]
  BY <1>1, <1>2
<1>3. CASE Ends(a)
  BY <1>2, <1>3, EndedIs DEF Ends
<1>4. ASSUME NEW step \in InstallStep \cup RestoreStep, Goes(a, step)
      PROVE  op' \in [Updater -> Request]
  <2> DEFINE r == [op[a] EXCEPT !.pc = step]
  <2>1. r \in Request
    BY <1>1 DEF Request
  <2>2. op' = [op EXCEPT ![a] = r]
    BY <1>4 DEF Goes
  <2> HIDE DEF r
  <2> QED BY <1>2, <2>1, <2>2
<1>5. CASE op' = [b \in Updater |-> NoRequest]
  BY <1>5, EndedIs
<1> QED BY <1>1, <1>2, <1>3, <1>4, <1>5

LEMMA PutTyped ==
    ASSUME UpdateTyped, NEW p \in Location, NEW b \in 0..Torn, Puts(p, b)
    PROVE  file' \in [Location -> 0..Torn]
BY DEF UpdateTyped, Puts

\* What the files of a request are, and what a restoration reads.
LEMMA HeldTyped ==
    ASSUME UpdateTyped, NEW a \in Updater
    PROVE  /\ op[a].target \in Location /\ op[a].tmp \in Location /\ op[a].bak \in Location
           /\ op[a].target \in {"active", "data"}
           /\ op[a].release \in 0..Newest /\ op[a].release \in 0..Torn
           /\ Content(op[a].source) \in 0..Torn
           /\ \A p \in Location : file[p] \in 0..Torn
           /\ Missing \in 0..Torn /\ Torn \in 0..Torn /\ Missing \in 0..Newest
<1>1. /\ op[a].target \in {"active", "data"} /\ op[a].tmp \in {"tmp", "dtmp"}
      /\ op[a].bak \in {"bak", "dbak"} /\ op[a].release \in 0..Newest /\ op[a].source \in 0..Torn
  BY DEF UpdateTyped, Request
<1>2. \A p \in Location : file[p] \in 0..Torn
  BY DEF UpdateTyped
<1>3. Missing \in 0..Torn /\ Torn \in 0..Torn /\ Missing \in 0..Newest
  BY Releases
<1>4. Content(op[a].source) \in 0..Torn
  <2>1. file["bak"] \in 0..Torn /\ file["data"] \in 0..Torn
    BY <1>2, Places
  <2>2. op[a].source \notin {FromBak, FromVolume} => op[a].source \in Release
    BY <1>1, Releases DEF FromBak, FromVolume, Release
  <2>3. \A v \in Release : archive[v] \in 0..Torn
    BY DEF UpdateTyped
  <2> QED BY <2>1, <2>2, <2>3 DEF Content
<1>5. op[a].release \in 0..Torn
  BY <1>1, Releases
<1> QED BY <1>1, <1>2, <1>3, <1>4, <1>5, Places

LEMMA InstallsTyped ==
    ASSUME UpdateTyped, NEW a \in Updater,
           \/ \E v \in Release : Install(a, v)
           \/ Stage(a) \/ Staged(a) \/ Verify(a) \/ Backup(a) \/ Saved(a) \/ Swap(a)
           \/ Mirror(a) \/ Mirrored(a) \/ Installed(a)
    PROVE  UpdateTyped'
<1>h. /\ op[a].target \in Location /\ op[a].tmp \in Location /\ op[a].bak \in Location
      /\ op[a].target \in {"active", "data"}
      /\ op[a].release \in 0..Newest /\ op[a].release \in 0..Torn
      /\ \A p \in Location : file[p] \in 0..Torn
      /\ Missing \in 0..Torn /\ Torn \in 0..Torn /\ Missing \in 0..Newest
  BY HeldTyped
<1>s. /\ {"stage", "staging", "verify", "backup", "saving", "swap", "mirror", "mirroring",
          "installed"} \subseteq InstallStep \cup RestoreStep
      /\ file["active"] \in 0..Torn
  BY <1>h, Places DEF InstallStep
<1>1. ASSUME NEW v \in Release, Install(a, v) PROVE UpdateTyped'
  <2>1. PICK r \in Request : op' = [op EXCEPT ![a] = r]
    <3>1. FromBak \in 0..Torn /\ v \in 0..Newest
      BY Releases DEF FromBak, Release
    <3>2. [pc |-> "stage", release |-> v, target |-> "data", tmp |-> "dtmp", bak |-> "dbak",
           source |-> FromBak] \in Request
      BY <3>1 DEF Request, InstallStep
    <3>3. [NoRequest EXCEPT !.pc = "stage", !.release = v] \in Request
      BY <3>1, EndedIs DEF Request, InstallStep
    <3> QED BY <1>1, <3>2, <3>3 DEF Install
  <2>2. op' \in [Updater -> Request]
    BY <2>1, OpTyped
  <2> QED BY <1>1, <2>2 DEF Install, UpdateTyped
<1>2. CASE Stage(a)
  <2>1. op' \in [Updater -> Request] /\ file' \in [Location -> 0..Torn]
    BY <1>2, <1>h, <1>s, OpTyped, PutTyped DEF Stage
  <2> QED BY <1>2, <2>1 DEF Stage, UpdateTyped
<1>3. CASE Staged(a)
  <2>1. op' \in [Updater -> Request] /\ file' \in [Location -> 0..Torn]
    BY <1>3, <1>h, <1>s, OpTyped, PutTyped DEF Staged
  <2> QED BY <1>3, <2>1 DEF Staged, UpdateTyped
<1>4. CASE Verify(a)
  <2>1. op' \in [Updater -> Request]
    BY <1>4, <1>s, OpTyped DEF Verify
  <2>2. file' \in [Location -> 0..Torn]
    BY <1>4, <1>h, PutTyped DEF Verify, UpdateTyped
  <2> QED BY <1>4, <2>1, <2>2 DEF Verify, UpdateTyped
<1>5. CASE Backup(a)
  <2>1. op' \in [Updater -> Request]
    BY <1>5, <1>s, OpTyped DEF Backup
  <2>2. file' \in [Location -> 0..Torn]
    BY <1>5, <1>h, PutTyped DEF Backup, UpdateTyped
  <2> QED BY <1>5, <2>1, <2>2 DEF Backup, UpdateTyped
<1>6. CASE Saved(a)
  <2>1. op' \in [Updater -> Request] /\ file' \in [Location -> 0..Torn]
    BY <1>6, <1>h, <1>s, OpTyped, PutTyped DEF Saved
  <2> QED BY <1>6, <2>1 DEF Saved, UpdateTyped
<1>7. CASE Swap(a)
  <2>1. op' \in [Updater -> Request]
    BY <1>7, <1>s, OpTyped DEF Swap
  <2>2. Swapped(a) \in [Location -> 0..Torn]
    BY <1>h DEF Swapped, UpdateTyped
  <2> QED BY <1>7, <1>h, <2>1, <2>2 DEF Swap, UpdateTyped
<1>8. CASE Mirror(a)
  <2>1. op' \in [Updater -> Request] /\ file' \in [Location -> 0..Torn]
    BY <1>8, <1>h, <1>s, OpTyped, PutTyped, Places DEF Mirror
  <2> QED BY <1>8, <2>1 DEF Mirror, UpdateTyped
<1>9. CASE Mirrored(a)
  <2>1. op' \in [Updater -> Request] /\ file' \in [Location -> 0..Torn]
    BY <1>9, <1>h, <1>s, OpTyped, PutTyped, Places DEF Mirrored
  <2> QED BY <1>9, <2>1 DEF Mirrored, UpdateTyped
<1>10. CASE Installed(a)
  <2>1. op' \in [Updater -> Request]
    BY <1>10, OpTyped DEF Installed
  <2> QED BY <1>10, <1>h, <2>1 DEF Installed, UpdateTyped
<1> QED BY <1>1, <1>2, <1>3, <1>4, <1>5, <1>6, <1>7, <1>8, <1>9, <1>10

LEMMA RestoresTyped ==
    ASSUME UpdateTyped, NEW a \in Updater,
           \/ Rollback(a) \/ RemoveBinary(a) \/ RemoveLast(a) \/ Restore(a) \/ Restored(a)
           \/ Drop(a) \/ PruneBinaries(a)
    PROVE  UpdateTyped'
<1>h. /\ \A p \in Location : file[p] \in 0..Torn
      /\ Missing \in 0..Torn /\ Torn \in 0..Torn /\ Missing \in 0..Newest
      /\ file["active"] \in 0..Torn /\ Content(op[a].source) \in 0..Torn
  BY HeldTyped, Places
<1>s. \A v \in Archived : v \in 0..Torn
  BY Sources DEF Archived
<1>1. CASE Rollback(a)
  <2>1. PICK source \in 0..Torn :
           op' = [op EXCEPT ![a] = [NoRequest EXCEPT !.pc = "restore", !.source = source]]
    BY <1>1, <1>s, Sources DEF Rollback
  <2>2. op' \in [Updater -> Request]
    BY <2>1, OpTyped, RequestTo
  <2>3. file' \in [Location -> 0..Torn]
    BY <1>1, <1>h, PutTyped, Places DEF Rollback
  <2>4. archive' \in [Release -> 0..Torn]
    BY <1>1, <1>h DEF Rollback, UpdateTyped
  <2> QED BY <1>1, <1>h, <2>2, <2>3, <2>4 DEF Rollback, UpdateTyped
<1>2. CASE RemoveBinary(a)
  <2>1. PICK source \in 0..Torn :
           op' = [op EXCEPT ![a] = [NoRequest EXCEPT !.pc = "regain", !.source = source]]
    BY <1>2, <1>s, Sources DEF RemoveBinary
  <2>2. op' \in [Updater -> Request]
    BY <2>1, OpTyped, RequestTo
  <2>3. file' \in [Location -> 0..Torn]
    BY <1>2, <1>h, PutTyped, Places DEF RemoveBinary
  <2> QED BY <1>2, <1>h, <2>2, <2>3 DEF RemoveBinary, UpdateTyped
<1>3. CASE RemoveLast(a)
  <2>1. \/ op' = [op EXCEPT ![a] = [NoRequest EXCEPT !.pc = "regain", !.source = FromVolume]]
        \/ UNCHANGED op
    BY <1>3 DEF RemoveLast
  <2> DEFINE q == [NoRequest EXCEPT !.pc = "regain", !.source = FromVolume]
  <2>a. q \in Request
    BY RequestTo, Sources
  <2> HIDE DEF q
  <2>b. op' = [op EXCEPT ![a] = q] \/ UNCHANGED op
    BY <2>1 DEF q
  <2>2. op' \in [Updater -> Request]
    BY <2>a, <2>b, OpTyped
  <2>3. file' \in [Location -> 0..Torn]
    BY <1>3, <1>h, PutTyped, Places DEF RemoveLast
  <2> QED BY <1>3, <1>h, <2>2, <2>3 DEF RemoveLast, UpdateTyped
<1>4. CASE Restore(a)
  <2>1. PICK step \in {"restoring", "regaining"} : Goes(a, step)
    BY <1>4 DEF Restore
  <2>2. op' \in [Updater -> Request]
    BY <2>1, OpTyped DEF RestoreStep
  <2>3. file' \in [Location -> 0..Torn]
    BY <1>4, <1>h, PutTyped, Places DEF Restore
  <2> QED BY <1>4, <2>2, <2>3 DEF Restore, UpdateTyped
<1>5. CASE Restored(a)
  <2>1. op' \in [Updater -> Request]
    BY <1>5, OpTyped DEF Restored
  <2>2. PICK b \in 0..Torn, d \in 0..Torn : file' = [file EXCEPT !["active"] = b, !["data"] = d]
    BY <1>5, <1>h, Places DEF Restored
  <2>3. file' \in [Location -> 0..Torn]
    BY <2>2 DEF UpdateTyped
  <2> QED BY <1>5, <2>1, <2>3 DEF Restored, UpdateTyped
<1>6. CASE Drop(a)
  <2>1. file' \in [Location -> 0..Torn] /\ wanted' \in 0..Newest
    BY <1>6, <1>h, PutTyped DEF Drop, UpdateTyped
  <2>2. archive' \in [Release -> 0..Torn]
    BY <1>6, <1>h DEF Drop, UpdateTyped
  <2> QED BY <1>6, <2>1, <2>2 DEF Drop, UpdateTyped
<1>7. CASE PruneBinaries(a)
  <2>1. file' \in [Location -> 0..Torn]
    BY <1>7, <1>h, PutTyped, Places DEF PruneBinaries
  <2>2. archive' \in [Release -> 0..Torn]
    BY <1>7, <1>h DEF PruneBinaries, NoArchive
  <2> QED BY <1>7, <2>1, <2>2 DEF PruneBinaries, UpdateTyped
<1> QED BY <1>1, <1>2, <1>3, <1>4, <1>5, <1>6, <1>7

\* The process starts, ends, or becomes another.
LEMMA ProcessTyped ==
    ASSUME UpdateTyped, (\E reset \in BOOLEAN : Bootload(reset)) \/ Exit \/ Exec
    PROVE  UpdateTyped'
<1>1. Missing \in 0..Torn /\ Missing \in 0..Newest /\ Image \in 0..Newest /\ Image \in 0..Torn
  BY Releases
<1>2. \A b : Complete(b) => b \in 0..Newest
  BY Releases
<1>3. Down \in [pc : {"down", "serving"}, release : 0..Newest, exe : {"active", "data"}]
  BY <1>1 DEF Down
<1>4. [b \in Updater |-> NoRequest] \in [Updater -> Request]
  BY EndedIs
<1>5. ASSUME NEW reset \in BOOLEAN, Bootload(reset) PROVE UpdateTyped'
  <2> DEFINE base == IF reset THEN Image ELSE file["active"]
             d == file["data"]
             given == [p \in Location |->
               IF p = "data" THEN (IF Complete(d) /\ ~HandsOver(d, base) THEN Missing ELSE d)
               ELSE IF reset /\ p \in {"active", "bak", "tmp"} THEN Shipped[p] ELSE file[p]]
  <2>1. base \in 0..Newest
    BY <1>1, <1>2, <1>5 DEF Bootload
  <2>2. proc' = IF HandsOver(d, base) THEN [pc |-> "serving", release |-> d, exe |-> "data"]
                ELSE [pc |-> "serving", release |-> base, exe |-> "active"]
    BY <1>5 DEF Bootload
  <2>3. HandsOver(d, base) => d \in 0..Newest
    BY <1>2 DEF HandsOver
  <2>4. file' = given
    BY <1>5 DEF Bootload
  <2>5. \A p \in Location : file[p] \in 0..Torn /\ Shipped[p] \in 0..Torn
    BY <1>1 DEF UpdateTyped, Shipped
  <2> HIDE DEF base
  <2>6. proc' \in [pc : {"down", "serving"}, release : 0..Newest, exe : {"active", "data"}]
    BY <2>1, <2>2, <2>3
  <2>7. file' \in [Location -> 0..Torn]
    BY <1>1, <2>4, <2>5, Places
  <2>8. archive' \in [Release -> 0..Torn]
    BY <1>1, <1>5 DEF Bootload, NoArchive, UpdateTyped
  <2> QED BY <1>5, <2>6, <2>7, <2>8 DEF Bootload, UpdateTyped
<1>6. CASE Exit
  BY <1>3, <1>4, <1>6 DEF Exit, UpdateTyped
<1>7. CASE Exec
  <2>1. due \in {"active", "data"}
    BY <1>7 DEF Exec, UpdateTyped
  <2>2. proc' \in [pc : {"down", "serving"}, release : 0..Newest, exe : {"active", "data"}]
    BY <1>2, <1>3, <1>7, <2>1 DEF Exec
  <2> QED BY <1>4, <1>7, <2>2 DEF Exec, UpdateTyped
<1> QED BY <1>5, <1>6, <1>7

LEMMA InitUpdateTyped == UpdateInit => UpdateTyped
<1> SUFFICES ASSUME UpdateInit PROVE UpdateTyped
  OBVIOUS
<1>1. Ranges
  BY InitUpdateInv DEF UpdateInv
<1>2. archive \in [Release -> 0..Torn]
  BY Releases DEF UpdateInit, NoArchive
<1> QED BY <1>1, <1>2 DEF Ranges, UpdateTyped

LEMMA StepUpdateTyped == UpdateTyped /\ [UpdateNext]_updateVars => UpdateTyped'
<1> SUFFICES ASSUME UpdateTyped, [UpdateNext]_updateVars PROVE UpdateTyped'
  OBVIOUS
<1>1. CASE UNCHANGED updateVars
  BY <1>1 DEF updateVars, UpdateTyped
<1>2. CASE UpdateNext
  BY <1>2, ProcessTyped, InstallsTyped, RestoresTyped DEF UpdateNext
<1> QED BY <1>1, <1>2

LEMMA TypedUpdate == UpdateTyped => UpdateTypeOK
BY DEF UpdateTyped, UpdateTypeOK, Location

\* On any host, with any requests in hand and after any crash: a file is missing, torn or a
\* release, and only a release that exists is run, restored or expected to stay.
THEOREM UpdateTypeCorrect == UpdateSpec => []UpdateTypeOK
<1> QED BY InitUpdateTyped, StepUpdateTyped, TypedUpdate, PTL DEF UpdateSpec

-----------------------------------------------------------------------------
(* The daily work: once a day, and every day the process is there for it.  *)

\* The zone keeps its offset.
Steady == \A a, b \in Shift : a = b

InMinute(t) == TimeOfDay(t, offset) \in Target..(Target + Minute - 1)

Clocks ==
    /\ now \in Nat /\ offset \in Int /\ offset \in Shift /\ current \in Shift
    /\ since \in Nat /\ since <= now /\ wake \in Int /\ stamp \in Int
    /\ at \in {"ask", "due", "working", "guard"} /\ runs \subseteq 0..now

\* The stamp is the last run's.
Stamped ==
    /\ stamp <= now /\ \A s \in runs : s <= stamp
    /\ stamp \in runs \/ stamp = Never

\* What the task sleeps for: the next day's minute, or for as long as this one's lasts.
Sleeping ==
    /\ at = "due" =>
          /\ now <= wake /\ \A s \in runs : wake - s >= Day - Minute - Late
          /\ \E w \in (wake - Late)..wake : TimeOfDay(w, offset) = Target /\ w - now < Day
    /\ at = "working" => wake \in runs /\ now <= wake + Busy
    /\ at = "guard" =>
          now <= wake /\ \E b \in (wake - Busy - Guard)..now : InMinute(b)

Served(t) == \E s \in runs : s \in (t - Window)..(t + Late + Minute)

\* A time of the process's life has been served, or the sleep that ends for it has not ended.
Met ==
    \A t \in (since + 1)..now :
       TimeOfDay(t, offset) = Target =>
          Served(t) \/ (at = "due" /\ wake \in t..(t + Late))

CronInv ==
    parses =>
       /\ Clocks /\ Stamped /\ Sleeping /\ Met
       /\ \A s \in runs : InMinute(s)
       /\ \A s, t \in runs : ~Together(s, t)

\* The time of the day d ticks later: the same day's, or the next one's.
LEMMA DayTurns ==
    ASSUME NEW z \in Int, NEW t \in Int, NEW d \in 0..(Day - 1)
    PROVE  /\ TimeOfDay(t, z) \in 0..(Day - 1)
           /\ \/ TimeOfDay(t + d, z) = TimeOfDay(t, z) + d
              \/ TimeOfDay(t + d, z) = TimeOfDay(t, z) + d - Day
<1> DEFINE x == t + z
           a == x % Day
           y == x + d
           b == y % Day
<1>1. Day \in Nat \ {0} /\ x \in Int /\ y \in Int /\ d \in Int
  BY CronAssumption
<1> HIDE DEF x, y
<1>2. a \in 0..(Day - 1) /\ b \in 0..(Day - 1)
  BY <1>1
<1>3. PICK k \in Int : x = Day * k + a
  <2>1. x \div Day \in Int /\ x = Day * (x \div Day) + (x % Day)
    BY <1>1
  <2> QED BY <2>1
<1>4. PICK l \in Int : y = Day * l + b
  <2>1. y \div Day \in Int /\ y = Day * (y \div Day) + (y % Day)
    BY <1>1
  <2> QED BY <2>1
<1> HIDE DEF a, b
<1>5. d = Day * (l - k) + (b - a)
  <2>1. Day * l - Day * k = Day * (l - k)
    BY <1>1
  <2>2. Day * l \in Int /\ Day * k \in Int
    BY <1>1
  <2>3. y - x = d
    BY <1>1 DEF y
  <2> QED BY <1>1, <1>2, <1>3, <1>4, <2>1, <2>2, <2>3
<1>6. l - k = 0 \/ l - k = 1
  <2>1. ASSUME l - k >= 2 PROVE FALSE
    <3>1. Day * (l - k) >= Day + Day
      BY <1>1, <2>1
    <3> QED BY <1>1, <1>2, <1>5, <3>1
  <2>2. ASSUME l - k <= -1 PROVE FALSE
    <3>1. Day * (l - k) <= -Day
      BY <1>1, <2>2
    <3> QED BY <1>1, <1>2, <1>5, <3>1
  <2> QED BY <2>1, <2>2
<1>7. b = a + d \/ b = a + d - Day
  <2>1. CASE l - k = 0
    <3>1. Day * (l - k) = 0
      BY <1>1, <2>1
    <3> QED BY <1>1, <1>2, <1>5, <3>1
  <2>2. CASE l - k = 1
    <3>1. Day * (l - k) = Day
      BY <1>1, <2>2
    <3> QED BY <1>1, <1>2, <1>5, <3>1
  <2> QED BY <1>6, <2>1, <2>2
<1>8. TimeOfDay(t, z) = a /\ TimeOfDay(t + d, z) = b
  <2>1. (t + d) + z = (t + z) + d
    BY <1>1
  <2> QED BY <2>1 DEF TimeOfDay, a, b, x, y
<1> QED BY <1>2, <1>7, <1>8

\* Two minutes of the day that are less than a day apart, less the minute, are one.
LEMMA SameMinute ==
    ASSUME offset \in Int, NEW s \in Int, NEW t \in Int, InMinute(s), InMinute(t),
           s < t, t - s < Day - Minute - Late
    PROVE  t - s < Minute
<1>1. t - s \in 0..(Day - 1) /\ s + (t - s) = t
  BY CronAssumption
<1>2. \/ TimeOfDay(t, offset) = TimeOfDay(s, offset) + (t - s)
      \/ TimeOfDay(t, offset) = TimeOfDay(s, offset) + (t - s) - Day
  BY <1>1, DayTurns
<1>3. TimeOfDay(s, offset) \in 0..(Day - 1)
  BY <1>1, DayTurns
<1> QED BY <1>2, <1>3, CronAssumption DEF InMinute

LEMMA UntilNextIs ==
    ASSUME now \in Int, offset \in Int
    PROVE  /\ InMinute(now) => UntilNext = 0
           /\ ~InMinute(now) => /\ UntilNext \in 1..(Day - 1)
                                /\ TimeOfDay(now + UntilNext, offset) = Target
<1> DEFINE local == TimeOfDay(now, offset)
           x == Target - local
           r == x % Day
<1>1. Day \in Nat \ {0} /\ Target \in 0..(Day - 1) /\ Minute \in Nat \ {0}
  BY CronAssumption
<1>2. local \in 0..(Day - 1)
  <2>1. 0 \in 0..(Day - 1)
    BY <1>1
  <2> QED BY <2>1, DayTurns
<1> HIDE DEF local
<1>3. x \in Int
  BY <1>1, <1>2
<1> HIDE DEF x
<1>4. r \in 0..(Day - 1)
  BY <1>1, <1>3
<1>5. PICK k \in Int : x = Day * k + r
  <2>1. x \div Day \in Int /\ x = Day * (x \div Day) + (x % Day)
    BY <1>1, <1>3
  <2> QED BY <2>1
<1> HIDE DEF r
<1>6. k = 0 \/ k = -1
  <2>1. ASSUME k >= 1 PROVE FALSE
    <3>1. Day * k >= Day
      BY <1>1, <2>1
    <3> QED BY <1>1, <1>2, <1>4, <1>5, <3>1 DEF x
  <2>2. ASSUME k <= -2 PROVE FALSE
    <3>1. Day * k <= -Day - Day
      BY <1>1, <2>2
    <3> QED BY <1>1, <1>2, <1>4, <1>5, <3>1 DEF x
  <2> QED BY <2>1, <2>2
<1>7. r = Target - local \/ r = Target - local + Day
  <2>1. CASE k = 0
    <3>1. Day * k = 0
      BY <1>1, <2>1
    <3> QED BY <1>1, <1>2, <1>4, <1>5, <3>1 DEF x
  <2>2. CASE k = -1
    <3>1. Day * k = -Day
      BY <1>1, <2>2
    <3> QED BY <1>1, <1>2, <1>4, <1>5, <3>1 DEF x
  <2> QED BY <1>6, <2>1, <2>2
<1>8. TimeOfDay(now + r, offset) = Target
  <2>1. TimeOfDay(now + r, offset) = local + r \/ TimeOfDay(now + r, offset) = local + r - Day
    BY <1>4, DayTurns DEF local
  <2>2. TimeOfDay(now + r, offset) \in 0..(Day - 1)
    <3>1. 0 \in 0..(Day - 1) /\ now + r \in Int
      BY <1>1, <1>4
    <3> QED BY <3>1, DayTurns
  <2> QED BY <1>1, <1>2, <1>4, <1>7, <2>1, <2>2
<1>9. InMinute(now) <=> local \in Target..(Target + Minute - 1)
  BY DEF InMinute, local
<1>10. UntilNext = IF local \in Target..(Target + Minute - 1) THEN 0 ELSE r
  BY DEF UntilNext, local, r, x
<1>11. ASSUME ~InMinute(now) PROVE r # 0
  BY <1>1, <1>2, <1>7, <1>9, <1>11
<1> QED BY <1>4, <1>8, <1>9, <1>10, <1>11

LEMMA InitCronInv == CronInit => CronInv
<1> SUFFICES ASSUME CronInit, parses PROVE CronInv
  BY DEF CronInv
<1>1. now \in Nat /\ current \in Shift /\ offset = current /\ at = "ask" /\ wake = now /\ since = now
      /\ stamp = Never /\ runs = {}
  BY CronAssumption DEF CronInit
<1>2. Never \in Int /\ Never <= now
  BY <1>1, CronAssumption DEF Never
<1>3. Clocks
  <2>1. offset \in Int
    BY <1>1, CronAssumption
  <2> QED BY <1>1, <1>2, <2>1 DEF Clocks
<1>4. Stamped /\ Sleeping
  BY <1>1, <1>2 DEF Stamped, Sleeping
<1>5. Met
  <2>1. (since + 1)..now = {}
    BY <1>1
  <2> QED BY <2>1 DEF Met
<1> QED BY <1>1, <1>3, <1>4, <1>5 DEF CronInv

\* A run joins the others when its minute has come and no run of that minute is younger
\* than the stamp allows, or the last one is long past.
LEMMA RunAdded ==
    ASSUME Clocks, Stamped, \A s \in runs : InMinute(s), \A s, t \in runs : ~Together(s, t),
           InMinute(now),
           (\A s \in runs : now - s >= Window) \/ (\A s \in runs : now - s >= Day - Minute - Late)
    PROVE  \A s, t \in runs \cup {now} : ~Together(s, t)
<1>1. ASSUME NEW s \in runs PROVE ~Together(s, now)
  <2>1. s \in Int /\ now \in Int /\ offset \in Int /\ InMinute(s)
    BY DEF Clocks
  <2>2. CASE now - s >= Window
    <3> SUFFICES ASSUME Together(s, now) PROVE FALSE
      OBVIOUS
    <3>1. now - s < Minute
      BY <2>1, SameMinute DEF Together
    <3> QED BY <2>1, <2>2, <3>1, CronAssumption
  <2>3. CASE now - s >= Day - Minute - Late
    BY <2>1, <2>3, CronAssumption DEF Together
  <2> QED BY <2>2, <2>3
<1>2. ASSUME NEW t \in runs \cup {now} PROVE ~Together(now, t)
  BY DEF Together, Clocks
<1> QED BY <1>1, <1>2

\* What stays as it is when the clock and the runs do.
LEMMA Unmoved ==
    ASSUME UNCHANGED <<now, offset, since, runs>>
    PROVE  /\ \A t : InMinute(t)' <=> InMinute(t)
           /\ \A t : Served(t)' <=> Served(t)
           /\ \A t : TimeOfDay(t, offset)' = TimeOfDay(t, offset)
           /\ (\A s, t \in runs : ~Together(s, t))' <=> (\A s, t \in runs : ~Together(s, t))
           /\ (\A s \in runs : InMinute(s))' <=> (\A s \in runs : InMinute(s))
<1>1. \A t : TimeOfDay(t, offset)' = TimeOfDay(t, offset)
  BY DEF TimeOfDay
<1>2. \A t : InMinute(t)' <=> InMinute(t)
  BY DEF InMinute, TimeOfDay
<1>3. \A t : Served(t)' <=> Served(t)
  BY DEF Served
<1> QED BY <1>1, <1>2, <1>3 DEF Together

\* The work begins.
LEMMA WorkKeeps ==
    ASSUME CronInv, parses, Work, UNCHANGED <<now, current, offset, parses, since, reboots>>,
           InMinute(now),
           (\A s \in runs : now - s >= Window) \/ (\A s \in runs : now - s >= Day - Minute - Late),
           \A t \in (since + 1)..now : TimeOfDay(t, offset) = Target =>
              Served(t) \/ now \in t..(t + Late)
    PROVE  CronInv'
<1>1. Clocks /\ Stamped /\ (\A s \in runs : InMinute(s)) /\ \A s, t \in runs : ~Together(s, t)
  BY DEF CronInv
<1>2. stamp' = now /\ runs' = runs \cup {now} /\ wake' = now /\ at' = "working"
  BY DEF Work, Sleep
<1>3. Clocks'
  BY <1>1, <1>2 DEF Clocks
<1>4. Stamped'
  BY <1>1, <1>2 DEF Stamped, Clocks
<1>5. Sleeping'
  <2>1. now <= now + Busy
    BY <1>1, CronAssumption DEF Clocks
  <2> QED BY <1>2, <2>1 DEF Sleeping
<1>6. Met'
  <2> SUFFICES ASSUME NEW t \in (since + 1)..now, TimeOfDay(t, offset) = Target
               PROVE  Served(t)'
    BY DEF Met, TimeOfDay
  <2>1. t \in Int /\ now \in Int
    BY <1>1 DEF Clocks
  <2>2. CASE Served(t)
    BY <1>2, <2>2 DEF Served
  <2>3. CASE now \in t..(t + Late)
    <3>1. now \in (t - Window)..(t + Late + Minute)
      BY <2>1, <2>3, CronAssumption
    <3> QED BY <1>2, <3>1 DEF Served
  <2> QED BY <2>2, <2>3
<1>7. (\A s \in runs : InMinute(s))'
  BY <1>1, <1>2 DEF InMinute, TimeOfDay
<1>8. (\A s, t \in runs : ~Together(s, t))'
  <2>1. \A s, t \in runs \cup {now} : ~Together(s, t)
    BY <1>1, RunAdded
  <2> QED BY <1>2, <2>1 DEF Together
<1> QED BY <1>3, <1>4, <1>5, <1>6, <1>7, <1>8 DEF CronInv

LEMMA AskTimeKeeps == CronInv /\ AskTime => CronInv'
<1> SUFFICES ASSUME CronInv, AskTime PROVE CronInv'
  OBVIOUS
<1>1. at = "ask" /\ parses /\ UNCHANGED <<now, current, offset, parses, since, reboots>>
  BY DEF AskTime
<1>2. Clocks /\ Stamped /\ Met /\ (\A s \in runs : InMinute(s)) /\ \A s, t \in runs : ~Together(s, t)
  BY <1>1 DEF CronInv
<1>3. now \in Int /\ offset \in Int
  BY <1>2 DEF Clocks
<1>4. \A t \in (since + 1)..now : TimeOfDay(t, offset) = Target => Served(t)
  BY <1>1, <1>2 DEF Met
<1>5. ASSUME UNCHANGED <<stamp, runs>>, wake' \in Int, at' \in {"due", "guard"}, Sleeping'
      PROVE  CronInv'
  <2>1. Clocks' /\ Stamped'
    BY <1>1, <1>2, <1>5, CronAssumption DEF Clocks, Stamped, Never
  <2>2. Met'
    BY <1>1, <1>4, <1>5, Unmoved DEF Met
  <2>3. (\A s \in runs : InMinute(s))' /\ (\A s, t \in runs : ~Together(s, t))'
    BY <1>1, <1>2, <1>5, Unmoved
  <2> QED BY <1>5, <2>1, <2>2, <2>3 DEF CronInv
<1>6. CASE UntilNext > 0
  <2>1. ~InMinute(now) /\ UntilNext \in 1..(Day - 1) /\ TimeOfDay(now + UntilNext, offset) = Target
    BY <1>3, <1>6, UntilNextIs
  <2>2. PICK late \in 0..Late : Sleep(now + UntilNext + late, "due") /\ UNCHANGED <<stamp, runs>>
    BY <1>6 DEF AskTime
  <2>9. PICK w \in Int : w = now + UntilNext
    BY <1>3, <2>1, CronAssumption
  <2>3. w > now /\ w - now < Day /\ wake' = w + late /\ at' = "due" /\ late \in Int
    BY <1>3, <2>1, <2>2, <2>9, CronAssumption DEF Sleep
  <2>4. TimeOfDay(w, offset) = Target
    BY <2>1, <2>9
  <2>5. ASSUME NEW s \in runs PROVE wake' - s >= Day - Minute - Late
    <3>1. s \in Int /\ s <= now /\ InMinute(s)
      BY <1>2 DEF Clocks
    <3>2. CASE w - s < Day
      <4>1. w - s \in 0..(Day - 1) /\ s + (w - s) = w
        BY <1>3, <2>3, <3>1, <3>2, CronAssumption
      <4>2. TimeOfDay(w, offset) = TimeOfDay(s, offset) + (w - s)
            \/ TimeOfDay(w, offset) = TimeOfDay(s, offset) + (w - s) - Day
        BY <1>3, <3>1, <4>1, DayTurns
      <4>3. TimeOfDay(s, offset) \in Target..(Target + Minute - 1)
        BY <3>1 DEF InMinute
      <4> QED BY <1>3, <2>2, <2>3, <2>4, <3>1, <4>2, <4>3, CronAssumption
    <3>3. CASE w - s >= Day
      BY <1>3, <2>2, <2>3, <3>1, <3>3, CronAssumption
    <3> QED BY <2>3, <3>1, <3>2, <3>3, CronAssumption
  <2>6. Sleeping'
    <3>1. w \in (wake' - Late)..wake' /\ now <= wake'
      BY <1>3, <2>2, <2>3, CronAssumption
    <3>2. TimeOfDay(w, offset)' = Target /\ w - now' < Day
      BY <1>1, <2>3, <2>4 DEF TimeOfDay
    <3>3. runs' = runs /\ now' = now /\ at' = "due" /\ offset' = offset
      BY <1>1, <2>2, <2>3
    <3>4. \E v \in (wake' - Late)..wake' : TimeOfDay(v, offset') = Target /\ v - now' < Day
      BY <3>1, <3>2 DEF TimeOfDay
    <3> QED BY <2>5, <3>1, <3>3, <3>4 DEF Sleeping, TimeOfDay
  <2>7. wake' \in Int
    BY <2>3
  <2> QED BY <1>5, <2>2, <2>3, <2>6, <2>7
<1>7. CASE ~(UntilNext > 0)
  <2>1. InMinute(now)
    BY <1>3, <1>7, UntilNextIs, CronAssumption
  <2>2. CASE Recent
    <3>1. Sleep(now + Guard, "guard") /\ UNCHANGED <<stamp, runs>>
      BY <1>7, <2>2 DEF AskTime
    <3>2. wake' = now + Guard /\ at' = "guard" /\ wake' \in Int
      BY <1>3, <3>1, CronAssumption DEF Sleep
    <3>3. Sleeping'
      <4>1. now' <= wake' /\ now' \in (wake' - Busy - Guard)..now'
        BY <1>1, <1>3, <3>2, CronAssumption
      <4>2. InMinute(now)'
        BY <1>1, <2>1 DEF InMinute, TimeOfDay
      <4>3. \E b \in (wake' - Busy - Guard)..now' : InMinute(b)'
        BY <1>1, <4>1, <4>2 DEF InMinute, TimeOfDay
      <4> QED BY <3>2, <4>1, <4>3 DEF Sleeping
    <3> QED BY <1>5, <3>1, <3>2, <3>3
  <2>3. CASE ~Recent
    <3>1. Work
      BY <1>7, <2>3 DEF AskTime
    <3>2. ASSUME NEW s \in runs PROVE now - s >= Window
      BY <1>2, <1>3, <2>3, CronAssumption DEF Recent, Stamped, Clocks
    <3> QED BY <1>1, <1>4, <2>1, <3>1, <3>2, WorkKeeps
  <2> QED BY <2>2, <2>3
<1> QED BY <1>6, <1>7

LEMMA WakeKeeps == CronInv /\ Wake => CronInv'
<1> SUFFICES ASSUME CronInv, Wake PROVE CronInv'
  OBVIOUS
<1>1. at = "due" /\ now >= wake /\ Work /\ UNCHANGED <<now, current, offset, parses, since, reboots>>
  BY DEF Wake
<1> SUFFICES ASSUME parses PROVE CronInv'
  BY <1>1 DEF CronInv
<1>2. Clocks /\ Sleeping /\ Met
  BY DEF CronInv
<1>3. now = wake /\ now \in Int /\ offset \in Int
  BY <1>1, <1>2 DEF Clocks, Sleeping
<1>4. PICK w \in (wake - Late)..wake : TimeOfDay(w, offset) = Target
  BY <1>1, <1>2 DEF Sleeping
<1>5. InMinute(now)
  <2>1. w \in Int /\ now - w \in 0..(Day - 1) /\ w + (now - w) = now /\ now - w <= Late
    BY <1>3, <1>4, CronAssumption
  <2>2. \/ TimeOfDay(now, offset) = TimeOfDay(w, offset) + (now - w)
        \/ TimeOfDay(now, offset) = TimeOfDay(w, offset) + (now - w) - Day
    BY <1>3, <2>1, DayTurns
  <2>3. TimeOfDay(now, offset) \in 0..(Day - 1)
    <3>1. 0 \in 0..(Day - 1)
      BY CronAssumption
    <3> QED BY <1>3, <3>1, DayTurns
  <2> QED BY <1>3, <1>4, <2>1, <2>2, <2>3, CronAssumption DEF InMinute
<1>6. \A s \in runs : now - s >= Day - Minute - Late
  BY <1>1, <1>2, <1>3 DEF Sleeping
<1>7. \A t \in (since + 1)..now : TimeOfDay(t, offset) = Target => Served(t) \/ now \in t..(t + Late)
  BY <1>2, <1>3 DEF Met
<1> QED BY <1>1, <1>5, <1>6, <1>7, WorkKeeps

\* Steps after which nothing is due and no run was added.
LEMMA RestKeeps ==
    ASSUME CronInv, parses, UNCHANGED <<now, current, offset, parses, stamp, since, runs>>,
           at # "due", wake' \in Int, at' \in {"ask", "guard"}, Sleeping'
    PROVE  CronInv'
<1>1. Clocks /\ Stamped /\ Met /\ (\A s \in runs : InMinute(s)) /\ \A s, t \in runs : ~Together(s, t)
  BY DEF CronInv
<1>2. Clocks' /\ Stamped'
  BY <1>1, CronAssumption DEF Clocks, Stamped, Never
<1>3. Met'
  BY <1>1, Unmoved DEF Met
<1>4. (\A s \in runs : InMinute(s))' /\ (\A s, t \in runs : ~Together(s, t))'
  BY <1>1, Unmoved
<1> QED BY <1>2, <1>3, <1>4 DEF CronInv

LEMMA WorkedKeeps == CronInv /\ Worked => CronInv'
<1> SUFFICES ASSUME CronInv, Worked PROVE CronInv'
  OBVIOUS
<1>1. at = "working" /\ parses /\ wake' = now + Guard /\ at' = "guard"
      /\ UNCHANGED <<now, current, offset, parses, stamp, since, runs, reboots>>
  BY DEF Worked, Sleep
<1>2. Clocks /\ Sleeping /\ \A s \in runs : InMinute(s)
  BY <1>1 DEF CronInv
<1>3. wake \in runs /\ wake \in Int /\ now \in Int /\ wake <= now /\ now <= wake + Busy /\ InMinute(wake)
  BY <1>1, <1>2 DEF Sleeping, Clocks
<1>4. PICK b \in Int : b = wake
  BY <1>3
<1>5. Sleeping'
  <2>1. now' <= wake' /\ b \in (wake' - Busy - Guard)..now'
    BY <1>1, <1>3, <1>4, CronAssumption
  <2>2. InMinute(b)'
    BY <1>1, <1>3, <1>4 DEF InMinute, TimeOfDay
  <2>3. \E c \in (wake' - Busy - Guard)..now' : InMinute(c)'
    BY <2>1, <2>2 DEF InMinute, TimeOfDay
  <2> QED BY <1>1, <2>1, <2>3 DEF Sleeping
<1>6. wake' \in Int
  BY <1>1, <1>3, CronAssumption
<1> QED BY <1>1, <1>5, <1>6, RestKeeps

LEMMA GuardEndsKeeps == CronInv /\ GuardEnds => CronInv'
<1> SUFFICES ASSUME CronInv, GuardEnds PROVE CronInv'
  OBVIOUS
<1>1. at = "guard" /\ wake' = now /\ at' = "ask"
      /\ UNCHANGED <<now, current, offset, parses, stamp, since, runs, reboots>>
  BY DEF GuardEnds, Sleep
<1> SUFFICES ASSUME parses PROVE CronInv'
  BY <1>1 DEF CronInv
<1>2. wake' \in Int
  BY <1>1 DEF CronInv, Clocks
<1>3. Sleeping'
  BY <1>1 DEF Sleeping
<1> QED BY <1>1, <1>2, <1>3, RestKeeps

\* While the work and the guard after it last, the day's time does not come again.
LEMMA NotAgainToday ==
    ASSUME now \in Int, offset \in Int, NEW b \in Int, InMinute(b), b <= now,
           now + 1 <= b + Busy + Guard
    PROVE  TimeOfDay(now + 1, offset) # Target
<1>1. (now + 1) - b \in 0..(Day - 1) /\ b + ((now + 1) - b) = now + 1 /\ (now + 1) - b < Day - Minute
  BY CronAssumption
<1>2. \/ TimeOfDay(now + 1, offset) = TimeOfDay(b, offset) + ((now + 1) - b)
      \/ TimeOfDay(now + 1, offset) = TimeOfDay(b, offset) + ((now + 1) - b) - Day
  BY <1>1, DayTurns
<1>3. TimeOfDay(b, offset) \in Int
  <2>1. 0 \in 0..(Day - 1)
    BY CronAssumption
  <2> QED BY <2>1, DayTurns
<1> QED BY <1>1, <1>2, <1>3, CronAssumption DEF InMinute

LEMMA TimePassesKeeps == Steady /\ CronInv /\ TimePasses => CronInv'
<1> SUFFICES ASSUME Steady, CronInv, TimePasses PROVE CronInv'
  OBVIOUS
<1>1. now' = now + 1 /\ ~Due /\ current' \in Shift
      /\ UNCHANGED <<offset, parses, at, wake, stamp, since, runs, reboots>>
  BY DEF TimePasses
<1> SUFFICES ASSUME parses PROVE CronInv'
  BY <1>1 DEF CronInv
<1>2. Clocks /\ Stamped /\ Sleeping /\ Met /\ (\A s \in runs : InMinute(s)) /\ \A s, t \in runs : ~Together(s, t)
  BY DEF CronInv
<1>3. now \in Int /\ offset \in Int /\ wake \in Int
  BY <1>2 DEF Clocks
<1>4. /\ at # "ask"
      /\ at \in {"due", "guard"} => now < wake
      /\ at = "working" => now < wake + Busy
  <2>1. /\ at # "ask"
        /\ at \in {"due", "guard"} => ~(now >= wake)
        /\ at = "working" => ~(now >= wake + Busy)
    BY <1>1 DEF Due
  <2>2. (~(now >= wake) => now < wake) /\ (~(now >= wake + Busy) => now < wake + Busy)
    BY <1>3, CronAssumption
  <2> QED BY <2>1, <2>2
<1>5. Clocks'
  BY <1>1, <1>2 DEF Clocks
<1>6. Stamped'
  BY <1>1, <1>2, CronAssumption DEF Stamped, Clocks, Never
<1>7. Sleeping'
  <2>1. CASE at = "due"
    <3>1. PICK w \in (wake - Late)..wake : TimeOfDay(w, offset) = Target /\ w - now < Day
      BY <1>2, <2>1 DEF Sleeping
    <3>2. now' <= wake' /\ w - now' < Day
      BY <1>1, <1>3, <1>4, <2>1, <3>1, CronAssumption
    <3>3. \A s \in runs' : wake' - s >= Day - Minute - Late
      BY <1>1, <1>2, <2>1 DEF Sleeping
    <3>4. w \in (wake' - Late)..wake' /\ TimeOfDay(w, offset') = Target
      BY <1>1, <3>1
    <3>5. \E v \in (wake' - Late)..wake' : TimeOfDay(v, offset') = Target /\ v - now' < Day
      BY <3>2, <3>4
    <3> QED BY <1>1, <2>1, <3>2, <3>3, <3>5 DEF Sleeping, TimeOfDay
  <2>2. CASE at = "working"
    <3>1. wake' \in runs' /\ now' <= wake' + Busy
      BY <1>1, <1>2, <1>3, <1>4, <2>2, CronAssumption DEF Sleeping
    <3> QED BY <1>1, <2>2, <3>1 DEF Sleeping
  <2>3. CASE at = "guard"
    <3>1. PICK b \in (wake - Busy - Guard)..now : InMinute(b)
      BY <1>2, <2>3 DEF Sleeping
    <3>2. now' <= wake' /\ b \in (wake' - Busy - Guard)..now'
      BY <1>1, <1>3, <1>4, <2>3, <3>1, CronAssumption
    <3>3. \E c \in (wake' - Busy - Guard)..now' : InMinute(c)'
      BY <1>1, <3>1, <3>2 DEF InMinute, TimeOfDay
    <3> QED BY <1>1, <2>3, <3>2, <3>3 DEF Sleeping
  <2> QED BY <1>2, <1>4, <2>1, <2>2, <2>3 DEF Clocks
<1>8. Met'
  <2> SUFFICES ASSUME NEW t \in (since + 1)..(now + 1), TimeOfDay(t, offset) = Target
               PROVE  Served(t) \/ (at = "due" /\ wake \in t..(t + Late))
    BY <1>1 DEF Met, Served, TimeOfDay
  <2>1. t \in Int /\ since \in Int
    BY <1>2, <1>3 DEF Clocks
  <2>2. CASE t \in (since + 1)..now
    BY <1>2, <2>2 DEF Met
  <2>3. CASE t = now + 1
    <3>1. CASE at = "due"
      <4>1. PICK w \in (wake - Late)..wake : TimeOfDay(w, offset) = Target /\ w - now < Day
        BY <1>2, <3>1 DEF Sleeping
      <4>2. now < wake /\ w \in Int /\ Late \in Int /\ Late < Day
        BY <1>3, <1>4, <3>1, <4>1, CronAssumption
      <4>3. CASE w >= t
        <5>1. w - t \in 0..(Day - 1) /\ t + (w - t) = w /\ w - t < Day
          BY <1>3, <2>3, <4>1, <4>2, <4>3, CronAssumption
        <5>2. TimeOfDay(w, offset) = TimeOfDay(t, offset) + (w - t)
              \/ TimeOfDay(w, offset) = TimeOfDay(t, offset) + (w - t) - Day
          BY <1>3, <2>1, <5>1, DayTurns
        <5>3. w = t
          BY <2>1, <4>1, <4>2, <5>1, <5>2, CronAssumption
        <5> QED BY <1>3, <3>1, <4>1, <4>2, <5>3
      <4>4. CASE w < t
        <5>1. t - w \in 0..(Day - 1) /\ w + (t - w) = t /\ t - w <= Late /\ t - w > 0
          BY <1>3, <2>3, <4>1, <4>2, <4>4, CronAssumption
        <5>2. TimeOfDay(t, offset) = TimeOfDay(w, offset) + (t - w)
              \/ TimeOfDay(t, offset) = TimeOfDay(w, offset) + (t - w) - Day
          BY <1>3, <4>2, <5>1, DayTurns
        <5> QED BY <2>1, <4>1, <4>2, <5>1, <5>2, CronAssumption
      <4> QED BY <2>1, <4>2, <4>3, <4>4
    <3>2. CASE at = "working"
      <4>1. wake \in runs /\ InMinute(wake) /\ wake <= now
        BY <1>2, <3>2 DEF Sleeping, Clocks
      <4>2. now + 1 <= wake + Busy + Guard
        BY <1>3, <1>4, <3>2, CronAssumption
      <4> QED BY <1>3, <2>3, <4>1, <4>2, NotAgainToday
    <3>3. CASE at = "guard"
      <4>1. PICK b \in (wake - Busy - Guard)..now : InMinute(b)
        BY <1>2, <3>3 DEF Sleeping
      <4>2. b \in Int /\ b <= now /\ now + 1 <= b + Busy + Guard
        BY <1>3, <1>4, <3>3, <4>1, CronAssumption
      <4> QED BY <1>3, <2>3, <4>1, <4>2, NotAgainToday
    <3> QED BY <1>2, <1>4, <3>1, <3>2, <3>3 DEF Clocks
  <2> QED BY <1>3, <2>1, <2>2, <2>3
<1>9. (\A s \in runs : InMinute(s))' /\ (\A s, t \in runs : ~Together(s, t))'
  BY <1>1, <1>2 DEF InMinute, TimeOfDay, Together
<1> QED BY <1>5, <1>6, <1>7, <1>8, <1>9 DEF CronInv

LEMMA StartAgainKeeps == Steady /\ CronInv /\ StartAgain => CronInv'
<1> SUFFICES ASSUME Steady, CronInv, StartAgain PROVE CronInv'
  OBVIOUS
<1>1. offset' = current /\ since' = now /\ wake' = now /\ at' = "ask"
      /\ UNCHANGED <<now, current, parses, stamp, runs>>
  BY DEF StartAgain, Sleep
<1> SUFFICES ASSUME parses PROVE CronInv'
  BY <1>1 DEF CronInv
<1>2. Clocks /\ Stamped /\ (\A s \in runs : InMinute(s)) /\ \A s, t \in runs : ~Together(s, t)
  BY DEF CronInv
<1>3. offset' = offset
  BY <1>1, <1>2 DEF Clocks, Steady
<1>4. Clocks' /\ Stamped' /\ Sleeping'
  BY <1>1, <1>2, <1>3, CronAssumption DEF Clocks, Stamped, Sleeping, Never
<1>5. Met'
  <2>1. (now + 1)..now = {}
    BY <1>2 DEF Clocks
  <2>2. ((since + 1)..now)' = {}
    BY <1>1, <2>1
  <2> QED BY <2>2 DEF Met
<1>6. (\A s \in runs : InMinute(s))' /\ (\A s, t \in runs : ~Together(s, t))'
  BY <1>1, <1>2, <1>3 DEF InMinute, TimeOfDay, Together
<1> QED BY <1>4, <1>5, <1>6 DEF CronInv

LEMMA StepCronInv == Steady /\ CronInv /\ [CronNext]_cronVars => CronInv'
<1> SUFFICES ASSUME Steady, CronInv, [CronNext]_cronVars PROVE CronInv'
  OBVIOUS
<1>1. CASE UNCHANGED cronVars
  <2> SUFFICES ASSUME parses PROVE CronInv'
    BY <1>1 DEF CronInv, cronVars
  <2>1. UNCHANGED <<now, current, offset, parses, at, wake, stamp, since, runs, reboots>>
    BY <1>1 DEF cronVars
  <2>2. Clocks' /\ Stamped'
    BY <2>1, CronAssumption DEF CronInv, Clocks, Stamped, Never
  <2>3. Sleeping'
    BY <2>1 DEF CronInv, Sleeping, InMinute, TimeOfDay
  <2>4. Met' /\ (\A s \in runs : InMinute(s))' /\ (\A s, t \in runs : ~Together(s, t))'
    BY <2>1, Unmoved DEF CronInv, Met
  <2> QED BY <2>2, <2>3, <2>4 DEF CronInv
<1>2. CASE Interval
  BY <1>2 DEF Interval, CronInv
<1> QED BY <1>1, <1>2, AskTimeKeeps, WakeKeeps, WorkedKeeps, GuardEndsKeeps, TimePassesKeeps,
           StartAgainKeeps DEF CronNext

\* As long as the zone's offset stays: through any restarts the work is begun at most once
\* around a day's time, and begun at every such time that a process was there to sleep up to.
THEOREM WorkIsDaily == Steady => (CronSpec => []OnceADay)
<1>1. SUFFICES ASSUME Steady PROVE CronSpec => []OnceADay
  OBVIOUS
<1>2. CronInv => OnceADay
  <2> SUFFICES ASSUME CronInv, parses PROVE OnceADay
    BY DEF OnceADay
  <2>1. \A s, t \in runs : ~Together(s, t)
    BY DEF CronInv
  <2>2. ASSUME NEW t \in (since + 1)..now, TimeOfDay(t, offset) = Target, now > t + Late + Minute
        PROVE  \E s \in runs : s \in (t - Window)..(t + Late + Minute)
    <3>1. at = "due" => now <= wake
      BY DEF CronInv, Sleeping
    <3>2. ~(at = "due" /\ wake \in t..(t + Late))
      BY <2>2, <3>1, CronAssumption DEF CronInv, Clocks
    <3> QED BY <2>2, <3>2 DEF CronInv, Met, Served
  <2> QED BY <2>1, <2>2 DEF OnceADay
<1>3. CronInv /\ [CronNext]_cronVars => CronInv'
  BY <1>1, StepCronInv
<1> QED BY <1>2, <1>3, InitCronInv, PTL DEF CronSpec

CronTyped == CronTypeOK /\ stamp \in Int /\ since \in Int

LEMMA DaysInTicks == Days * Day \in Nat /\ Day <= Days * Day /\ Day >= 1
<1>1. Days \in Nat /\ Day \in Nat /\ 1 <= Days /\ Day >= 1 /\ 1 * Day = Day
  BY CronAssumption
<1> QED BY <1>1, TimesMonotone

LEMMA InitCronTyped == CronInit => CronTyped
<1> SUFFICES ASSUME CronInit PROVE CronTyped
  OBVIOUS
<1>1. now \in 0..(Days * Day) /\ now \in Nat
  BY DaysInTicks, CronAssumption DEF CronInit
<1>2. Never \in Int /\ Never <= now
  BY <1>1, CronAssumption DEF Never
<1> QED BY <1>1, <1>2, CronAssumption DEF CronInit, CronTyped, CronTypeOK

LEMMA StepCronTyped == CronTyped /\ [CronNext]_cronVars => CronTyped'
<1> SUFFICES ASSUME CronTyped, [CronNext]_cronVars PROVE CronTyped'
  OBVIOUS
<1>t. /\ now \in Nat /\ now \in 0..(Days * Day) /\ stamp \in Int /\ since \in Int
      /\ runs \subseteq 0..now /\ now \in 0..now
  BY DaysInTicks DEF CronTyped, CronTypeOK
<1>1. CASE UNCHANGED cronVars
  BY <1>1 DEF cronVars, CronTyped, CronTypeOK
<1>2. CASE AskTime
  <2>1. /\ at' \in {"due", "guard", "working"} /\ UNCHANGED <<now, current, offset, parses, since, reboots>>
        /\ \/ UNCHANGED <<stamp, runs>>
           \/ stamp' = now /\ runs' = runs \cup {now}
    BY <1>2 DEF AskTime, Work, Sleep
  <2>a. stamp <= now
    BY DEF CronTyped, CronTypeOK
  <2>b. runs \cup {now} \subseteq 0..now
    BY <1>t
  <2>2. runs' \subseteq 0..now /\ stamp' <= now /\ stamp' \in Int
    <3>1. CASE UNCHANGED <<stamp, runs>>
      BY <1>t, <2>a, <3>1
    <3>2. CASE stamp' = now /\ runs' = runs \cup {now}
      BY <1>t, <2>b, <3>2
    <3> QED BY <2>1, <3>1, <3>2
  <2> QED BY <2>1, <2>2 DEF CronTyped, CronTypeOK
<1>3. CASE Wake
  BY <1>3, <1>t DEF Wake, Work, Sleep, CronTyped, CronTypeOK
<1>4. CASE Worked \/ GuardEnds
  BY <1>4 DEF Worked, GuardEnds, Sleep, CronTyped, CronTypeOK
<1>5. CASE Interval
  BY <1>5, <1>t DEF Interval, Sleep, CronTyped, CronTypeOK
<1>6. CASE TimePasses
  <2>1. now' = now + 1 /\ now' \in 0..(Days * Day)
    BY <1>6, <1>t, DaysInTicks DEF TimePasses
  <2>2. runs' \subseteq 0..now' /\ stamp' <= now' /\ since' <= now'
    BY <1>6, <1>t, <2>1 DEF TimePasses, CronTyped, CronTypeOK
  <2> QED BY <1>6, <2>1, <2>2 DEF TimePasses, CronTyped, CronTypeOK
<1>7. CASE StartAgain
  <2>1. reboots' \in 0..MaxReboots
    BY <1>7, CronAssumption DEF StartAgain, CronTyped, CronTypeOK
  <2> QED BY <1>7, <1>t, <2>1 DEF StartAgain, Sleep, CronTyped, CronTypeOK
<1> QED BY <1>1, <1>2, <1>3, <1>4, <1>5, <1>6, <1>7 DEF CronNext

\* Whatever the zone does: no run, stamp or start is of a later time than it is.
THEOREM CronTypeCorrect == CronSpec => []CronTypeOK
<1>1. CronTyped => CronTypeOK
  BY DEF CronTyped
<1> QED BY <1>1, InitCronTyped, StepCronTyped, PTL DEF CronSpec

-----------------------------------------------------------------------------
(* The ten parts together.                                                 *)

\* The denials rest on a zone of their own, which need not be a zone's, so they are spoken of
\* where they run; every other part is at rest as it starts.
PartsInv ==
    /\ part = "denial" => DenialInv
    /\ Inv /\ WireTyped /\ NamesInv /\ RateInv /\ AuthTypeOK /\ TokenBorn /\ ShieldTypes /\ AnchorsInv
    /\ UpdateTyped /\ CronTyped

LEMMA PartsStart == PartsInit => PartsInv
<1> SUFFICES ASSUME PartsInit PROVE PartsInv
  OBVIOUS
<1>1. /\ AnswersInit /\ WireInit /\ RateInit /\ AuthInit /\ AnchorsInit /\ ShieldInit /\ UpdateInit
      /\ CronInit /\ NamesInit
      /\ part = "denial" => DenialInit
  BY Zenon DEF PartsInit
<1> QED
  BY <1>1, DenialInitInv, InitSound, WireTypedStart, NamesStart, RateStart, AuthStart, ShieldedInit,
     AnchorsStart, InitUpdateTyped, InitCronTyped DEF PartsInv

\* A step of the composition is a step or a stutter of every part.
LEMMA PartsMoves ==
    ASSUME PartsNext \/ UNCHANGED partsVars
    PROVE  /\ [AnswersNext]_answersVars /\ [WireNext]_wireVars /\ [NamesNext]_namesVars
           /\ [RateNext]_rateVars /\ [AuthNext]_authVars /\ [ShieldNext]_shieldVars
           /\ [AnchorsNext]_anchorsVars /\ [UpdateNext]_updateVars /\ [CronNext]_cronVars
           /\ [DenialNext]_denialVars /\ UNCHANGED part
<1>1. CASE UNCHANGED partsVars
  BY <1>1 DEF partsVars
<1>2. CASE PartsNext
  <2>1. ASSUME NEW p, Turn(p)
        PROVE  /\ p # "answers" => UNCHANGED answersVars
               /\ p # "wire" => UNCHANGED wireVars
               /\ p # "denial" => UNCHANGED denialVars
               /\ p # "names" => UNCHANGED namesVars
               /\ p # "rates" => UNCHANGED rateVars
               /\ p # "auth" => UNCHANGED authVars
               /\ p # "shield" => UNCHANGED shieldVars
               /\ p # "anchors" => UNCHANGED anchorsVars
               /\ p # "update" => UNCHANGED updateVars
               /\ p # "cron" => UNCHANGED cronVars
               /\ UNCHANGED part
    BY <2>1, Zenon DEF Turn
  <2> QED
    BY <1>2, <2>1 DEF PartsNext
<1> QED
  BY <1>1, <1>2

LEMMA PartsStep == PartsInv /\ [PartsNext]_partsVars => PartsInv'
<1> SUFFICES ASSUME PartsInv, [PartsNext]_partsVars PROVE PartsInv'
  OBVIOUS
<1>1. /\ [AnswersNext]_answersVars /\ [WireNext]_wireVars /\ [NamesNext]_namesVars
      /\ [RateNext]_rateVars /\ [AuthNext]_authVars /\ [ShieldNext]_shieldVars
      /\ [AnchorsNext]_anchorsVars /\ [UpdateNext]_updateVars /\ [CronNext]_cronVars
      /\ [DenialNext]_denialVars /\ UNCHANGED part
  BY PartsMoves
<1>2. Inv' /\ WireTyped' /\ NamesInv' /\ RateInv'
  BY <1>1, InvStep, WireTypedStep, NamesStep, RateStep DEF PartsInv
<1>3. AuthTypeOK' /\ TokenBorn' /\ ShieldTypes' /\ AnchorsInv'
  BY <1>1, TokenTyped, TokenBornStep, ShieldedStep, AnchorsStep DEF PartsInv
<1>4. UpdateTyped' /\ CronTyped'
  BY <1>1, StepUpdateTyped, StepCronTyped DEF PartsInv
<1>5. part' = "denial" => DenialInv'
  BY <1>1, DenialStep DEF PartsInv
<1> QED
  BY <1>2, <1>3, <1>4, <1>5 DEF PartsInv

LEMMA PartsTyped == PartsInv => PartsTypeOK
<1> SUFFICES ASSUME PartsInv PROVE PartsTypeOK
  OBVIOUS
<1>1. AnswersTypeOK /\ WireTypeOK /\ NamesTypeOK /\ RateTypeOK /\ AuthTypeOK
  BY WireTyping, NamesTyping, RateTypes DEF PartsInv, Inv
<1>2. ShieldTypeOK /\ AnchorsTypeOK /\ UpdateTypeOK /\ CronTypeOK
  BY ShieldTyping, AnchorsTyped, TypedUpdate DEF PartsInv, CronTyped
<1>3. part = "denial" => DenialTypeOK
  BY DenialTyping DEF PartsInv
<1> QED
  BY <1>1, <1>2, <1>3 DEF PartsTypeOK

(***************************************************************************)
(* In the composition that MCParts runs, every variable of the part that   *)
(* runs stays of its type, for any bounds: the pipeline, the messages, the *)
(* denials and the names, the limiter, the tokens, the shield, the         *)
(* anchors, the update and the daily work.                                 *)
(***************************************************************************)
THEOREM PartsTypeCorrect == PartsSpec => []PartsTypeOK
<1> QED
  BY PartsStart, PartsStep, PartsTyped, PTL DEF PartsSpec
=============================================================================
