------------------------------- MODULE Shield -------------------------------
(***************************************************************************)
(* The Instant Shield: compile_instant_blocklist of src/src/state.rs, the  *)
(* handlers of src/src/server/api/system.rs that call it, the compilation  *)
(* at boot (src/src/main.rs) and the lines they write to the log           *)
(* (src/src/storage/wal.rs).                                               *)
(*                                                                         *)
(* A source is a rule of its own ("local") or the address of a list that   *)
(* is fetched for seconds and may fail; each yields an exact rule and a    *)
(* wildcard, named by the source.  The two sets of rules and the sources   *)
(* have a lock each.  The cache of blocked answers is only read for names  *)
(* that some rule still blocks, so it is left out, and so are the feeds    *)
(* the handlers ask to be synchronised (module Feeds).                     *)
(***************************************************************************)
EXTENDS Naturals, FiniteSets

CONSTANTS
    Local, Remote,     \* sources
    Admin,             \* concurrent calls
    Ops,               \* what the administrators do
    Overlap,           \* the operations, two or twice one, that may be under way together
    MaxBoots         \* bound on restarts

ASSUME ShieldAssumption == MaxBoots \in Nat

VARIABLES
    sources,      \* instant_block_sources
    domains,      \* instant_block_domains: the sources whose exact rule is in it
    wildcards,    \* instant_block_wildcards
    enabled,      \* instant_block_enabled
    saved,        \* what a replay of the log yields
    call,         \* what the calls and the boot are at
    boots         \* counts restarts, against MaxBoots

shieldVars == <<sources, domains, wildcards, enabled, saved, call, boots>>

Source == Local \cup Remote
Boot == "boot"
Caller == Admin \cup {Boot}

\* "given" are the sources to compile, "got" those that yielded their rules.
Call(op, pc, given) == [op |-> op, pc |-> pc, given |-> given, got |-> {}]
NoCall == Call("none", "none", {})

ShieldInit ==
    /\ saved \in {[sources |-> s, enabled |-> TRUE] : s \in SUBSET Source}
    /\ sources = saved.sources /\ enabled = saved.enabled
    /\ domains = sources \cap Local /\ wildcards = sources \cap Local
    /\ call = [c \in Caller |-> IF c = Boot /\ sources # {}
                                  THEN Call("boot", "fetch", sources) ELSE NoCall]
    /\ boots = 0

rules == <<sources, domains, wildcards>>
At(c, pc) == call[c].pc = pc
Goto(c, pc) == call' = [call EXCEPT ![c].pc = pc]
Done(c) == call' = [call EXCEPT ![c] = NoCall]

\* Which operations are under way together is a bound, the code allows all.
MayBegin(op) == \A c \in Caller : call[c] # NoCall => {op, call[c].op} \in Overlap

---------------------------------------------------------------------------
Save(a, given) ==
    /\ "save" \in Ops /\ call[a] = NoCall /\ MayBegin("save")
    /\ call' = [call EXCEPT ![a] = Call("save", "fetch", given)]
    /\ UNCHANGED <<rules, enabled, saved, boots>>

Sync(a) ==
    /\ "sync" \in Ops /\ call[a] = NoCall /\ MayBegin("sync")
    /\ call' = [call EXCEPT ![a] = Call("sync", "fetch", sources)]
    /\ UNCHANGED <<rules, enabled, saved, boots>>

ClearSources(a) ==
    /\ "clear" \in Ops /\ call[a] = NoCall /\ MayBegin("clear")
    /\ call' = [call EXCEPT ![a] = Call("clear", "clear exact", {})]
    /\ sources' = {}
    /\ UNCHANGED <<domains, wildcards, enabled, saved, boots>>

Toggle(a, to) ==
    /\ "toggle" \in Ops /\ call[a] = NoCall /\ MayBegin("toggle")
    /\ enabled' = to
    /\ call' = [call EXCEPT ![a] = Call("toggle", IF to THEN "append on" ELSE "append off", {})]
    /\ UNCHANGED <<rules, saved, boots>>

\* Every list that is fetched comes or does not; one that fails counts as empty.
Compile(c, failing) ==
    /\ At(c, "fetch") /\ failing \subseteq Remote \cap call[c].given
    /\ call' = [call EXCEPT ![c].got = call[c].given \ failing, ![c].pc = "store exact"]
    /\ UNCHANGED <<rules, enabled, saved, boots>>

StoreDomains(c) ==
    /\ At(c, "store exact")
    /\ domains' = call[c].got
    /\ Goto(c, "store wild")
    /\ UNCHANGED <<sources, wildcards, enabled, saved, boots>>

StoreWildcards(c) ==
    /\ At(c, "store wild")
    /\ wildcards' = call[c].got
    /\ Goto(c, "store sources")
    /\ UNCHANGED <<sources, domains, enabled, saved, boots>>

StoreSources(c) ==
    /\ At(c, "store sources")
    /\ sources' = call[c].given
    /\ IF call[c].op = "save" THEN Goto(c, "write") ELSE Done(c)
    /\ UNCHANGED <<domains, wildcards, enabled, saved, boots>>

ClearRules(c) ==
    /\ \/ At(c, "clear exact") /\ domains' = {} /\ UNCHANGED wildcards /\ Goto(c, "clear wild")
       \/ At(c, "clear wild") /\ wildcards' = {} /\ UNCHANGED domains /\ Goto(c, "write none")
    /\ UNCHANGED <<sources, enabled, saved, boots>>

\* Mutant: a save writes the sources it was given.
ToWrite_Given(c) == call[c].given
\* save_instant_block_sources is given the sources of the moment, under their lock.
ToWrite(c) == sources

Write(c) ==
    /\ \/ At(c, "write") /\ saved' = [saved EXCEPT !.sources = ToWrite(c)]
       \/ At(c, "write none") /\ saved' = [saved EXCEPT !.sources = {}]
       \/ At(c, "append on") /\ saved' = [saved EXCEPT !.enabled = TRUE]
       \/ At(c, "append off") /\ saved' = [saved EXCEPT !.enabled = FALSE]
    /\ Done(c)
    /\ UNCHANGED <<rules, enabled, boots>>

\* AppState::new loads the log and compiles what needs no fetch, the boot task the rest.
Reboot ==
    /\ boots < MaxBoots /\ boots' = boots + 1
    /\ sources' = saved.sources /\ enabled' = saved.enabled
    /\ domains' = saved.sources \cap Local /\ wildcards' = saved.sources \cap Local
    /\ call' = [c \in Caller |-> IF c = Boot /\ saved.sources # {}
                                   THEN Call("boot", "fetch", saved.sources) ELSE NoCall]
    /\ UNCHANGED saved

ShieldNext ==
    \/ \E a \in Admin :
          \/ Sync(a) \/ ClearSources(a)
          \/ \E given \in SUBSET Source : Save(a, given)
          \/ \E to \in BOOLEAN : Toggle(a, to)
    \/ \E c \in Caller :
          \/ StoreDomains(c) \/ StoreWildcards(c) \/ StoreSources(c) \/ ClearRules(c) \/ Write(c)
          \/ \E failing \in SUBSET Remote : Compile(c, failing)
    \/ Reboot

ShieldSpec == ShieldInit /\ [][ShieldNext]_shieldVars

---------------------------------------------------------------------------
ShieldTypeOK ==
    /\ sources \cup domains \cup wildcards \cup saved.sources \subseteq Source
    /\ enabled \in BOOLEAN /\ saved.enabled \in BOOLEAN
    /\ \A c \in Caller : call[c].given \subseteq Source /\ call[c].got \subseteq call[c].given
    /\ boots <= MaxBoots

(***************************************************************************)
(* When no call is under way a restart would bring back the sources and    *)
(* the switch that are in force, though two saves stored their sources and *)
(* wrote the log in different orders, or the process died in a call.       *)
(***************************************************************************)
SavedIsStored ==
    (\A c \in Caller : call[c] = NoCall) => saved = [sources |-> sources, enabled |-> enabled]

(***************************************************************************)
(* When no call is under way every rule in force is of a source in force,  *)
(* and every rule that needs no fetch is in force.  Two saves that overlap *)
(* break this (a further configuration).                                   *)
(***************************************************************************)
RulesOfSources ==
    (\A c \in Caller : call[c] = NoCall) =>
       \A held \in {domains, wildcards} : sources \cap Local \subseteq held /\ held \subseteq sources
=============================================================================
