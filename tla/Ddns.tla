-------------------------------- MODULE Ddns --------------------------------
(***************************************************************************)
(* Dynamic DNS: sync_all_ddns_records of src/src/server/ddns.rs, run once  *)
(* at boot and once a day (src/src/main.rs), the two of which may overlap. *)
(*                                                                         *)
(* The service has an address of each family at most, and it may move.     *)
(* Public resolvers know the address of its host name and what they last   *)
(* saw of each domain; echo services know the address a machine calls      *)
(* from.  Each call to a resolver, an echo service or a provider may fail. *)
(***************************************************************************)
EXTENDS Naturals, FiniteSets

CONSTANTS
    Domain,       \* the domains that are configured
    Address,      \* addresses the service may have
    Own,          \* the address the echo services tell
    MaxMoves,     \* bound on moves of the service
    MaxFailures   \* bound on failed calls

ASSUME DdnsAssumption == {MaxMoves, MaxFailures} \subseteq Nat

VARIABLES
    dynu,         \* the domains that are at Dynu; deSEC and DuckDNS are alike
    host,         \* the address of each family, or none
    record,       \* what the providers hold for each domain and family
    seen,         \* what the public resolvers last saw of it
    sync,         \* the two runs of sync_all_ddns_records
    moves, failures  \* count moves and failed calls, against their bounds

ddnsVars == <<dynu, host, record, seen, sync, moves, failures>>

Family == {"v4", "v6"}
None == "none"
Run == {"boot", "cron"}
Unknown == [f \in Family |-> None]
Idle == [pc |-> "idle", ips |-> Unknown, todo |-> {}]

DdnsInit ==
    /\ dynu \in SUBSET Domain
    /\ host \in [Family -> Address \cup {None}] /\ host["v4"] # None
    /\ record = [d \in Domain |-> Unknown] /\ seen = record
    /\ sync = [r \in Run |-> IF r = "boot" THEN [Idle EXCEPT !.pc = "discover"] ELSE Idle]
    /\ moves = 0 /\ failures = 0

\* The cron's daily run; the boot's is over once it is done.
Start ==
    /\ sync["cron"].pc = "idle"
    /\ sync' = [sync EXCEPT !["cron"].pc = "discover"]
    /\ UNCHANGED <<dynu, host, record, seen, moves, failures>>

\* A number of calls failed in this step.
Failing(n) == failures + n <= MaxFailures /\ failures' = failures + n

\* discover_public_ips for one family: two resolvers, then echo services; one fault stands
\* for all the calls of a kind.
Resolvers(f) == host[f]
\* Mutant: what an echo service says is not parsed as an address.
Echo_Unparsed(f) == IF host[f] = None THEN "no address" ELSE Own
Echo(f) == IF host[f] = None THEN None ELSE Own
Discovered(f, failed) ==
    CASE failed = 0 -> IF Resolvers(f) # None THEN Resolvers(f) ELSE Echo(f)
      [] failed = 1 -> Echo(f)
      [] OTHER -> None
Discover(r) ==
    /\ sync[r].pc = "discover"
    /\ \E v4, v6 \in 0..2 :
         LET ips == [f \in Family |-> Discovered(f, IF f = "v4" THEN v4 ELSE v6)]
         IN  /\ Failing(v4 + v6)
             /\ sync' = [sync EXCEPT ![r] = IF ips = Unknown THEN Idle
                            ELSE [pc |-> "compare", ips |-> ips, todo |-> Domain]]
    /\ UNCHANGED <<dynu, host, record, seen, moves>>

\* resolve_current_ips: none when the resolvers fail.
Current(d, failed) == IF failed = 0 THEN seen[d] ELSE Unknown
\* Mutant: the second family is not compared.
UpToDate_First(ips, current) == ips["v4"] \in {None, current["v4"]}
\* is_domain_ip_up_to_date: a family that was not discovered matches anything.
UpToDate(ips, current) == \A f \in Family : ips[f] \in {None, current[f]}

Finish(r, d) == LET rest == sync[r].todo \ {d}
                IN  IF rest = {} THEN Idle ELSE [sync[r] EXCEPT !.pc = "compare", !.todo = rest]
Compare(r, d) ==
    /\ sync[r].pc = "compare" /\ d \in sync[r].todo
    /\ \E failed \in 0..1 :
         /\ Failing(failed)
         /\ sync' = [sync EXCEPT ![r] = IF UpToDate(sync[r].ips, Current(d, failed)) THEN Finish(r, d)
                                          ELSE [@ EXCEPT !.pc = d]]
    /\ UNCHANGED <<dynu, host, record, seen, moves>>

\* update_desec_ip, update_duckdns_ip: what was not discovered is not mentioned.
Updated(d, ips) == [f \in Family |-> IF ips[f] = None THEN record[d][f] ELSE ips[f]]
\* update_dynu_ip: it is switched off.
UpdatedDynu(ips) == ips
Update(r, d) ==
    /\ sync[r].pc = d
    /\ sync' = [sync EXCEPT ![r] = Finish(r, d)]
    /\ \/ /\ record' = [record EXCEPT ![d] = IF d \in dynu THEN UpdatedDynu(sync[r].ips)
                                               ELSE Updated(d, sync[r].ips)]
          /\ UNCHANGED failures
       \/ Failing(1) /\ UNCHANGED record
    /\ UNCHANGED <<dynu, host, seen, moves>>

\* The resolvers' copies lapse.
Forget(d) ==
    /\ seen[d] # record[d]
    /\ seen' = [seen EXCEPT ![d] = record[d]]
    /\ UNCHANGED <<dynu, host, record, sync, moves, failures>>

Move(f, to) ==
    /\ moves < MaxMoves /\ moves' = moves + 1
    /\ to # host[f]
    /\ host' = [host EXCEPT ![f] = to]
    /\ UNCHANGED <<dynu, record, seen, sync, failures>>

DdnsNext ==
    \/ Start
    \/ \E r \in Run : Discover(r) \/ \E d \in Domain : Compare(r, d) \/ Update(r, d)
    \/ \E d \in Domain : Forget(d)
    \/ \E f \in Family, to \in Address : Move(f, to)

\* A run goes on, a day comes, and no resolver keeps a copy for ever.
Syncs(r) == Discover(r) \/ (\E d \in Domain : Compare(r, d) \/ Update(r, d)) \/ (r = "cron" /\ Start)
DdnsSpec ==
    /\ DdnsInit /\ [][DdnsNext]_ddnsVars
    /\ \A r \in Run : WF_ddnsVars(Syncs(r))
    /\ \A d \in Domain : WF_ddnsVars(Forget(d))

---------------------------------------------------------------------------
DdnsTypeOK ==
    /\ dynu \subseteq Domain
    /\ host \in [Family -> Address \cup {None}]
    /\ \A d \in Domain : {record[d], seen[d]} \subseteq [Family -> Address \cup {Own, None}]
    /\ \A r \in Run : sync[r].pc \in {"idle", "discover", "compare"} \cup Domain
                      /\ sync[r].todo \subseteq Domain
    /\ moves \in 0..MaxMoves /\ failures \in 0..MaxFailures

(***************************************************************************)
(* Once the service stays where it is and the calls succeed, every domain  *)
(* comes to have its addresses and keeps them: though a run that           *)
(* discovered an older address wrote last, an echo service told the        *)
(* machine's own, Dynu switched a family off, or a resolver still saw an   *)
(* address the service has come back to.                                   *)
(***************************************************************************)
RecordsFollow ==
    <>[](\A d \in Domain, f \in Family : host[f] # None => record[d][f] = host[f])

\* src/README.md:340 "Resolves the application Anycast hostname ... to detect the active public
\* IPv4 and IPv6 addresses": violated, the address a machine calls from is no anycast address.
OnlyAnycast == \A d \in Domain, f \in Family : record[d][f] # Own

\* A family that was not discovered is left as it is: violated at Dynu (ddns.rs:300).
UndiscoveredKept ==
    [][\A d \in Domain, f \in Family :
          record'[d][f] # record[d][f] => \E r \in Run : sync[r].pc = d /\ sync[r].ips[f] # None]_ddnsVars
=============================================================================
