------------------------------- MODULE Anchors ------------------------------
(***************************************************************************)
(* The root trust anchors: TrustAnchorStore of src/src/dns/dnssec.rs, the  *)
(* check of the detached signature in src/src/dns/pkcs7.rs, and the boot   *)
(* and the cron (src/src/main.rs) that synchronise the store one after the *)
(* other or at once.                                                       *)
(*                                                                         *)
(* IANA publishes a list of anchors and a signature of it at two           *)
(* addresses; between the two fetches of a sync it may publish anew.  A    *)
(* list is the set of its keys, with those of them that have expired; what *)
(* is fetched over TLS is one IANA published.  The copy that is written to *)
(* the disk is never read (load_from_cache has no caller), so it is left   *)
(* out.                                                                    *)
(***************************************************************************)
EXTENDS Naturals

CONSTANTS
    Syncer,        \* the boot and the cron
    MaxEdition,    \* bound: the lists IANA publishes
    MaxRestart     \* bound on restarts

ASSUME AnchorsAssumption == MaxEdition \in Nat \ {0}

VARIABLES
    edition,       \* the list IANA publishes now; its signature is as new
    expired,       \* the editions all of whose keys have expired
    anchors,       \* the edition the store was made from, 0 for the built-in keys
    sync,          \* what a syncer has fetched
    restarts       \* counts restarts, against MaxRestart

anchorsVars == <<edition, expired, anchors, sync, restarts>>

Unfetched == MaxEdition + 1
NoSync == [pc |-> "idle", xml |-> Unfetched, p7s |-> Unfetched]

AnchorsInit ==
    /\ edition = 1
    /\ expired = {}
    /\ anchors = 0
    /\ sync = [s \in Syncer |-> NoSync]
    /\ restarts = 0

Republish ==
    /\ edition < MaxEdition
    /\ edition' = edition + 1
    /\ UNCHANGED <<expired, anchors, sync, restarts>>

\* The last keys of a list that IANA has replaced run out.
Expire(e) ==
    /\ e < edition /\ e \notin expired
    /\ expired' = expired \cup {e}
    /\ UNCHANGED <<edition, anchors, sync, restarts>>

\* sync_from_iana: both requests are sent.
StartSync(s) ==
    /\ sync[s].pc = "idle"
    /\ sync' = [sync EXCEPT ![s].pc = "fetch"]
    /\ UNCHANGED <<edition, expired, anchors, restarts>>

\* 0 is a request that failed.
FetchXml(s, e) ==
    /\ sync[s].pc = "fetch" /\ sync[s].xml = Unfetched
    /\ sync' = [sync EXCEPT ![s].xml = e]
    /\ UNCHANGED <<edition, expired, anchors, restarts>>

FetchSignature(s, e) ==
    /\ sync[s].pc = "fetch" /\ sync[s].p7s = Unfetched
    /\ sync' = [sync EXCEPT ![s].p7s = e]
    /\ UNCHANGED <<edition, expired, anchors, restarts>>

\* Mutant: the signature is not compared with the list.
VerifySmime_Any(xml, p7s) == TRUE
\* verify_iana_root_anchors_smime: the digest of this list, signed by a certificate that
\* a pinned key has signed.
VerifySmime(xml, p7s) == xml = p7s

\* A signature that cannot be fetched is done without.
Trusted(s) == sync[s].xml # 0 /\ (sync[s].p7s = 0 \/ VerifySmime(sync[s].xml, sync[s].p7s))

\* Mutant: a list without a live key replaces the store's.
Usable_Always(e) == TRUE
\* parse_and_update: keys past validUntil are left out; an empty list changes nothing.
Usable(e) == e \notin expired

Update(s) ==
    /\ sync[s].pc = "fetch" /\ sync[s].xml # Unfetched /\ sync[s].p7s # Unfetched
    /\ anchors' = IF Trusted(s) /\ Usable(sync[s].xml) THEN sync[s].xml ELSE anchors
    /\ sync' = [sync EXCEPT ![s] = NoSync]
    /\ UNCHANGED <<edition, expired, restarts>>

Restart ==
    /\ restarts < MaxRestart /\ restarts' = restarts + 1
    /\ anchors' = 0
    /\ sync' = [s \in Syncer |-> NoSync]
    /\ UNCHANGED <<edition, expired>>

AnchorsNext ==
    \/ Republish \/ Restart
    \/ \E e \in 1..MaxEdition : Expire(e)
    \/ \E s \in Syncer :
          StartSync(s) \/ Update(s) \/ \E e \in {0, edition} : FetchXml(s, e) \/ FetchSignature(s, e)

AnchorsSpec == AnchorsInit /\ [][AnchorsNext]_anchorsVars

---------------------------------------------------------------------------
AnchorsTypeOK ==
    /\ edition \in 1..MaxEdition /\ anchors \in 0..edition /\ expired \subseteq 1..(edition - 1)
    /\ \A s \in Syncer : sync[s].xml \in 0..Unfetched /\ sync[s].p7s \in 0..Unfetched

(***************************************************************************)
(* A sync never leaves the store without a live key: neither a list that   *)
(* ran out while it was fetched, nor one that was replaced between the two *)
(* requests while its signature was read, takes the store's place.         *)
(***************************************************************************)
AnchorsLive == [][anchors' # anchors /\ restarts' = restarts =>
    /\ anchors' \notin expired
    /\ \A s \in Syncer : sync[s] # sync'[s] =>
          sync[s].p7s \in {0, sync[s].xml}]_anchorsVars
=============================================================================
