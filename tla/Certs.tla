-------------------------------- MODULE Certs -------------------------------
(***************************************************************************)
(* How the machines of a deployment get and serve a TLS certificate: the   *)
(* ACME supervisor, the cluster lock and the peer synchronisation of       *)
(* src/src/server/acme.rs, the internal calls of                           *)
(* src/src/server/api/system.rs that answer them, the certificate resolver *)
(* of src/src/server/tls.rs and the boot of src/src/main.rs.               *)
(*                                                                         *)
(* A machine has a supervisor and, when it boots without a certificate, a  *)
(* poller; both write the same two files.  A certificate is a number, the  *)
(* key made for it has the same number, and 0 is a file that is missing.   *)
(***************************************************************************)
EXTENDS Naturals, FiniteSets, Sequences

CONSTANTS
    Machine,     \* the machine ids: positive numbers, ordered as their names are
    Remote,      \* the machines that may be outside the primary region
    Poller,      \* the machines that have a poller
    CAs,         \* 2 with a ZeroSSL key (Let's Encrypt comes second), 1 without
    Certificate, \* bound on the certificates that exist at a time: 1..n
    MaxFaults,   \* bound on restarts, lost calls, failed writes, expiries, deployments
    Growing      \* the machines whose configuration may get one more domain

ASSUME CertsAssumption ==
    /\ Machine \subseteq Nat \ {0} /\ Remote \cup Poller \cup Growing \subseteq Machine
    /\ CAs \in {1, 2} /\ 0 \notin Certificate /\ MaxFaults \in Nat

VARIABLES
    disk,        \* [cert, key] at cert_path and key_path
    mirror,      \* [cert, key] in the working directory
    live,        \* [cert, key] in the resolver; 0 is the self-signed fallback
    lock,        \* acme_lock: who holds it on a machine, 0 for nobody or expired
    txt,         \* whose challenge the TXT record of the domains holds, 0 for none
    pc,          \* what a machine's supervisor and poller are at
    hand,        \* the pair they are writing
    asking,      \* the machines the supervisor has still to call
    ca,          \* which certificate authority its order is at, 0 for no order
    made,        \* the certificates: how many domains they name, 30 days to go
    names,       \* how many domains a machine is configured with
    replica,     \* the machines outside the primary region
    faults       \* counts faults, against MaxFaults

vars == <<disk, mirror, live, lock, txt, pc, hand, asking, ca, made, names,
          replica, faults>>

Nothing == [cert |-> 0, key |-> 0]
Unmade == [names |-> 0, fresh |-> FALSE]
Task == (Machine \X {"sup"}) \cup (Poller \X {"poll"})
Sup(m) == <<m, "sup">>

Full(pair) == pair.cert # 0 /\ pair.key # 0

\* get_cert_days_remaining says 30 or more.
Fresh(pair) == pair.cert # 0 /\ made[pair.cert].fresh

\* validate_cert_key_pair: whether the key belongs to the certificate is not asked.
Valid(m, pair) == Full(pair) /\ Fresh(pair) /\ made[pair.cert].names >= names[m]

\* get_effective_tls_paths and the two files read.
Effective(m) == IF Full(disk[m]) THEN disk[m]
                ELSE IF Full(mirror[m]) THEN mirror[m] ELSE Nothing

\* A certificate some file, resolver or task still has, a file aside that `m` will
\* overwrite.
Held(n, m) ==
    \/ \E p \in Machine : n \in {mirror[p].cert, live[p].cert, mirror[p].key, live[p].key}
    \/ \E p \in Machine : n \in {disk[p].cert, disk[p].key} /\ (p # m \/ Full(disk[p]))
    \/ \E t \in Task : n \in {hand[t].cert, hand[t].key}

Fault == faults < MaxFaults /\ faults' = faults + 1

Init ==
    /\ made \in [Certificate -> {Unmade, [names |-> 1, fresh |-> TRUE],
                                 [names |-> 1, fresh |-> FALSE]}]
    /\ \A n \in Certificate \ {1} : made[n] = Unmade
    /\ disk \in [Machine -> {Nothing} \cup
                 {[cert |-> n, key |-> n] : n \in {k \in Certificate : made[k] # Unmade}}]
    /\ mirror = [m \in Machine |-> Nothing]
    /\ live = disk
    /\ lock = [m \in Machine |-> 0]
    /\ txt = 0
    /\ pc = [t \in Task |-> IF t[2] = "sup" THEN "check"
                            ELSE IF Full(disk[t[1]]) THEN "off" ELSE "sync"]
    /\ hand = [t \in Task |-> Nothing]
    /\ asking = [m \in Machine |-> {}]
    /\ ca = [m \in Machine |-> 0]
    /\ names = [m \in Machine |-> 1]
    /\ replica \in SUBSET Remote
    /\ faults = 0

files == <<disk, mirror, live>>
order == <<lock, txt, asking, ca>>
world == <<made, names, replica>>

Goto(t, at) == pc' = [pc EXCEPT ![t] = at]

---------------------------------------------------------------------------
(* The supervisor's loop.                                                  *)

\* The long sleeps end: 24 hours, 6 hours, 45 seconds, 60 seconds.
Wake(m) ==
    /\ pc[Sup(m)] = "rest"
    /\ Goto(Sup(m), "check")
    /\ UNCHANGED <<files, hand, order, world, faults>>

\* update_from_pem reads both files; it fails when one is missing.
Loaded(m) == IF Full(disk[m]) THEN disk[m] ELSE live[m]

CheckFinds(m) ==
    /\ pc[Sup(m)] = "check"
    /\ Valid(m, disk[m])
    /\ live' = [live EXCEPT ![m] = Loaded(m)]
    /\ Goto(Sup(m), "rest")
    /\ UNCHANGED <<disk, mirror, hand, order, world, faults>>

\* The pair in the working directory is valid: it is copied to cert_path.
CheckRestores(m) ==
    /\ pc[Sup(m)] = "check"
    /\ ~ Valid(m, disk[m]) /\ Valid(m, mirror[m])
    /\ hand' = [hand EXCEPT ![Sup(m)] = mirror[m]]
    /\ Goto(Sup(m), "cert")
    /\ UNCHANGED <<files, order, world, faults>>

CheckMisses(m) ==
    /\ pc[Sup(m)] = "check"
    /\ ~ Valid(m, disk[m]) /\ ~ Valid(m, mirror[m])
    /\ Goto(Sup(m), "sync")
    /\ UNCHANGED <<files, hand, order, world, faults>>

---------------------------------------------------------------------------
(* try_sync_from_peer.  The names it asks resolve to every machine, the    *)
(* asking one included.  Which domains the bundle names is not asked.      *)

Syncing(t) == pc[t] \in {"sync", "again", "wait"}

SyncFrom(t, p) ==
    /\ Syncing(t)
    /\ Full(Effective(p)) /\ Fresh(Effective(p))
    /\ hand' = [hand EXCEPT ![t] = Effective(p)]
    /\ Goto(t, "cert")
    /\ UNCHANGED <<files, order, world, faults>>

\* A call that fails goes on: a leader asks twice and tries for the lock, a
\* replica waits ten minutes for the leader and then works alone; the poller
\* and a supervisor that waits give up after 120 calls.
AfterFailure(t) ==
    CASE t[2] = "poll" -> "off"
      [] t[1] \in replica -> IF pc[t] = "sync" THEN "wait" ELSE "account"
      [] pc[t] = "sync" -> "again"
      [] pc[t] = "again" -> "lock"
      [] OTHER -> "rest"

SyncFails(t) ==
    /\ Syncing(t)
    /\ \/ /\ \A p \in Machine : ~ (Full(Effective(p)) /\ Fresh(Effective(p)))
          /\ UNCHANGED faults
       \/ Fault
    /\ Goto(t, AfterFailure(t))
    /\ UNCHANGED <<files, hand, order, world>>

---------------------------------------------------------------------------
(* The cluster lock.                                                       *)

\* The lock of one's own process first: only a lower id keeps it.
TakeLocal(m) ==
    /\ pc[Sup(m)] = "lock"
    /\ IF lock[m] # 0 /\ lock[m] < m
         THEN Goto(Sup(m), "wait") /\ UNCHANGED <<lock, asking>>
         ELSE /\ lock' = [lock EXCEPT ![m] = m]
              /\ asking' = [asking EXCEPT ![m] = Machine \ {m}]
              /\ Goto(Sup(m), "ask")
    /\ UNCHANGED <<files, hand, txt, ca, world, faults>>

\* Mutant: no tie-breaking.
Grants_FirstCome(p, m) == lock[p] \in {0, m}
\* handle_acquire_lock: a lower id takes the lock from its holder.
Grants(p, m) == lock[p] \in {0, m} \/ m < lock[p]

Ask(m, p) ==
    /\ pc[Sup(m)] = "ask" /\ p \in asking[m]
    /\ IF Grants(p, m)
         THEN /\ lock' = [lock EXCEPT ![p] = m]
              /\ asking' = [asking EXCEPT ![m] = @ \ {p}]
              /\ UNCHANGED pc
         ELSE /\ lock' = [lock EXCEPT ![m] = IF @ = m THEN 0 ELSE @]
              /\ asking' = [asking EXCEPT ![m] = {}]
              /\ Goto(Sup(m), "wait")
    /\ UNCHANGED <<files, hand, txt, ca, world, faults>>

\* A machine that does not answer does not deny; nor does it forget.
CallLost(m, p) ==
    /\ pc[Sup(m)] \in {"ask", "unlock"} /\ p \in asking[m]
    /\ Fault
    /\ asking' = [asking EXCEPT ![m] = @ \ {p}]
    /\ UNCHANGED <<files, pc, hand, lock, txt, ca, world>>

Begin(m) ==
    /\ pc[Sup(m)] = "ask" /\ asking[m] = {}
    /\ Goto(Sup(m), "account")
    /\ UNCHANGED <<files, hand, order, world, faults>>

Release(m) ==
    /\ pc[Sup(m)] = "release"
    /\ ca' = [ca EXCEPT ![m] = 0]
    /\ IF m \in replica
         THEN Goto(Sup(m), "rest") /\ UNCHANGED <<lock, asking>>
         ELSE /\ lock' = [lock EXCEPT ![m] = IF @ = m THEN 0 ELSE @]
              /\ asking' = [asking EXCEPT ![m] = Machine \ {m}]
              /\ Goto(Sup(m), "unlock")
    /\ UNCHANGED <<files, hand, txt, world, faults>>

\* handle_release_lock.
Unlock(m, p) ==
    /\ pc[Sup(m)] = "unlock" /\ p \in asking[m]
    /\ lock' = [lock EXCEPT ![p] = IF @ = m THEN 0 ELSE @]
    /\ asking' = [asking EXCEPT ![m] = @ \ {p}]
    /\ UNCHANGED <<files, pc, hand, txt, ca, world, faults>>

Unlocked(m) ==
    /\ pc[Sup(m)] = "unlock" /\ asking[m] = {}
    /\ Goto(Sup(m), "rest")
    /\ UNCHANGED <<files, hand, order, world, faults>>

\* The 600 seconds of a lock are over; while its holder works it is a fault.
Lapse(p) ==
    /\ lock[p] # 0
    /\ IF pc[Sup(lock[p])] \in {"rest", "check", "sync", "again", "lock", "wait"}
         THEN UNCHANGED faults
         ELSE Fault
    /\ lock' = [lock EXCEPT ![p] = 0]
    /\ UNCHANGED <<files, pc, hand, txt, asking, ca, world>>

---------------------------------------------------------------------------
(* provision_acme_certificate: an order at one authority, then at the      *)
(* other.                                                                  *)

\* The directory, the account key, the external account binding, the account.
Register(m) ==
    /\ pc[Sup(m)] = "account"
    /\ ca' = [ca EXCEPT ![m] = IF @ = 0 THEN 1 ELSE @]
    /\ Goto(Sup(m), "order")
    /\ UNCHANGED <<files, hand, lock, txt, asking, world, faults>>

\* The order, and the TXT record of every domain's challenge.
Publish(m) ==
    /\ pc[Sup(m)] = "order"
    /\ txt' = m
    /\ Goto(Sup(m), "prove")
    /\ UNCHANGED <<files, hand, lock, asking, ca, world, faults>>

\* The authority has seen the challenge: the order is ready.
Prove(m) ==
    /\ pc[Sup(m)] = "prove" /\ txt = m
    /\ Goto(Sup(m), "final")
    /\ UNCHANGED <<files, hand, order, world, faults>>

\* A call fails, the order turns invalid or does not get ready in time, as it must
\* when another machine has overwritten the record.  What was published stays.
GiveUp(m) ==
    IF ca[m] < 2 /\ CAs = 2
      THEN ca' = [ca EXCEPT ![m] = 2] /\ Goto(Sup(m), "account")
      ELSE Goto(Sup(m), "release") /\ UNCHANGED ca

OrderFails(m) ==
    /\ pc[Sup(m)] \in {"account", "order", "prove", "final"}
    /\ IF pc[Sup(m)] = "prove" /\ txt # m THEN UNCHANGED faults ELSE Fault
    /\ GiveUp(m)
    /\ UNCHANGED <<files, hand, lock, txt, asking, world>>

\* The order is finalised and the certificate downloaded.
Issue(m, n) ==
    /\ pc[Sup(m)] = "final"
    /\ ~ Held(n, m)
    /\ made' = [k \in Certificate |->
                  IF k = n THEN [names |-> names[m], fresh |-> TRUE]
                  ELSE IF Held(k, m) THEN made[k] ELSE Unmade]
    /\ hand' = [hand EXCEPT ![Sup(m)] = [cert |-> n, key |-> n]]
    /\ Goto(Sup(m), "cert")
    /\ UNCHANGED <<files, order, names, replica, faults>>

\* Every domain's record is emptied, whoever published it.
ClearTxt(m) ==
    /\ pc[Sup(m)] = "clear"
    /\ txt' = 0
    /\ Goto(Sup(m), "release")
    /\ UNCHANGED <<files, hand, lock, asking, ca, world, faults>>

---------------------------------------------------------------------------
(* A pair reaches the two files, then the resolver.                        *)

WriteFile(t, from, file, to) ==
    /\ pc[t] = from
    /\ disk' = [disk EXCEPT ![t[1]][file] = hand[t][file]]
    /\ Goto(t, to)
    /\ UNCHANGED <<mirror, live, hand, order, world, faults>>

WriteCert(t) == WriteFile(t, "cert", "cert", "key")
WriteKey(t) == WriteFile(t, "key", "key", "load")

\* A peer's or a restored bundle is written regardless; an order's is given up.
WriteFails(t) ==
    /\ pc[t] \in {"cert", "key"}
    /\ Fault
    /\ IF t[2] = "sup" /\ ca[t[1]] > 0
         THEN /\ GiveUp(t[1])
              /\ hand' = [hand EXCEPT ![t] = Nothing]
         ELSE /\ Goto(t, IF pc[t] = "cert" THEN "key" ELSE "load")
              /\ UNCHANGED <<ca, hand>>
    /\ UNCHANGED <<files, lock, txt, asking, world>>

\* The mirror, and update_from_pem.
Load(t) ==
    /\ pc[t] = "load"
    /\ mirror' = [mirror EXCEPT ![t[1]] = hand[t]]
    /\ live' = [live EXCEPT ![t[1]] = Loaded(t[1])]
    /\ hand' = [hand EXCEPT ![t] = Nothing]
    /\ Goto(t, IF t[2] = "poll" THEN "off"
               ELSE IF ca[t[1]] > 0 THEN "clear" ELSE "rest")
    /\ UNCHANGED <<disk, order, world, faults>>

---------------------------------------------------------------------------
(* The world.                                                              *)

\* Less than 30 days are left; only the first certificate comes to it (a bound).
Expire(n) ==
    /\ n = 1 /\ made[n].fresh
    /\ Fault
    /\ made' = [made EXCEPT ![n].fresh = FALSE]
    /\ UNCHANGED <<files, pc, hand, order, names, replica>>

\* A restart: memory is lost, the lock with it; the working directory may be.
Boot(m, kept) ==
    /\ mirror' = [mirror EXCEPT ![m] = IF kept THEN @ ELSE Nothing]
    /\ live' = [live EXCEPT ![m] = IF Full(disk[m]) THEN disk[m]
                                   ELSE IF kept /\ Full(mirror[m]) THEN mirror[m] ELSE Nothing]
    /\ lock' = [lock EXCEPT ![m] = 0]
    /\ asking' = [asking EXCEPT ![m] = {}]
    /\ ca' = [ca EXCEPT ![m] = 0]
    /\ hand' = [t \in Task |-> IF t[1] = m THEN Nothing ELSE hand[t]]
    /\ pc' = [t \in Task |->
                IF t[1] # m THEN pc[t]
                ELSE IF t[2] = "sup" THEN "check"
                ELSE IF live'[m] = Nothing THEN "sync" ELSE "off"]
    /\ UNCHANGED <<disk, txt, made, replica>>

Restart(m) == Fault /\ (\E kept \in BOOLEAN : Boot(m, kept)) /\ UNCHANGED names

\* A deployment with one more domain.
AddDomain(m) ==
    /\ m \in Growing /\ names[m] = 1
    /\ Fault
    /\ Boot(m, TRUE)
    /\ names' = [names EXCEPT ![m] = 2]

TaskStep(t) == SyncFails(t) \/ WriteCert(t) \/ WriteKey(t) \/ WriteFails(t) \/ Load(t)
                   \/ \E p \in Machine : SyncFrom(t, p)
SupStep(m) ==
    \/ Wake(m) \/ CheckFinds(m) \/ CheckRestores(m) \/ CheckMisses(m)
    \/ TakeLocal(m) \/ Begin(m) \/ Release(m) \/ Unlocked(m)
    \/ Register(m) \/ Publish(m) \/ Prove(m) \/ OrderFails(m) \/ ClearTxt(m)
    \/ \E p \in Machine : Ask(m, p) \/ CallLost(m, p) \/ Unlock(m, p)
    \/ \E n \in Certificate : Issue(m, n)
GoesOn(t) == TaskStep(t) \/ (t[2] = "sup" /\ SupStep(t[1]))
World ==
    \/ \E m \in Machine : Lapse(m) \/ Restart(m) \/ AddDomain(m)
    \/ \E n \in Certificate : Expire(n)

Next ==
    \/ \E t \in Task : TaskStep(t)
    \/ \E m \in Machine : SupStep(m)
    \/ World

Spec == Init /\ [][Next]_vars

\* Every task goes on, since its waits and calls have timeouts, and a lock expires.
Progress ==
    /\ \A t \in Task : WF_vars(GoesOn(t))
    /\ \A m \in Machine : WF_vars(Lapse(m))
FairSpec == Spec /\ Progress

---------------------------------------------------------------------------
(***************************************************************************)
(* Every variable has its type, and a lock is only held for a machine that *)
(* asked for it.                                                           *)
(***************************************************************************)
Pair == [cert : Certificate \cup {0}, key : Certificate \cup {0}]
TypeOK ==
    /\ disk \in [Machine -> Pair] /\ mirror \in [Machine -> Pair] /\ live \in [Machine -> Pair]
    /\ lock \in [Machine -> Machine \cup {0}] /\ txt \in Machine \cup {0}
    /\ pc \in [Task -> {"rest", "check", "sync", "again", "wait", "lock", "ask", "account", "order", "prove", "final",
                        "cert", "key", "load", "clear", "release", "unlock", "off"}]
    /\ hand \in [Task -> Pair]
    /\ asking \in [Machine -> SUBSET Machine] /\ ca \in [Machine -> 0..CAs]
    /\ made \in [Certificate -> [names : 0..2, fresh : BOOLEAN]]
    /\ names \in [Machine -> 1..2] /\ replica \subseteq Remote
    /\ faults \in 0..MaxFaults

(***************************************************************************)
(* Every machine ends up with a certificate that is not about to expire,   *)
(* its own or a peer's: no two machines deny each other the lock for ever, *)
(* and none waits for ever for one that crashed.                           *)
(***************************************************************************)
CertificateArrives == <>[](\A m \in Machine : Fresh(live[m]))

(***************************************************************************)
(* "ALL expected_domains are covered by the certificate's SANs": a machine *)
(* ends up with a certificate for every domain of its configuration.  A    *)
(* peer's bundle is taken whatever it names, the machine's own included,   *)
(* so a domain that is added stays uncovered while the certificate lasts.  *)
(***************************************************************************)
DomainsCovered ==
    <>[](\A m \in Machine : live[m].cert # 0 /\ made[live[m].cert].names >= names[m])

(***************************************************************************)
(* The served certificate and key belong together.  Two writers, a reader  *)
(* between the two writes, or a crash there leave a pair that does not     *)
(* match, and no later check asks.                                         *)
(***************************************************************************)
ServedPairMatches == \A m \in Machine : live[m].cert = live[m].key
=============================================================================
