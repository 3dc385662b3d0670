------------------------------- MODULE Denial -------------------------------
(***************************************************************************)
(* validate_dnssec of src/src/dns/dnssec.rs: how a signed answer, or the   *)
(* NSEC and NSEC3 records that deny a name or a type, are judged.          *)
(*                                                                         *)
(* One signed zone and what is answered about it.  A name is the sequence  *)
(* of its labels left of the zone's apex, as the wire has them: the apex   *)
(* is <<>>.  A wildcard is a name whose first label is the asterisk: it    *)
(* gives its types to names that do not exist.  NSEC3's hash is any        *)
(* injective function; its parameters are the same in every record, and    *)
(* the code may refuse them.  A signature is when it holds, by which key   *)
(* it is made, which tag it names and what is peculiar about it; the       *)
(* cryptography is left out.  As the code does, the validation asks no     *)
(* signature of a denial's records.  Left out are delegations (and so the  *)
(* opt-out of NSEC3 and the denial of a DS), aliases out of the zone, and  *)
(* answer codes other than NOERROR, SERVFAIL and NXDOMAIN.                 *)
(***************************************************************************)
EXTENDS Naturals, Sequences, FiniteSets

CONSTANTS
    Canon,        \* the names of the zone, in canonical order
    Alias,        \* bound: the names that may be aliases
    Asterisk,     \* the label "*"
    Collide,      \* TRUE: two keys of the zone have one tag
    MaxRecords    \* bound: records in a wrong server's denial

VARIABLES
    zone,         \* the types each name has; none when it has no data
    hash,         \* the hash of every name
    nsec3,        \* the zone is denied by NSEC3, not by NSEC
    unhashed,     \* it is hashed in a way that hash_nsec3_name will not (more than 150 rounds)
    question,     \* what was asked
    response,     \* what came
    honest        \* history: the zone's own server would reply so

denialVars == <<zone, hash, nsec3, unhashed, question, response, honest>>

Name == {Canon[i] : i \in DOMAIN Canon}
Apex == <<>>
Type == {"A", "CNAME"}

Suffix(n, i) == SubSeq(n, i + 1, Len(n))

\* The canonical order of RFC 4034 6.1: label by label from the right, the shorter first.
Precedes(a, b) == \E k \in 0..Len(a) :
    /\ k <= Len(b) /\ Suffix(a, Len(a) - k) = Suffix(b, Len(b) - k)
    /\ k < Len(b) /\ (k = Len(a) \/ a[Len(a) - k] < b[Len(b) - k])

\* Labels are numbers, in their order; the apex comes first and all parents are listed.
ASSUME DenialAssumption ==
    /\ Canon \in Seq(Seq(Nat)) /\ Canon # <<>> /\ Canon[1] = Apex
    /\ \A i, j \in DOMAIN Canon : i < j => Precedes(Canon[i], Canon[j])
    /\ \A n \in Name : \A i \in 0..Len(n) : Suffix(n, i) \in Name
    /\ Asterisk \in Nat /\ Collide \in BOOLEAN /\ MaxRecords \in Nat

HasData(n) == zone[n] # {}
\* A name with data, or with data below it only (an empty non-terminal).
Exists(n) == \E d \in Name : HasData(d) /\ \E i \in 0..Len(d) : Suffix(d, i) = n

---------------------------------------------------------------------------
(* The zone's server.                                                      *)

Rank(n) == IF nsec3 THEN hash[n] ELSE CHOOSE i \in DOMAIN Canon : Canon[i] = n
Owner == IF nsec3 THEN {n \in Name : Exists(n)} ELSE {n \in Name : HasData(n)}
FirstOf(names) == CHOOSE n \in names : \A m \in names : Rank(n) <= Rank(m)
After(n) == LET later == {m \in Owner : Rank(m) > Rank(n)}
            IN  FirstOf(IF later = {} THEN Owner ELSE later)

DenialRecord(n) == [owner |-> n, next |-> After(n), types |-> zone[n]]
Chain == {DenialRecord(n) : n \in Owner}

\* The record that lies around a name that is no owner.
Around(n) == CHOOSE r \in Chain :
    LET before == {m \in Owner : Rank(m) < Rank(n)}
    IN  IF before = {} THEN \A m \in Owner : Rank(m) <= Rank(r.owner)
        ELSE r.owner \in before /\ \A m \in before : Rank(m) <= Rank(r.owner)
About(n) == IF n \in Owner THEN DenialRecord(n) ELSE Around(n)

\* Of a name that does not exist: the closest one above that does, and its wildcard.
Encloser(n) == CHOOSE i \in 1..Len(n) :
    Exists(Suffix(n, i)) /\ \A j \in 1..(i - 1) : ~Exists(Suffix(n, j))
Wildcard(n) == <<Asterisk>> \o Suffix(n, Encloser(n))
Synthesised(n) == ~Exists(n) /\ Wildcard(n) \in Name /\ Exists(Wildcard(n))
\* The types a name is answered with.
Given(n) == IF Synthesised(n) THEN zone[Wildcard(n)] ELSE zone[n]

\* That a name is not there itself, and what is proven of one that has not what was asked.
Absence(n) == IF nsec3 THEN Around(Suffix(n, Encloser(n) - 1)) ELSE Around(n)
ProofFor(n) ==
    IF Exists(n) THEN {About(n)}
    ELSE {Absence(n)} \cup {About(w) : w \in {Wildcard(n)} \cap Name}
         \cup (IF nsec3 THEN {DenialRecord(Suffix(n, Encloser(n)))} ELSE {})

---------------------------------------------------------------------------
(* What the code makes of it.                                              *)

\* Mutant: labels are compared from the left.
LabelAt_Left(n, i) == n[i]
LabelAt(n, i) == n[Len(n) + 1 - i]

\* canonical_name_cmp.
CanonicalLess(a, b) ==
    LET short == IF Len(a) < Len(b) THEN Len(a) ELSE Len(b)
        differ == {i \in 1..short : LabelAt(a, i) # LabelAt(b, i)}
    IN  IF differ = {} THEN Len(a) < Len(b)
        ELSE LET i == CHOOSE k \in differ : \A j \in differ : k <= j
             IN  LabelAt(a, i) < LabelAt(b, i)

\* NsecRecord::covers; a zone of one name covers nothing.
Covers(r, q) ==
    /\ r.owner # r.next
    /\ IF CanonicalLess(r.owner, r.next)
         THEN CanonicalLess(r.owner, q) /\ CanonicalLess(q, r.next)
         ELSE CanonicalLess(r.owner, q) \/ CanonicalLess(q, r.next)

\* hash_nsec3_name, if it has one; a record's own two hashes come with it.
HashOf(n) == IF unhashed THEN {} ELSE {hash[n]}
\* Mutant: the last record of the ring covers nothing.
CoversHash_Line(r, q) == \E h \in HashOf(q) : hash[r.owner] < h /\ h < hash[r.next]
\* nsec3_hash_covers, nsec3_hash_matches.
CoversHash(r, q) == \E h \in HashOf(q) :
    IF hash[r.owner] < hash[r.next] THEN hash[r.owner] < h /\ h < hash[r.next]
    ELSE h > hash[r.owner] \/ h < hash[r.next]
MatchesHash(r, q) == hash[r.owner] \in HashOf(q)

Nsec3Nxdomain(q, proof) ==
    \/ \E r \in proof : CoversHash(r, q)
    \/ \E i \in 1..Len(q) :
          /\ \E r \in proof : MatchesHash(r, Suffix(q, i))
          /\ \E r \in proof : CoversHash(r, Suffix(q, i - 1))

\* Mutant: a name that is an alias may have no other type.
Lacks_Alias(r, type) == type \notin r.types
Lacks(r, type) == type \notin r.types /\ (type = "CNAME" \/ "CNAME" \notin r.types)

Nsec3Nodata(q, type, proof) == \E r \in proof : MatchesHash(r, q) /\ Lacks(r, type)
NsecNxdomain(q, proof) == \E r \in proof : Covers(r, q)
NsecNodata(q, type, proof) == \E r \in proof : r.owner = q /\ Lacks(r, type)

\* Judged by its denial: NXDOMAIN even when there is an answer (an alias to a missing
\* name), and by the name that was asked.
Judged(r) == r.rcode = 3 \/ (r.rcode = 0 /\ ~r.answers)
Denies(q, r) ==
    CASE r.rcode = 3 -> IF nsec3 THEN Nsec3Nxdomain(q.name, r.proof) ELSE NsecNxdomain(q.name, r.proof)
      [] r.rcode = 0 -> IF nsec3 THEN Nsec3Nodata(q.name, q.type, r.proof)
                        ELSE NsecNodata(q.name, q.type, r.proof)

\* The first key of the packet with the signature's tag; no other is tried.
KeyFor(sig, r) == {i \in DOMAIN r.keys : r.keys[i].tag = sig.tag
                                          /\ \A j \in 1..(i - 1) : r.keys[j].tag # sig.tag}
\* What was signed is built anew of the records as they came: those of a wildcard bear
\* the name that was asked, and a name inside a record may be a pointer.
Rebuilt(sig) == sig.form \notin {"wildcard", "pointer"}
\* verify_dnssec_signature: an algorithm it does not know verifies nothing.
Verified(sig, key) == sig.by = key.id /\ sig.form # "unknown" /\ Rebuilt(sig)
Broken(sig, r) == \E i \in KeyFor(sig, r) : ~Verified(sig, r.keys[i])

\* The signatures in turn: one outside its window (with 300 s to spare) or that its key
\* does not verify is the end of it, and so is one that verifies.
SignedVerdict(r) ==
    LET ends == {i \in DOMAIN r.sigs : ~r.sigs[i].valid \/ KeyFor(r.sigs[i], r) # {}}
    IN  IF ends = {} THEN "secure"
        ELSE LET i == CHOOSE k \in ends : \A j \in ends : k <= j
             IN  IF ~r.sigs[i].valid \/ Broken(r.sigs[i], r) THEN "bogus" ELSE "secure"

Validate(q, r) ==
    CASE r.rcode = 2 -> "bogus"
      [] Judged(r) /\ r.proof # {} -> IF Denies(q, r) THEN "denied" ELSE "bogus"
      [] r.rcode # 2 /\ ~(Judged(r) /\ r.proof # {}) /\ r.sigs # <<>> -> SignedVerdict(r)
      [] OTHER -> IF r.ad THEN "secure" ELSE "insecure"

---------------------------------------------------------------------------
NoResponse == [rcode |-> 0, answers |-> FALSE, proof |-> {}, keys |-> <<>>, sigs |-> <<>>, ad |-> FALSE]

\* The keys of the zone: the second is on its way in.
Tag(id) == IF Collide THEN 1 ELSE id
Key(id) == [id |-> id, tag |-> Tag(id)]
Form == {"usual", "wildcard", "pointer", "unknown"}
Sig(id, valid, form) == [by |-> id, tag |-> Tag(id), valid |-> valid, form |-> form]

DenialInit ==
    /\ zone \in [Name -> {{}, {"A"}, {"CNAME"}}] /\ zone[Apex] = {"A"}
    /\ \A n \in Name : zone[n] = {"CNAME"} => n \in Alias
    /\ hash \in {h \in [Name -> DOMAIN Canon] : \A a, b \in Name : a # b => h[a] # h[b]}
    /\ nsec3 \in BOOLEAN
    /\ unhashed \in BOOLEAN /\ (unhashed => nsec3)
    /\ (nsec3 /\ ~unhashed) \/ \A i \in DOMAIN Canon : hash[Canon[i]] = i
    /\ question = [name |-> Apex, type |-> "A"]
    /\ response = NoResponse
    /\ honest = FALSE

Asked(q, r, isHonest) ==
    /\ question' = q
    /\ response' = r
    /\ honest' = isHonest
    /\ UNCHANGED <<zone, hash, nsec3, unhashed>>

\* The name or the type is not there.
Deny(q) ==
    /\ response = NoResponse
    /\ q.type \notin Given(q.name) /\ "CNAME" \notin Given(q.name)
    /\ Asked(q, [NoResponse EXCEPT !.rcode = IF Exists(q.name) \/ Synthesised(q.name) THEN 0 ELSE 3,
                                !.proof = ProofFor(q.name)], TRUE)

\* The name is an alias of one that is not there.
Dangle(q, target) ==
    /\ response = NoResponse
    /\ q.type # "CNAME" /\ "CNAME" \in Given(q.name)
    /\ ~Exists(target) /\ ~Synthesised(target)
    /\ Asked(q, [NoResponse EXCEPT !.rcode = 3, !.answers = TRUE, !.proof = ProofFor(target) \cup
                    {Absence(n) : n \in {m \in {q.name} : Synthesised(m)}}], TRUE)

Some(records) == {s \in SUBSET records : Cardinality(s) <= MaxRecords}

\* A server that is wrong about the name, with records of the zone.
Mistake(q, rcode, proof) ==
    /\ response = NoResponse /\ proof # {}
    /\ Asked(q, [NoResponse EXCEPT !.rcode = rcode, !.proof = proof], FALSE)

\* An answer, signed by the zone's key or by the next one, with or without the keys; what
\* a wildcard gives is signed under the wildcard's name and shows that the name is not there.
Answer(q, sigs, keys, ad) ==
    /\ response = NoResponse
    /\ q.type \in Given(q.name) \/ "CNAME" \in Given(q.name)
    /\ \A i \in DOMAIN sigs : sigs[i].form = "wildcard" <=> Synthesised(q.name)
    /\ Asked(q, [NoResponse EXCEPT !.answers = TRUE, !.sigs = sigs, !.keys = keys, !.ad = ad,
                    !.proof = {Absence(n) : n \in {m \in {q.name} : Synthesised(m)}}],
             \A i \in DOMAIN sigs : sigs[i].valid)

Fail(q) == response = NoResponse /\ Asked(q, [NoResponse EXCEPT !.rcode = 2], FALSE)

Beside(form) == IF form = "wildcard" THEN "wildcard" ELSE "usual"
DenialNext == \E n \in Name, t \in Type :
    LET q == [name |-> n, type |-> t]
    IN  \/ Deny(q) \/ Fail(q) \/ \E target \in Name : Dangle(q, target)
        \/ \E rcode \in {0, 3}, proof \in Some(Chain) : Mistake(q, rcode, proof)
        \/ \E keys \in {<<>>, <<Key(1), Key(2)>>}, ad, valid \in BOOLEAN, form \in Form :
              \E sigs \in {<<>>, <<Sig(2, valid, form)>>,
                             <<Sig(1, TRUE, Beside(form)), Sig(2, valid, form)>>} :
                 Answer(q, sigs, keys, ad)

DenialSpec == DenialInit /\ [][DenialNext]_denialVars

---------------------------------------------------------------------------
DenialTypeOK ==
    /\ response.rcode \in {0, 2, 3} /\ response.proof \subseteq Chain
    /\ Validate(question, response) \in {"bogus", "denied", "secure", "insecure"}

(***************************************************************************)
(* No records of a zone, whichever are sent and whatever the answer's      *)
(* code, prove to the validator that data a name has is not there.  (Data  *)
(* a name has of a wildcard may be: see WildcardsKept.)                    *)
(***************************************************************************)
DenialSound ==
    Validate(question, response) = "denied" =>
       /\ response.rcode = 3 => Given(question.name) = {} \/ Synthesised(question.name)
       /\ response.rcode = 0 => question.type \notin Given(question.name)
                             /\ (question.type # "CNAME" => "CNAME" \notin Given(question.name))

(***************************************************************************)
(* What a signed zone's own server replies is never taken for bogus: the   *)
(* ring of hashes and the canonical order are walked as the server walked  *)
(* them, and signatures are judged by the key they name.  Some replies are *)
(* excepted, that the code rejects: of an NSEC zone, for a name that only  *)
(* has data below it and when one name has data (dnssec.rs:387, 1373);     *)
(* every denial of a zone whose hash is refused (652); that an alias leads *)
(* nowhere (1532); that a wildcard has not the type (1332, 1373); and      *)
(* peculiar signatures with their key beside them (1114, 827).             *)
(***************************************************************************)
Excepted ==
    \/ ~nsec3 /\ (Owner = {Apex} \/ (Exists(question.name) /\ ~HasData(question.name)))
    \/ unhashed /\ Judged(response)
    \/ response.rcode = 3 /\ response.answers
    \/ response.rcode = 0 /\ ~response.answers /\ Synthesised(question.name)
    \/ response.keys # <<>> /\ \E i \in DOMAIN response.sigs : response.sigs[i].form # "usual"
HonestAccepted == honest /\ ~Excepted => Validate(question, response) # "bogus"

\* Both.
DenialsJudged == DenialSound /\ HonestAccepted

\* src/src/dns/dnssec.rs:1114 "Strictly reject any algorithm not cryptographically
\* supported.": a zone that is signed by such a one is not wrong, yet it is judged bogus.
PeculiarAccepted ==
    honest /\ response.answers /\ response.rcode = 0 => Validate(question, response) # "bogus"

\* src/src/dns/dnssec.rs:1266 "Cryptographically verifies NSEC3 denial of existence for
\* NXDOMAIN responses (RFC 5155 Section 8.4 - 8.6)", which ask that the wildcard is denied
\* too: a name that is covered is taken for missing, whatever a wildcard gives it.
WildcardsKept ==
    Validate(question, response) = "denied" /\ response.rcode = 3 => Given(question.name) = {}

\* An alias is no less there because the name it leads to is missing.
AliasesAccepted ==
    honest /\ response.rcode = 3 /\ response.answers => Validate(question, response) # "bogus"
=============================================================================
