-------------------------------- MODULE Auth --------------------------------
(***************************************************************************)
(* View tokens and roles: src/src/security/auth.rs, the token's issue in   *)
(* src/src/server/api/system.rs.  Nothing in the program revokes a token:  *)
(* the functions that do (state.rs) are never called.                      *)
(*                                                                         *)
(* Machines share the master key and the token secret, not their clocks.   *)
(* One tick is the tolerance of verify_hmac_token, 60 s, which is also the *)
(* least lifetime of a token.  A signature is that its fields were signed  *)
(* with the secret; a path is a model value; how candidates are trimmed    *)
(* and percent-decoded is left out.                                        *)
(***************************************************************************)
EXTENDS Naturals, FiniteSets

CONSTANTS
    Machine,           \* 1 is the slowest clock
    Skew,              \* how far the others are ahead of it, in ticks
    Path,              \* paths a token may be for
    Ttl,               \* lifetimes that are asked for
    FieldLimit,        \* lifetimes from here do not fit the field (2^32 s)
    LastTick           \* bound on time

\* The clocks that a token must travel between agree within the tolerance.
ASSUME AuthAssumption == Skew \in 0..1 /\ Ttl \subseteq Nat /\ LastTick \in Nat

VARIABLES
    clock,             \* time on the slowest machine
    token,             \* the token that was issued last
    born               \* history: when it was issued

authVars == <<clock, token, born>>

Now(m) == IF m = 1 THEN clock ELSE clock + Skew

\* Mutant: a token lives as long as it was asked to, though it be no tick.
Lifetime_Asked(ttl) == ttl
\* ttl_secs.max(60).
Lifetime(ttl) == IF ttl < 1 THEN 1 ELSE ttl

\* The scopes a token is signed for: the one it was made with, VIEW_ONLY for the root
\* and the dashboard.
Scope == Path \cup {"VIEW_ONLY"}
NoToken == [ts |-> 0, ttl |-> 0, scope |-> "none"]

AuthInit ==
    /\ clock = 0
    /\ token = NoToken
    /\ born = 0

\* handle_get_token with the master key: generate_hmac_token.
Issue(m, scope, ttl) ==
    /\ token' = [ts |-> Now(m), ttl |-> Lifetime(ttl), scope |-> scope]
    /\ born' = clock
    /\ UNCHANGED clock

\* is_token_well_formed: eighty characters, so the lifetime has eight digits.
WellFormed(k) == k # NoToken /\ k.ttl < FieldLimit

\* Mutant: no tolerance for a clock that is behind the issuer's.
InWindow_Exact(k, m) == Now(m) >= k.ts /\ Now(m) <= k.ts + k.ttl
InWindow(k, m) == Now(m) + 1 >= k.ts /\ Now(m) <= k.ts + k.ttl

\* verify_hmac_token, over the scopes it tries.
Verifies(k, m, path) == WellFormed(k) /\ InWindow(k, m) /\ k.scope \in {"VIEW_ONLY", path}

\* extract_auth_candidate: the first place that has one, and no other is tried.
Place == {"param", "bearer", "header", "cookie"}
Precedence(p) == CASE p = "param" -> 1 [] p = "bearer" -> 2 [] p = "header" -> 3 [] p = "cookie" -> 4
First(held) == CHOOSE p \in DOMAIN held : \A q \in DOMAIN held : Precedence(p) <= Precedence(q)

RoleOf(candidate, m, path) ==
    CASE candidate = "key" -> "admin"
      [] candidate = "token" /\ Verifies(token, m, path) -> "view"
      [] OTHER -> "none"

\* check_auth: a request that claims to be a peer's is judged by its bearer alone.
Role(held, peer, m, path) ==
    IF peer THEN (IF "bearer" \in DOMAIN held /\ held["bearer"] = "key" THEN "admin" ELSE "none")
    ELSE IF held = <<>> THEN "none"
    ELSE RoleOf(held[First(held)], m, path)

Tick ==
    /\ clock < LastTick
    /\ clock' = clock + 1
    /\ UNCHANGED <<token, born>>

AuthNext ==
    \/ \E m \in Machine, scope \in Scope, ttl \in Ttl : Issue(m, scope, ttl)
    \/ Tick

AuthSpec == AuthInit /\ [][AuthNext]_authVars

---------------------------------------------------------------------------
AuthTypeOK ==
    /\ clock \in 0..LastTick
    /\ token.scope \in Scope \cup {"none"}
    /\ born <= clock

GoodFor(m, path) == \A p \in Place : Role([q \in {p} |-> "token"], FALSE, m, path) = "view"

(***************************************************************************)
(* A token opens its path on every machine whose clock is within the       *)
(* tolerance of the issuer's, from the moment it is issued to the last     *)
(* tick of its life, however short; and none takes it once it is older     *)
(* than its life and the tolerance.                                        *)
(***************************************************************************)
TokenTravels ==
    token # NoToken /\ token.ttl < FieldLimit =>
       \A m \in Machine, path \in Path :
          /\ token.scope \in {"VIEW_ONLY", path} /\ (clock = born \/ clock < born + token.ttl)
                => GoodFor(m, path)
          /\ clock > born + token.ttl + 1 => ~GoodFor(m, path)
=============================================================================
