------------------------------ MODULE MCParts ------------------------------
(***************************************************************************)
(* The parts of the server whose models are small and share no state,      *)
(* checked for safety in one run of TLC.  Which part runs is chosen in the *)
(* initial state and never changes, and the others rest.  So the           *)
(* behaviours are those of the ten modules and the states are the sum of   *)
(* theirs.                                                                 *)
(*                                                                         *)
(* The modules are extended, take their bounds from the cfg and rest in    *)
(* their initial state.                                                    *)
(***************************************************************************)
EXTENDS Answers, Wire, Denial, RateLimit, Auth, Shield, Anchors, Update, Cron,
        Names

CONSTANT Part      \* the parts that are run

VARIABLE part

partsVars == <<part, answersVars, wireVars, rateVars, authVars, shieldVars, anchorsVars,
               denialVars, namesVars, updateVars, cronVars>>

---------------------------------------------------------------------------
(* Bounds of Denial and of Names that are sequences.                       *)

\* The apex, the wildcard below it, b and a.b.
FourNames == << <<>>, <<0>>, <<2>>, <<1, 2>> >>
Parent == {<<2>>}

\* A plain label, one with the octets that a presentation must escape, and one with
\* a control octet and digits that look like an escape's.
ThreeLabels ==
    {<<"letter">>, <<"capital", "dot", "backslash">>,
     <<"backslash", "digit", "digit", "digit", "control">>}

---------------------------------------------------------------------------
PartsInit ==
    /\ part \in Part
    /\ AnswersInit /\ (part # "answers" => rule = "none")
    /\ WireInit /\ RateInit /\ AuthInit /\ AnchorsInit
    /\ ShieldInit /\ (part # "shield" => saved.sources = {})
    /\ UpdateInit
    /\ CronInit /\ (part # "cron" => now = 0 /\ parses)
    /\ part # "update" => ~volume /\ ~writable /\ host = CHOOSE h \in Host : TRUE
    /\ IF part = "denial" THEN DenialInit
       ELSE /\ zone = [n \in Name |-> IF n = Apex THEN {"A"} ELSE {}] /\ hash = [n \in Name |-> 1]
            /\ nsec3 = FALSE /\ unhashed = FALSE /\ question = [name |-> Apex, type |-> "A"]
            /\ response = NoResponse /\ honest = FALSE
    /\ NamesInit /\ (part # "names" => strict)
\* It is part p's step: the others' variables stay as they are.
Turn(p) ==
    /\ part = p /\ UNCHANGED part
    /\ IF p = "denial" THEN TRUE ELSE UNCHANGED denialVars
    /\ IF p = "answers" THEN TRUE ELSE UNCHANGED answersVars
    /\ IF p = "wire" THEN TRUE ELSE UNCHANGED wireVars
    /\ IF p = "names" THEN TRUE ELSE UNCHANGED namesVars
    /\ IF p = "rates" THEN TRUE ELSE UNCHANGED rateVars
    /\ IF p = "auth" THEN TRUE ELSE UNCHANGED authVars
    /\ IF p = "shield" THEN TRUE ELSE UNCHANGED shieldVars
    /\ IF p = "anchors" THEN TRUE ELSE UNCHANGED anchorsVars
    /\ IF p = "update" THEN TRUE ELSE UNCHANGED updateVars
    /\ IF p = "cron" THEN TRUE ELSE UNCHANGED cronVars

PartsNext ==
    \/ Turn("answers") /\ AnswersNext
    \/ Turn("wire") /\ WireNext
    \/ Turn("denial") /\ DenialNext
    \/ Turn("names") /\ NamesNext
    \/ Turn("rates") /\ RateNext
    \/ Turn("auth") /\ AuthNext
    \/ Turn("shield") /\ ShieldNext
    \/ Turn("anchors") /\ AnchorsNext
    \/ Turn("update") /\ UpdateNext
    \/ Turn("cron") /\ CronNext

PartsSpec == PartsInit /\ [][PartsNext]_partsVars

---------------------------------------------------------------------------
\* Type invariant: the variables of every part are what its module says.
PartsTypeOK ==
    /\ part = "answers" => AnswersTypeOK
    /\ part = "wire" => WireTypeOK
    /\ part = "rates" => RateTypeOK
    /\ part = "auth" => AuthTypeOK
    /\ part = "shield" => ShieldTypeOK
    /\ part = "anchors" => AnchorsTypeOK
    /\ part = "denial" => DenialTypeOK
    /\ part = "names" => NamesTypeOK
    /\ part = "update" => UpdateTypeOK
    /\ part = "cron" => CronTypeOK
=============================================================================
