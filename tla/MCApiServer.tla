----------------------------- MODULE MCApiServer -----------------------------
(* Bounded instance of ApiServer and of the policy engine it drives. *)
EXTENDS ApiServer

MCSpelling == {"plain", "padded"}

\* Switches, lists and limits move a few at a time; the velocity limit of 1 is
\* raised and lowered.
MCUpdates ==
    {[blacklist |-> {<<"d1", "plain">>}, velocityLimit |-> 2],
     [blacklist |-> {}, velocityLimit |-> 1],
     [whitelistOnly |-> TRUE, enabled |-> FALSE, maxDaily |-> 4],
     [enabled |-> TRUE]}
=============================================================================
