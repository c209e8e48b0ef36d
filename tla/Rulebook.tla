------------------------------- MODULE Rulebook -------------------------------
(***************************************************************************)
(* What a project's rulebook promises its readers: one version is in force   *)
(* at a time, versions only go up, each in force is issued, and what was     *)
(* issued stays.                                                             *)
(***************************************************************************)
EXTENDS Naturals

VARIABLES inForce,   \* the MAJORs in force
          issued     \* the <<MAJOR, MINOR>> pins

Init == inForce = {} /\ issued = {}

Publish ==
    /\ \E v \in inForce' : inForce' = {v} /\ issued' = issued \cup {<<v, 0>>}
    /\ \A v \in inForce', u \in inForce : u < v

\* One commit may issue several.
Amend ==
    /\ inForce # {} /\ UNCHANGED inForce
    /\ issued \subseteq issued'
    /\ \A pin \in issued' \ issued : pin[2] > 0 /\ <<pin[1], pin[2] - 1>> \in issued'

Spec == Init /\ [][Publish \/ Amend]_<<inForce, issued>>

=============================================================================
