---------------------------- MODULE MCPublication ----------------------------
(* One legal owner and an heir, two guidelines, a watched policy page.        *)
EXTENDS Publication, TLC

CONSTANTS legal, heir, admin, first, second, g1, g2

Office == (legal :> {"sign"}) @@ (admin :> {"harvest", "matrix"})
Handover == (legal :> {"sign", "revoke"}) @@ (heir :> {"sign"})
            @@ (admin :> {"harvest", "edit", "matrix", "reassign"})
Shelf == (first :> {g1}) @@ (second :> {g2})
BothShelves == [p \in {first, second} |-> {g1, g2}]

=============================================================================
