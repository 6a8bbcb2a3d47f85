--------------------------- MODULE MCSessionStore ---------------------------
(* Instances of SessionStore for TLC: the two kinds of record a console    *)
(* session saves, one turn without and two turns with a runtime summary.   *)
EXTENDS SessionStore

MCTurnFiles == {"turn1", "turn2"}

MCShapes == {{"manifest", "body", "turn1"},
             {"manifest", "body", "runtime", "turn1", "turn2"}}

(* The smallest record, for the runs in which two commands overlap. *)
MCOneTurnFile == {"turn1"}

MCSmallShapes == {{"manifest", "turn1"}}
=============================================================================
