-------------------------- MODULE OutputGovernance --------------------------
(***************************************************************************)
(* The probe that generates the answers of a guided ask: an attempt, the   *)
(* check of its output, at most one repair, and the result that goes back  *)
(* to the ask.                                                             *)
(*                                                                         *)
(* Data.  Of an output matters whether it passes the probe's check, which  *)
(* looks at the whole text, and what the ask will see of it: no text, an   *)
(* unfit one or a fit one.  The ask judges a shortened text, and by the    *)
(* question: each of the two may refuse what the other one lets pass.      *)
(***************************************************************************)
EXTENDS Naturals

CONSTANT MaxRepairs     \* max_repair_attempts; more than one are one

ASSUME MaxRepairsAssumption == MaxRepairs \in Nat

VARIABLE call           \* the call of the model that is under way

Outputs == {o \in [passes : BOOLEAN, text : {"none", "unfit", "fit"}] :
               o.passes => o.text # "none"}

Silence == [passes |-> FALSE, text |-> "none"]

(* The result is success, performed (runtime_call_performed) and text.     *)
(* History: the model was reached; an output was good for probe and ask.   *)
Calls == [at : {"off", "first", "repair", "returned"},
          text : {"none", "unfit", "fit"}, success : BOOLEAN,
          performed : BOOLEAN, reached : BOOLEAN, fine : BOOLEAN]

NoCall == [at |-> "off", text |-> "none", success |-> FALSE,
           performed |-> FALSE, reached |-> FALSE, fine |-> FALSE]

Asked == [NoCall EXCEPT !.at = "first"]

(* Mutant: a second attempt whatever the first one brought.                *)
AlwaysRepair(output) == call.at = "first" /\ MaxRepairs > 0

NeedsRepair(output) == call.at = "first" /\ ~output.passes /\ MaxRepairs > 0

(* The output of the repair is the result even if it is poor again.  A run *)
(* that only reports errors has no text; it may not have got to the model. *)
Attempt(output, reached) ==
    LET heard == [call EXCEPT !.reached = @ \/ reached,
                              !.fine = @ \/ (output.passes /\ output.text = "fit")]
    IN  /\ call.at \in {"first", "repair"}
        /\ reached \/ output = Silence
        /\ call' = IF NeedsRepair(output) THEN [heard EXCEPT !.at = "repair"]
                   ELSE [heard EXCEPT !.at = "returned", !.text = output.text,
                                      !.success = TRUE, !.performed = TRUE]

(* Mutant: no output, so no call was performed.                            *)
FailUnreported(reached) ==
    /\ call.at \in {"first", "repair"}
    /\ call' = [call EXCEPT !.at = "returned", !.reached = @ \/ reached]

(* An attempt raises: the result is a failure, though the first output may *)
(* have had a text.                                                        *)
Fail(reached) ==
    /\ call.at \in {"first", "repair"}
    /\ call' = [call EXCEPT !.at = "returned", !.performed = TRUE,
                            !.reached = @ \/ reached]

Think ==
    \E reached \in BOOLEAN :
        (\E output \in Outputs : Attempt(output, reached)) \/ Fail(reached)
=============================================================================
