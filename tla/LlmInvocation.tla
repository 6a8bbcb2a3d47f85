--------------------------- MODULE LlmInvocation ---------------------------
(***************************************************************************)
(* The governed LLM invocation of the ADK adapter: what it refuses before  *)
(* it contacts a model, the call it makes, the one repair retry it allows  *)
(* itself in a chat, and what its result says of all that.                 *)
(*                                                                         *)
(* Data.  A request is what the adapter tells apart.  An output is fine,   *)
(* a "stall" (it defers, asks back, or leaves the plan or the format that  *)
(* was asked for undone: poor only if one was), an "object" (a JSON object *)
(* with nothing to display, or what begins like JSON and is none), an      *)
(* "array" (JSON that is no object, and no plan and no format), or empty.  *)
(* The prompts, the routes and the wording of the stock answers are left   *)
(* out.                                                                    *)
(***************************************************************************)
EXTENDS Naturals, Sequences

VARIABLES
    llm,          \* where the invocation is
    request,      \* the request it serves
    completions,  \* history: completions the client was asked for
    heard,        \* history: the outputs the model gave
    result        \* the LlmInvocationResult, or Unanswered

llmVars == <<llm, request, completions, heard, result>>

Outputs == {"fine", "stall", "object", "array", "empty"}
Texts == Outputs \union {"stock", "none"}

(* demanding: the user asks for an answer, a plan or a format right away;  *)
(* formal: for a plan or a format, which an empty output does not provide. *)
Requests == [decision : {"allowed", "blocked", "need_evidence"},
             routed : BOOLEAN, prompted : BOOLEAN, chat : BOOLEAN,
             asks : {"nothing", "answer", "plan"}]

NoRequest == [decision |-> "blocked", routed |-> FALSE, prompted |-> FALSE,
              chat |-> FALSE, asks |-> "nothing"]

Failures == {"unanswered", "none", "governance_needs_evidence", "governance_blocked",
             "route_facts_invalid", "live_disabled", "dependency_failure",
             "route_construction_failure", "timeout_failure", "live_call_failure"}

Results == [failure : Failures, allowed : BOOLEAN, attempted : BOOLEAN,
            performed : BOOLEAN, text : Texts]

Unanswered == [failure |-> "unanswered", allowed |-> FALSE, attempted |-> FALSE,
               performed |-> FALSE, text |-> "none"]

(* Failed before the client was called, and after. *)
NotCalled(why, allowed) == [Unanswered EXCEPT !.failure = why, !.allowed = allowed]

(* Mutant: a call that times out is taken for one that was never made. *)
CalledUnlessLate(why) ==
    [failure |-> why, allowed |-> TRUE, attempted |-> why # "timeout_failure",
     performed |-> why # "timeout_failure", text |-> "none"]

Called(why) == [failure |-> why, allowed |-> TRUE, attempted |-> TRUE,
                performed |-> TRUE, text |-> "none"]

LlmInit ==
    /\ llm = "idle"
    /\ request = NoRequest
    /\ completions = 0
    /\ heard = <<>>
    /\ result = Unanswered

-----------------------------------------------------------------------------
(* What a chat asks to be repaired, and what a user is shown.  Only what   *)
(* decodes to an object, or does not decode, counts as JSON with nothing   *)
(* to display: an array is taken for a text.                               *)

RepairNeeded(output) ==
    /\ request.chat
    /\ \/ output = "object"
       \/ output = "stall" /\ request.asks # "nothing"
       \/ output \in {"empty", "array"} /\ request.asks = "plan"

(* Mutant: an object is shown as it came. *)
ShownRaw(output) == output

(* _normalize_provider_output_text: a chat never shows a JSON object.  An  *)
(* array it shows as it is.                                                *)
Shown(output) == IF request.chat /\ output = "object" THEN "stock" ELSE output

Succeed(output) ==
    /\ llm' = "idle"
    /\ result' = [Called("none") EXCEPT !.text = Shown(output)]

Fail(outcome) ==
    /\ llm' = "idle"
    /\ result' = outcome

-----------------------------------------------------------------------------
(* The invocation, one action per exit or call of the code.                *)

Refusal(r, liveEnabled) ==
    IF r.decision = "need_evidence" THEN "governance_needs_evidence"
    ELSE IF r.decision = "blocked" THEN "governance_blocked"
    ELSE IF ~r.routed THEN "route_facts_invalid"
    ELSE IF ~liveEnabled THEN "live_disabled"
    ELSE IF ~r.prompted THEN "live_call_failure"
    ELSE "none"

Invoke(r, liveEnabled) ==
    LET refusal == Refusal(r, liveEnabled)
        governed == r.decision = "allowed" /\ r.routed
    IN
    /\ llm = "idle"
    /\ request' = r
    /\ completions' = 0
    /\ heard' = <<>>
    /\ IF refusal = "none"
       THEN llm' = "route" /\ result' = Unanswered
       ELSE Fail(NotCalled(refusal, governed))

BuildRoute ==
    /\ llm = "route"
    /\ \/ llm' = "call" /\ UNCHANGED result
       \/ \E why \in {"dependency_failure", "route_construction_failure"} :
              Fail(NotCalled(why, TRUE))
    /\ UNCHANGED <<request, completions, heard>>

(* The client itself cannot be imported: nothing was contacted. *)
ClientMissing ==
    /\ llm = "call"
    /\ Fail(NotCalled("dependency_failure", TRUE))
    /\ UNCHANGED <<request, completions, heard>>

CallFails ==
    /\ llm = "call"
    /\ completions' = completions + 1
    /\ \E why \in {"timeout_failure", "live_call_failure"} : Fail(Called(why))
    /\ UNCHANGED <<request, heard>>

CallAnswers ==
    /\ llm = "call"
    /\ completions' = completions + 1
    /\ \E output \in Outputs :
           /\ heard' = <<output>>
           /\ IF RepairNeeded(output)
              THEN llm' = "retry" /\ UNCHANGED result
              ELSE Succeed(output)
    /\ UNCHANGED request

(* Mutant: a repair that fails starts the invocation over. *)
RetryStartsOver ==
    /\ llm = "retry"
    /\ llm' = "call"
    /\ completions' = 0
    /\ heard' = <<>>
    /\ UNCHANGED <<request, result>>

(* Mutant: a repair that fails is tried again. *)
RetryAgain ==
    /\ llm = "retry"
    /\ completions' = completions + 1
    /\ UNCHANGED <<llm, request, heard, result>>

(* The repair is one more call.  It fails, or answers nothing: the first   *)
(* output stands.                                                          *)
RetryFails ==
    /\ llm = "retry"
    /\ completions' = completions + 1
    /\ \E output \in {"none", "empty"} :
           heard' = IF output = "none" THEN heard ELSE Append(heard, output)
    /\ Succeed(heard[1])
    /\ UNCHANGED request

(* Mutant: the repaired output is judged by the reason of the first one. *)
RetryJudgedByFirst ==
    /\ llm = "retry"
    /\ completions' = completions + 1
    /\ \E output \in Outputs \ {"empty"} :
           /\ heard' = Append(heard, output)
           /\ Succeed(IF RepairNeeded(heard[1]) THEN "stock" ELSE output)
    /\ UNCHANGED request

RetryAnswers ==
    /\ llm = "retry"
    /\ completions' = completions + 1
    /\ \E output \in Outputs \ {"empty"} :
           /\ heard' = Append(heard, output)
           /\ Succeed(IF RepairNeeded(output) THEN "stock" ELSE output)
    /\ UNCHANGED request

LlmStep == BuildRoute \/ ClientMissing \/ CallFails \/ CallAnswers
           \/ RetryFails \/ RetryAnswers

LlmNext == (\E r \in Requests, on \in BOOLEAN : Invoke(r, on)) \/ LlmStep

LlmSpec == LlmInit /\ [][LlmNext]_llmVars

-----------------------------------------------------------------------------
(* Properties.                                                             *)

LlmTypeOK ==
    /\ llm \in {"idle", "route", "call", "retry"}
    /\ request \in Requests
    /\ completions \in 0 .. 2
    /\ heard \in Seq(Outputs) /\ Len(heard) <= completions
    /\ result \in Results

(* A result says the runtime call was performed exactly when the client    *)
(* was asked for a completion, however that ended, and allowed only what   *)
(* governance allowed; a success has performed one.                        *)
ResultIsTruthful ==
    llm = "idle" =>
        /\ result.performed <=> completions > 0
        /\ result.attempted <=> result.performed
        /\ result.allowed => request.decision = "allowed"
        /\ result.performed => result.allowed
        /\ result.failure = "none" => Len(heard) > 0

(* A repair never costs the user an answer: a fine output is what is       *)
(* shown, whichever call gave it, a chat never shows a JSON object without *)
(* a text to display, and a stock answer stands in only where each output  *)
(* heard was poor.                                                         *)
FineOutputIsKept ==
    llm = "idle" /\ result.failure = "none" =>
        LET said == {heard[i] : i \in 1 .. Len(heard)} IN
        /\ "fine" \in said => result.text = "fine"
        /\ result.text = "object" => ~request.chat
        /\ result.text = "stock" => \A output \in said \ {"empty"} : RepairNeeded(output)

=============================================================================
