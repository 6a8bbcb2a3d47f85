--------------------------- MODULE ControlledRun ---------------------------
(***************************************************************************)
(* One controlled ADK run, from the request a product gateway passes on to *)
(* the summary it gets back: the service that is resolved for the run, the *)
(* preflight, the workflow, the agent shell, the LLM invocation and the    *)
(* function tool.  Four places of the code decide for themselves whether   *)
(* the run is live (LiveArgs, NoLivePromise, LiveRequested and the gate);  *)
(* nothing but their agreement keeps a run without approval away from the  *)
(* model.                                                                  *)
(*                                                                         *)
(* Data.  The request is the set of controls that are given in it: the     *)
(* refs by their presence, the flags by their being true.  One audit ref   *)
(* serves the gate and the approval, so the two always match.  The other   *)
(* users of the LLM service (the ask, the operation flows) bring their own *)
(* consents and are the direct invocation.                                 *)
(***************************************************************************)
EXTENDS LlmInvocation

Approvals == {"approved", "approval_ref", "audit_ref", "evidence_ref", "summary_ref"}
LiveFlags == {"request_live", "request_ollama", "allow_live", "allow_ollama"}
LiveArgs == LiveFlags \union {"live_ref"}
ToolArgs == {"tool_allowed", "tool_refused", "tool_ref"}
Controls == {c \in SUBSET (Approvals \union LiveArgs \union ToolArgs) :
                 ~({"tool_allowed", "tool_refused"} \subseteq c)}

VARIABLES
    step,      \* the next step of the run
    controls,  \* the controls of the request
    chat,      \* it is a turn of a chat
    service,   \* the LLM service resolved for the run
    done,      \* history: what has run, besides the model
    report     \* the summary given back

runVars == <<step, controls, chat, service, done, report>>
allRunVars == <<runVars, llmVars>>

Deeds == {"workflow", "live_shell", "tool"}

Reports == [status : {"none", "blocked", "success", "raised"}, llmCalled : BOOLEAN,
            promisesNoLive : BOOLEAN, toolRan : BOOLEAN, text : Texts]

NoReport == [status |-> "none", llmCalled |-> FALSE, promisesNoLive |-> FALSE,
             toolRan |-> FALSE, text |-> "none"]

RunInit ==
    /\ step = "idle"
    /\ controls = {}
    /\ chat = FALSE
    /\ service = "no_live"
    /\ done = {}
    /\ report = NoReport

-----------------------------------------------------------------------------
(* What decides whether a run may execute, and whether it is live.         *)

(* Mutant: any live argument brings the live service. *)
AnyLiveArg(c) == c \intersect LiveArgs # {}

(* The chooser of the service. *)
LiveArgsSatisfied(c) == LiveArgs \subseteq c

(* The builder of the request: does_not_trigger_live_llm. *)
NoLivePromise(c) == ~(LiveArgs \subseteq c)

(* The entry: which of the two preflights applies. *)
LiveRequested(c) == LiveFlags \subseteq c /\ ~NoLivePromise(c)

(* evaluate_runtime_productization_gating: runtime_execution_ready. *)
GateReady(c) ==
    /\ {"approved", "evidence_ref", "summary_ref", "audit_ref"} \subseteq c
    /\ "request_live" \in c => "allow_live" \in c
    /\ "request_ollama" \in c => {"allow_ollama", "request_live"} \subseteq c

NoLivePreflight(c) ==
    /\ GateReady(c)
    /\ "approval_ref" \in c
    /\ NoLivePromise(c)
    /\ c \intersect {"request_live", "request_ollama"} = {}

LivePreflight(c) ==
    /\ GateReady(c)
    /\ {"approval_ref", "live_ref"} \union LiveFlags \subseteq c
    /\ ~NoLivePromise(c)

Preflight(c) == IF LiveRequested(c) THEN LivePreflight(c) ELSE NoLivePreflight(c)

(* _tool_confirmation_granted, for a tool that has to be confirmed: granted *)
(* unless refused, or only referred to and still to be decided.            *)
ToolGranted(c) ==
    \/ "tool_allowed" \in c
    \/ c \intersect ToolArgs = {} /\ "approved" \in c

-----------------------------------------------------------------------------
(* The run.                                                                *)

RequestRun(c, isChat) ==
    /\ step = "idle"
    /\ step' = "resolve"
    /\ controls' = c
    /\ chat' = isChat
    /\ UNCHANGED <<service, done, report, llmVars>>

Finish(r) == step' = "reported" /\ report' = r

(* No runtime service was injected into the gateway. *)
RefuseWithoutRuntime ==
    /\ step = "resolve"
    /\ Finish([NoReport EXCEPT !.status = "blocked"])
    /\ UNCHANGED <<controls, chat, service, done, llmVars>>

ResolveService ==
    /\ step = "resolve"
    /\ step' = "preflight"
    /\ service' = IF LiveArgsSatisfied(controls) THEN "live" ELSE "no_live"
    /\ UNCHANGED <<controls, chat, done, report, llmVars>>

(* An exception that no handler of the run takes. *)
Raise ==
    /\ Finish([NoReport EXCEPT !.status = "raised"])
    /\ UNCHANGED <<controls, chat, service>>

ResolvingRaises ==
    /\ step = "resolve"
    /\ Raise
    /\ UNCHANGED <<done, llmVars>>

CheckPreflight ==
    /\ step = "preflight"
    /\ IF Preflight(controls)
       THEN step' = "workflow" /\ UNCHANGED report
       ELSE Finish([NoReport EXCEPT !.status = "blocked", !.promisesNoLive = TRUE])
    /\ UNCHANGED <<controls, chat, service, done, llmVars>>

RunWorkflow ==
    /\ step = "workflow"
    /\ step' = "shell"
    /\ done' = done \union {"workflow"}
    /\ UNCHANGED <<controls, chat, service, report, llmVars>>

(* The runtime, or the evidence built of its result. *)
WorkflowRaises ==
    /\ step = "workflow"
    /\ \E ran \in {{}, {"workflow"}} : done' = done \union ran
    /\ Raise
    /\ UNCHANGED llmVars

(* The agent shell of a live run calls the model on its own account.  What *)
(* it raises is caught, before that call or after it.                      *)
RunShell ==
    /\ step = "shell"
    /\ step' = "invoke"
    /\ \E ran \in {{}, {"live_shell"}} :
           done' = done \union (IF LiveRequested(controls) THEN ran ELSE {})
    /\ UNCHANGED <<controls, chat, service, report, llmVars>>

(* Both branches pass a precondition that is allowed, and the default      *)
(* route; only a live chat says that it is one.                            *)
InvokeLlm ==
    /\ step = "invoke"
    /\ step' = "llm"
    /\ \E asks \in {"nothing", "answer", "plan"} :
           Invoke([decision |-> "allowed", routed |-> TRUE, prompted |-> TRUE,
                   chat |-> chat /\ LiveRequested(controls), asks |-> asks],
                  service = "live")
    /\ UNCHANGED <<controls, chat, service, done, report>>

StepLlm == LlmStep /\ UNCHANGED runVars

SummariseLlm ==
    /\ step = "llm"
    /\ llm = "idle"
    /\ step' = "tool"
    /\ UNCHANGED <<controls, chat, service, done, report, llmVars>>

(* The builder of the readonly bundle is not guarded. *)
SummaryRaises ==
    /\ step = "llm"
    /\ llm = "idle"
    /\ Raise
    /\ UNCHANGED <<done, llmVars>>

(* Mutant: a call is reported only if it succeeded. *)
CompletedIfAnswered(toolRan) ==
    [status |-> "success",
     llmCalled |-> LiveRequested(controls) /\ result.failure = "none",
     promisesNoLive |-> ~LiveRequested(controls),
     toolRan |-> toolRan,
     text |-> result.text]

Completed(toolRan) ==
    [status |-> "success",
     llmCalled |-> LiveRequested(controls) /\ result.performed,
     promisesNoLive |-> ~LiveRequested(controls),
     toolRan |-> toolRan,
     text |-> result.text]

RunTool ==
    /\ step = "tool"
    /\ done' = done \union (IF ToolGranted(controls) THEN {"tool"} ELSE {})
    /\ Finish(Completed(ToolGranted(controls)))
    /\ UNCHANGED <<controls, chat, service, llmVars>>

(* Whatever raises around the tool, before or after it ran, is caught and  *)
(* reported as a tool that was not run.                                    *)
ToolRaises ==
    /\ step = "tool"
    /\ \E ran \in {{}, {"tool"}} :
           done' = done \union (IF ToolGranted(controls) THEN ran ELSE {})
    /\ Finish(Completed(FALSE))
    /\ UNCHANGED <<controls, chat, service, llmVars>>

RunStep ==
    \/ RefuseWithoutRuntime \/ ResolveService \/ ResolvingRaises \/ CheckPreflight
    \/ RunWorkflow \/ WorkflowRaises \/ RunShell \/ InvokeLlm \/ StepLlm
    \/ SummariseLlm \/ SummaryRaises \/ RunTool \/ ToolRaises

(* Another user of the service. *)
InvokeDirectly ==
    /\ step = "idle"
    /\ step' = "direct"
    /\ \E r \in Requests, on \in BOOLEAN : Invoke(r, on)
    /\ UNCHANGED <<controls, chat, service, done, report>>

(* The caller has its answer; the next one starts anew. *)
Reset ==
    /\ step' = "idle"
    /\ controls' = {}
    /\ chat' = FALSE
    /\ service' = "no_live"
    /\ done' = {}
    /\ report' = NoReport
    /\ llm' = "idle"
    /\ request' = NoRequest
    /\ completions' = 0
    /\ heard' = <<>>
    /\ result' = Unanswered

Close ==
    /\ \/ step = "reported"
       \/ step = "direct" /\ llm = "idle"
    /\ Reset

RunNext ==
    \/ step = "idle" /\ \E c \in Controls, isChat \in BOOLEAN : RequestRun(c, isChat)
    \/ InvokeDirectly
    \/ RunStep
    \/ Close

RunSpec == RunInit /\ LlmInit /\ [][RunNext]_allRunVars

-----------------------------------------------------------------------------
(* Properties.                                                             *)

RunTypeOK ==
    /\ step \in {"idle", "resolve", "preflight", "workflow", "shell", "invoke",
                 "llm", "tool", "reported", "direct"}
    /\ controls \in Controls
    /\ chat \in BOOLEAN
    /\ service \in {"no_live", "live"}
    /\ done \in SUBSET Deeds
    /\ report \in Reports

(* Nothing runs without its approvals, though nobody checks them where it  *)
(* runs: the workflow has the five that every run needs, the model is      *)
(* called, by the shell or by the invocation, only with all five live      *)
(* arguments besides, and the tool runs only where its own confirmation    *)
(* was not refused or left open.                                           *)
NothingWithoutApproval ==
    step # "direct" =>
        /\ done # {} \/ completions > 0 => Approvals \subseteq controls
        /\ "live_shell" \in done \/ completions > 0 => LiveArgs \subseteq controls
        /\ "tool" \in done =>
               /\ "tool_refused" \notin controls
               /\ "tool_ref" \in controls => "tool_allowed" \in controls

(* The summary of a run is true of it: it reports a call of the model      *)
(* exactly if the invocation made one, timed out or not; a run that says   *)
(* it does not call a model has not, and a blocked one has run nothing; a  *)
(* tool reported as run has run.                                           *)
ReportIsTruthful ==
    /\ report.status \in {"success", "blocked"} =>
           (report.llmCalled <=> completions > 0)
    /\ report.promisesNoLive => completions = 0 /\ "live_shell" \notin done
    /\ report.status = "blocked" => done = {}
    /\ report.toolRan => "tool" \in done

=============================================================================
