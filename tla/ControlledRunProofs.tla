------------------------ MODULE ControlledRunProofs ------------------------
(* Proofs about ControlledRun, of every run and of every set of controls.  *)
EXTENDS ControlledRun, LlmInvocationProofs

(* What a run knows at each of its steps: the model has not been called    *)
(* before the invocation, nothing has run before the preflight, which      *)
(* still holds of the controls afterwards, and the service is live exactly *)
(* where the controls have all the live arguments.                         *)
RunPhases ==
    /\ step \in {"idle", "resolve", "preflight", "workflow", "shell", "invoke"} =>
           llm = "idle" /\ completions = 0
    /\ step \in {"tool", "reported"} => llm = "idle"
    /\ step = "llm" /\ llm # "idle" => service = "live"
    /\ step \in {"idle", "resolve", "preflight", "workflow"} => done = {}
    /\ step \in {"preflight", "workflow", "shell", "invoke", "llm", "tool"} =>
           (service = "live" <=> LiveArgs \subseteq controls)
    /\ step \in {"workflow", "shell", "invoke", "llm", "tool"} => Preflight(controls)
    /\ step # "reported" => report = NoReport

RunInv == LlmInv /\ RunTypeOK /\ RunPhases /\ NothingWithoutApproval /\ ReportIsTruthful

-----------------------------------------------------------------------------
(* The deciders agree.                                                     *)

(* Both preflights demand the five approvals. *)
LEMMA PreflightApproves == \A c \in Controls : Preflight(c) => Approvals \subseteq c
  BY DEF Preflight, LivePreflight, NoLivePreflight, GateReady, Approvals

(* The entry takes a run for a live one exactly if the chooser of the      *)
(* service has chosen the live one for it.                                 *)
LEMMA LiveIsLive == \A c : LiveRequested(c) <=> LiveArgs \subseteq c
  BY DEF LiveRequested, NoLivePromise, LiveArgs

(* A tool that is granted was not refused, nor left open. *)
LEMMA GrantedIsConfirmed ==
    \A c \in Controls : ToolGranted(c) => /\ "tool_refused" \notin c
                                          /\ "tool_ref" \in c => "tool_allowed" \in c
  BY DEF ToolGranted, Controls, ToolArgs

LEMMA CompletedReports ==
    ASSUME RunTypeOK, LlmTypeOK, NEW ran \in BOOLEAN
    PROVE  Completed(ran) \in Reports
<1>1. result.performed \in BOOLEAN /\ result.text \in Texts
  BY DEF LlmTypeOK, Results
<1>2. LiveRequested(controls) \in BOOLEAN
  BY DEF LiveRequested
<1> QED
  BY <1>1, <1>2 DEF Completed, Reports

-----------------------------------------------------------------------------
(* The inductive step.                                                     *)

LEMMA RunInvInit == RunInit /\ LlmInit => RunInv
<1> SUFFICES ASSUME RunInit, LlmInit PROVE RunInv
  OBVIOUS
<1>1. LlmInv
  BY LlmInvInit
<1>2. RunTypeOK
  BY DEF RunInit, RunTypeOK, Controls, ToolArgs, NoReport, Reports, Texts
<1>3. RunPhases /\ NothingWithoutApproval /\ ReportIsTruthful
  BY DEF RunInit, LlmInit, RunPhases, NothingWithoutApproval, ReportIsTruthful, NoReport
<1> QED
  BY <1>1, <1>2, <1>3 DEF RunInv

LEMMA ResetKeepsRunInv == ASSUME Reset PROVE RunInv'
<1>1. LlmInv'
  <2>1. LlmTypeOK'
    BY DEF Reset, LlmTypeOK, NoRequest, Requests, Unanswered, Results, Texts, Failures
  <2>2. LlmPhases' /\ ResultIsTruthful' /\ FineOutputIsKept'
    BY DEF Reset, LlmPhases, ResultIsTruthful, FineOutputIsKept, NoRequest, Unanswered
  <2> QED
    BY <2>1, <2>2 DEF LlmInv
<1>2. RunTypeOK'
  BY DEF Reset, RunTypeOK, Controls, ToolArgs, NoReport, Reports, Texts
<1>3. RunPhases' /\ NothingWithoutApproval' /\ ReportIsTruthful'
  BY DEF Reset, RunPhases, NothingWithoutApproval, ReportIsTruthful, NoReport
<1> QED
  BY <1>1, <1>2, <1>3 DEF RunInv

LEMMA RequestKeepsRunInv ==
    ASSUME RunInv, NEW c \in Controls, NEW isChat \in BOOLEAN, RequestRun(c, isChat)
    PROVE  RunInv'
<1>1. LlmInv'
  BY LlmStutterKeepsLlmInv DEF RunInv, RequestRun
<1>2. RunTypeOK'
  BY DEF RunInv, RequestRun, RunTypeOK
<1>3. /\ step = "idle" /\ llm = "idle" /\ completions = 0 /\ done = {} /\ report = NoReport
      /\ step' = "resolve" /\ UNCHANGED <<service, done, report, llm, completions>>
  BY DEF RunInv, RequestRun, RunPhases, llmVars
<1>4. RunPhases' /\ NothingWithoutApproval' /\ ReportIsTruthful'
  BY <1>3 DEF RunPhases, NothingWithoutApproval, ReportIsTruthful, NoReport
<1> QED
  BY <1>1, <1>2, <1>4 DEF RunInv

LEMMA ResolveKeepsRunInv ==
    ASSUME RunInv, RefuseWithoutRuntime \/ ResolveService \/ ResolvingRaises
    PROVE  RunInv'
<1>1. /\ step = "resolve" /\ llm = "idle" /\ completions = 0 /\ done = {}
      /\ report = NoReport
      /\ UNCHANGED <<controls, chat, done, llmVars>>
  BY DEF RunInv, RunPhases, RefuseWithoutRuntime, ResolveService, ResolvingRaises, Raise
<1>2. LlmInv' /\ UNCHANGED <<llm, completions>>
  BY <1>1, LlmStutterKeepsLlmInv DEF RunInv, llmVars
<1>3. CASE RefuseWithoutRuntime \/ ResolvingRaises
  <2>1. /\ step' = "reported" /\ UNCHANGED service
        /\ \E status \in {"blocked", "raised"} :
               report' = [NoReport EXCEPT !.status = status]
    BY <1>3 DEF RefuseWithoutRuntime, ResolvingRaises, Raise, Finish
  <2>2. RunTypeOK'
    BY <1>1, <2>1 DEF RunInv, RunTypeOK, NoReport, Reports, Texts
  <2>3. RunPhases' /\ NothingWithoutApproval' /\ ReportIsTruthful'
    BY <1>1, <1>2, <2>1 DEF RunPhases, NothingWithoutApproval, ReportIsTruthful, NoReport
  <2> QED
    BY <1>2, <2>2, <2>3 DEF RunInv
<1>4. CASE ResolveService
  <2>1. /\ step' = "preflight" /\ UNCHANGED report
        /\ service' = IF LiveArgs \subseteq controls THEN "live" ELSE "no_live"
    BY <1>4 DEF ResolveService, LiveArgsSatisfied
  <2>2. RunTypeOK'
    BY <1>1, <2>1 DEF RunInv, RunTypeOK
  <2>3. RunPhases' /\ NothingWithoutApproval' /\ ReportIsTruthful'
    BY <1>1, <1>2, <2>1 DEF RunPhases, NothingWithoutApproval, ReportIsTruthful, NoReport
  <2> QED
    BY <1>2, <2>2, <2>3 DEF RunInv
<1> QED
  BY <1>3, <1>4

LEMMA CheckPreflightKeepsRunInv == ASSUME RunInv, CheckPreflight PROVE RunInv'
<1>1. /\ step = "preflight" /\ llm = "idle" /\ completions = 0 /\ done = {}
      /\ report = NoReport
      /\ service = "live" <=> LiveArgs \subseteq controls
      /\ UNCHANGED <<controls, chat, service, done, llmVars>>
  BY DEF RunInv, RunPhases, CheckPreflight
<1>2. LlmInv' /\ UNCHANGED <<llm, completions>>
  BY <1>1, LlmStutterKeepsLlmInv DEF RunInv, llmVars
<1>3. CASE Preflight(controls)
  <2>1. step' = "workflow" /\ UNCHANGED report
    BY <1>3 DEF CheckPreflight
  <2>2. RunTypeOK'
    BY <1>1, <2>1 DEF RunInv, RunTypeOK
  <2>3. RunPhases' /\ NothingWithoutApproval' /\ ReportIsTruthful'
    BY <1>1, <1>2, <1>3, <2>1 DEF RunPhases, NothingWithoutApproval, ReportIsTruthful, NoReport
  <2> QED
    BY <1>2, <2>2, <2>3 DEF RunInv
<1>4. CASE ~Preflight(controls)
  <2>1. /\ step' = "reported"
        /\ report' = [NoReport EXCEPT !.status = "blocked", !.promisesNoLive = TRUE]
    BY <1>4 DEF CheckPreflight, Finish
  <2>2. RunTypeOK'
    BY <1>1, <2>1 DEF RunInv, RunTypeOK, NoReport, Reports, Texts
  <2>3. RunPhases' /\ NothingWithoutApproval' /\ ReportIsTruthful'
    BY <1>1, <1>2, <2>1 DEF RunPhases, NothingWithoutApproval, ReportIsTruthful, NoReport
  <2> QED
    BY <1>2, <2>2, <2>3 DEF RunInv
<1> QED
  BY <1>3, <1>4

LEMMA WorkflowKeepsRunInv ==
    ASSUME RunInv, RunWorkflow \/ WorkflowRaises
    PROVE  RunInv'
<1>1. /\ step = "workflow" /\ llm = "idle" /\ completions = 0 /\ done = {}
      /\ report = NoReport
      /\ service = "live" <=> LiveArgs \subseteq controls
      /\ Preflight(controls)
      /\ done' = {} \/ done' = {"workflow"}
      /\ UNCHANGED <<controls, chat, service, llmVars>>
  BY DEF RunInv, RunPhases, RunWorkflow, WorkflowRaises, Raise
<1>2. LlmInv' /\ UNCHANGED <<llm, completions>>
  BY <1>1, LlmStutterKeepsLlmInv DEF RunInv, llmVars
<1>3. Approvals \subseteq controls
  BY <1>1, PreflightApproves DEF RunInv, RunTypeOK
<1>4. NothingWithoutApproval'
  BY <1>1, <1>2, <1>3 DEF NothingWithoutApproval
<1>5. CASE RunWorkflow
  <2>1. step' = "shell" /\ UNCHANGED report
    BY <1>5 DEF RunWorkflow
  <2>2. RunTypeOK'
    BY <1>1, <2>1 DEF RunInv, RunTypeOK, Deeds
  <2>3. RunPhases' /\ ReportIsTruthful'
    BY <1>1, <1>2, <2>1 DEF RunPhases, ReportIsTruthful, NoReport
  <2> QED
    BY <1>2, <1>4, <2>2, <2>3 DEF RunInv
<1>6. CASE WorkflowRaises
  <2>1. step' = "reported" /\ report' = [NoReport EXCEPT !.status = "raised"]
    BY <1>6 DEF WorkflowRaises, Raise, Finish
  <2>2. RunTypeOK'
    BY <1>1, <2>1 DEF RunInv, RunTypeOK, Deeds, NoReport, Reports, Texts
  <2>3. RunPhases' /\ ReportIsTruthful'
    BY <1>1, <1>2, <2>1 DEF RunPhases, ReportIsTruthful, NoReport
  <2> QED
    BY <1>2, <1>4, <2>2, <2>3 DEF RunInv
<1> QED
  BY <1>5, <1>6

LEMMA ShellKeepsRunInv == ASSUME RunInv, RunShell PROVE RunInv'
<1>1. /\ step = "shell" /\ llm = "idle" /\ completions = 0
      /\ report = NoReport
      /\ service = "live" <=> LiveArgs \subseteq controls
      /\ Preflight(controls)
      /\ step' = "invoke"
      /\ UNCHANGED <<controls, chat, service, report, llmVars>>
  BY DEF RunInv, RunPhases, RunShell
<1>2. LlmInv' /\ UNCHANGED <<llm, completions>>
  BY <1>1, LlmStutterKeepsLlmInv DEF RunInv, llmVars
<1>3. Approvals \subseteq controls
  BY <1>1, PreflightApproves DEF RunInv, RunTypeOK
<1>4. done' = done \/ (done' = done \union {"live_shell"} /\ LiveArgs \subseteq controls)
  BY LiveIsLive DEF RunShell
<1>5. RunTypeOK'
  BY <1>1, <1>4 DEF RunInv, RunTypeOK, Deeds
<1>6. NothingWithoutApproval'
  BY <1>1, <1>2, <1>3, <1>4 DEF RunInv, NothingWithoutApproval
<1>7. RunPhases' /\ ReportIsTruthful'
  BY <1>1, <1>2 DEF RunPhases, ReportIsTruthful, NoReport
<1> QED
  BY <1>2, <1>5, <1>6, <1>7 DEF RunInv

(* A client that is not live is refused before anything is called. *)
LEMMA InvokeStarts ==
    ASSUME NEW r, NEW on \in BOOLEAN, Invoke(r, on)
    PROVE  completions' = 0 /\ (llm' = "idle" \/ on)
  BY DEF Invoke, Refusal, Fail

LEMMA InvokeLlmKeepsRunInv == ASSUME RunInv, InvokeLlm PROVE RunInv'
<1>1. /\ step = "invoke" /\ report = NoReport
      /\ service = "live" <=> LiveArgs \subseteq controls
      /\ Preflight(controls)
      /\ step' = "llm"
      /\ UNCHANGED <<controls, chat, service, done, report>>
  BY DEF RunInv, RunPhases, InvokeLlm
<1>2. PICK r \in Requests : Invoke(r, service = "live")
  BY DEF InvokeLlm, RunInv, RunTypeOK, Requests, LiveRequested
<1>3. completions' = 0 /\ (llm' = "idle" \/ service = "live")
  BY <1>2, InvokeStarts
<1>4. LlmInv'
  BY <1>2, InvokeKeepsLlmInv DEF RunInv
<1>5. RunTypeOK'
  BY <1>1 DEF RunInv, RunTypeOK
<1>6. NothingWithoutApproval'
  BY <1>1, <1>3 DEF RunInv, NothingWithoutApproval
<1>7. RunPhases' /\ ReportIsTruthful'
  BY <1>1, <1>3 DEF RunPhases, ReportIsTruthful, NoReport
<1> QED
  BY <1>4, <1>5, <1>6, <1>7 DEF RunInv

LEMMA StepLlmKeepsRunInv == ASSUME RunInv, StepLlm PROVE RunInv'
<1>1. UNCHANGED <<step, controls, chat, service, done, report>> /\ LlmStep
  BY DEF StepLlm, runVars
<1>2. llm # "idle"
  BY <1>1 DEF LlmStep, BuildRoute, ClientMissing, CallFails, CallAnswers, RetryFails,
     RetryAnswers
<1>3. step \in {"llm", "direct"} /\ report = NoReport
  BY <1>2 DEF RunInv, RunPhases, RunTypeOK
<1>4. step = "llm" => /\ Preflight(controls) /\ service = "live"
                      /\ LiveArgs \subseteq controls
  BY <1>2 DEF RunInv, RunPhases
<1>5. step = "llm" => Approvals \subseteq controls
  BY <1>4, PreflightApproves DEF RunInv, RunTypeOK
<1>6. LlmInv'
  BY <1>1, LlmStepKeepsLlmInv DEF RunInv
<1>7. RunTypeOK'
  BY <1>1 DEF RunInv, RunTypeOK
<1>8. NothingWithoutApproval'
  BY <1>1, <1>3, <1>4, <1>5 DEF RunInv, NothingWithoutApproval
<1>9. RunPhases' /\ ReportIsTruthful'
  BY <1>1, <1>3, <1>4 DEF RunPhases, ReportIsTruthful, NoReport
<1> QED
  BY <1>6, <1>7, <1>8, <1>9 DEF RunInv

LEMMA SummaryKeepsRunInv ==
    ASSUME RunInv, SummariseLlm \/ SummaryRaises
    PROVE  RunInv'
<1>1. /\ step = "llm" /\ llm = "idle" /\ report = NoReport
      /\ service = "live" <=> LiveArgs \subseteq controls
      /\ Preflight(controls)
      /\ UNCHANGED <<controls, chat, service, done, llmVars>>
  BY DEF RunInv, RunPhases, SummariseLlm, SummaryRaises, Raise
<1>2. LlmInv' /\ UNCHANGED <<llm, completions>>
  BY <1>1, LlmStutterKeepsLlmInv DEF RunInv, llmVars
<1>3. CASE SummariseLlm
  <2>1. step' = "tool" /\ UNCHANGED report
    BY <1>3 DEF SummariseLlm
  <2>2. RunTypeOK'
    BY <1>1, <2>1 DEF RunInv, RunTypeOK
  <2>3. RunPhases' /\ NothingWithoutApproval' /\ ReportIsTruthful'
    BY <1>1, <1>2, <2>1
    DEF RunInv, RunPhases, NothingWithoutApproval, ReportIsTruthful, NoReport
  <2> QED
    BY <1>2, <2>2, <2>3 DEF RunInv
<1>4. CASE SummaryRaises
  <2>1. step' = "reported" /\ report' = [NoReport EXCEPT !.status = "raised"]
    BY <1>4 DEF SummaryRaises, Raise, Finish
  <2>2. RunTypeOK'
    BY <1>1, <2>1 DEF RunInv, RunTypeOK, NoReport, Reports, Texts
  <2>3. RunPhases' /\ NothingWithoutApproval' /\ ReportIsTruthful'
    BY <1>1, <1>2, <2>1
    DEF RunInv, RunPhases, NothingWithoutApproval, ReportIsTruthful, NoReport
  <2> QED
    BY <1>2, <2>2, <2>3 DEF RunInv
<1> QED
  BY <1>3, <1>4

LEMMA ToolKeepsRunInv == ASSUME RunInv, RunTool \/ ToolRaises PROVE RunInv'
<1>1. /\ step = "tool" /\ llm = "idle"
      /\ Preflight(controls)
      /\ step' = "reported"
      /\ UNCHANGED <<controls, chat, service, llmVars>>
  BY DEF RunInv, RunPhases, RunTool, ToolRaises, Finish
<1>2. LlmInv' /\ UNCHANGED <<llm, completions>>
  BY <1>1, LlmStutterKeepsLlmInv DEF RunInv, llmVars
<1>3. Approvals \subseteq controls
  BY <1>1, PreflightApproves DEF RunInv, RunTypeOK
<1>4. done' = done \/ (done' = done \union {"tool"} /\ ToolGranted(controls))
  BY DEF RunTool, ToolRaises
<1>5. PICK ran \in BOOLEAN : report' = Completed(ran) /\ (ran => "tool" \in done')
  BY DEF RunTool, ToolRaises, Finish, ToolGranted
<1>6. RunTypeOK'
  <2>1. report' \in Reports
    BY <1>5, CompletedReports DEF RunInv, LlmInv
  <2> QED
    BY <1>1, <1>4, <2>1 DEF RunInv, RunTypeOK, Deeds
<1>7. NothingWithoutApproval'
  BY <1>1, <1>2, <1>3, <1>4, GrantedIsConfirmed
  DEF RunInv, RunTypeOK, NothingWithoutApproval
<1>8. ReportIsTruthful'
  <2>1. result.performed <=> completions > 0
    BY <1>1 DEF RunInv, LlmInv, ResultIsTruthful
  <2>2. "live_shell" \in done' \/ completions > 0 => LiveArgs \subseteq controls
    BY <1>1, <1>2, <1>7 DEF NothingWithoutApproval
  <2>3. /\ report'.status = "success"
        /\ report'.llmCalled <=> LiveRequested(controls) /\ result.performed
        /\ report'.promisesNoLive <=> ~LiveRequested(controls)
        /\ report'.toolRan => "tool" \in done'
    BY <1>5 DEF Completed
  <2>4. completions' = completions /\ (completions \in 0 .. 2)
    BY <1>2 DEF RunInv, LlmInv, LlmTypeOK
  <2> QED
    BY <2>1, <2>2, <2>3, <2>4, LiveIsLive DEF ReportIsTruthful
<1>9. RunPhases'
  BY <1>1, <1>2 DEF RunPhases
<1> QED
  BY <1>2, <1>6, <1>7, <1>8, <1>9 DEF RunInv

LEMMA RunStepKeepsRunInv == ASSUME RunInv, RunStep PROVE RunInv'
  BY ResolveKeepsRunInv, CheckPreflightKeepsRunInv, WorkflowKeepsRunInv, ShellKeepsRunInv,
     InvokeLlmKeepsRunInv, StepLlmKeepsRunInv, SummaryKeepsRunInv, ToolKeepsRunInv
  DEF RunStep

LEMMA InvokeDirectlyKeepsRunInv == ASSUME RunInv, InvokeDirectly PROVE RunInv'
<1>1. PICK r \in Requests, on \in BOOLEAN : Invoke(r, on)
  BY DEF InvokeDirectly
<1>2. /\ step = "idle" /\ report = NoReport /\ done = {}
      /\ step' = "direct"
      /\ UNCHANGED <<controls, chat, service, done, report>>
  BY DEF RunInv, RunPhases, InvokeDirectly
<1>3. completions' = 0
  BY <1>1, InvokeStarts
<1>4. LlmInv'
  BY <1>1, InvokeKeepsLlmInv DEF RunInv
<1>5. RunTypeOK'
  BY <1>2 DEF RunInv, RunTypeOK
<1>6. RunPhases' /\ NothingWithoutApproval' /\ ReportIsTruthful'
  BY <1>2, <1>3 DEF RunPhases, NothingWithoutApproval, ReportIsTruthful, NoReport
<1> QED
  BY <1>4, <1>5, <1>6 DEF RunInv

LEMMA RunNextKeepsRunInv == ASSUME RunInv, RunNext PROVE RunInv'
  BY RequestKeepsRunInv, InvokeDirectlyKeepsRunInv, RunStepKeepsRunInv, ResetKeepsRunInv
  DEF RunNext, Close

LEMMA RunStutterKeepsRunInv == ASSUME RunInv, UNCHANGED allRunVars PROVE RunInv'
<1>1. UNCHANGED <<step, controls, chat, service, done, report, llmVars>>
  BY DEF allRunVars, runVars
<1>2. LlmInv' /\ UNCHANGED <<llm, completions>>
  BY <1>1, LlmStutterKeepsLlmInv DEF RunInv, llmVars
<1>3. RunTypeOK' /\ RunPhases' /\ NothingWithoutApproval' /\ ReportIsTruthful'
  BY <1>1, <1>2 DEF RunInv, RunTypeOK, RunPhases, NothingWithoutApproval, ReportIsTruthful
<1> QED
  BY <1>2, <1>3 DEF RunInv

-----------------------------------------------------------------------------
(* The results.                                                            *)

THEOREM RunInvariant == RunSpec => []RunInv
<1>1. RunInv /\ [RunNext]_allRunVars => RunInv'
  BY RunNextKeepsRunInv, RunStutterKeepsRunInv
<1> QED
  BY RunInvInit, <1>1, PTL DEF RunSpec

(* No run, whatever controls it is given, does anything it was not         *)
(* approved for, though the four deciders never meet.                      *)
THEOREM RunsAreApproved == RunSpec => []NothingWithoutApproval
  BY RunInvariant, PTL DEF RunInv

(* What a run reports of the model and the tool is true of it. *)
THEOREM ReportsAreTruthful == RunSpec => []ReportIsTruthful
  BY RunInvariant, PTL DEF RunInv

(***************************************************************************)
(* A run goes forward only: what is left of it, in steps.                  *)
(***************************************************************************)
RunLeft(s) ==
    IF s = "resolve" THEN 10
    ELSE IF s = "preflight" THEN 9
    ELSE IF s = "workflow" THEN 8
    ELSE IF s = "shell" THEN 7
    ELSE IF s = "invoke" THEN 6
    ELSE IF s = "llm" THEN 2
    ELSE IF s = "tool" THEN 1
    ELSE 0

LlmLeft(l) ==
    IF l = "route" THEN 3
    ELSE IF l = "call" THEN 2
    ELSE IF l = "retry" THEN 1
    ELSE 0

StepsLeft == RunLeft(step) + LlmLeft(llm)

RunMovesOn == [][RunStep => StepsLeft' < StepsLeft]_allRunVars

LEMMA LeftIsNatural == \A s, l : RunLeft(s) \in 0 .. 10 /\ LlmLeft(l) \in 0 .. 3
  BY DEF RunLeft, LlmLeft

LEMMA LlmGoesForward == ASSUME LlmStep PROVE LlmLeft(llm') < LlmLeft(llm)
<1>1. \/ llm = "route" /\ llm' \in {"call", "idle"}
      \/ llm = "call" /\ llm' \in {"retry", "idle"}
      \/ llm = "retry" /\ llm' = "idle"
  <2>1. CASE BuildRoute
    BY <2>1 DEF BuildRoute, Fail
  <2>2. CASE ClientMissing \/ CallFails
    BY <2>2 DEF ClientMissing, CallFails, Fail
  <2>3. CASE CallAnswers
    BY <2>3 DEF CallAnswers, Succeed
  <2>4. CASE RetryFails
    BY <2>4 DEF RetryFails, Succeed
  <2>5. CASE RetryAnswers
    BY <2>5 DEF RetryAnswers, Succeed
  <2> QED
    BY <2>1, <2>2, <2>3, <2>4, <2>5 DEF LlmStep
<1> QED
  BY <1>1 DEF LlmLeft

LEMMA RunGoesForward == ASSUME RunStep PROVE StepsLeft' < StepsLeft
<1>0. /\ RunLeft(step) \in Nat /\ LlmLeft(llm) \in Nat
      /\ RunLeft(step') \in Nat /\ LlmLeft(llm') \in 0 .. 3
  BY LeftIsNatural
<1>1. CASE StepLlm
  <2>1. step' = step /\ LlmLeft(llm') < LlmLeft(llm)
    BY <1>1, LlmGoesForward DEF StepLlm, runVars
  <2> QED
    BY <1>0, <2>1 DEF StepsLeft
<1>2. CASE InvokeLlm
  <2>1. step = "invoke" /\ step' = "llm" /\ llm = "idle"
    BY <1>2 DEF InvokeLlm, Invoke
  <2>2. RunLeft(step) = 6 /\ RunLeft(step') = 2 /\ LlmLeft(llm) = 0
    BY <2>1 DEF RunLeft, LlmLeft
  <2> QED
    BY <1>0, <2>2 DEF StepsLeft
<1>3. CASE RunStep /\ ~StepLlm /\ ~InvokeLlm
  <2>1. llm' = llm
    BY <1>3 DEF RunStep, RefuseWithoutRuntime, ResolveService, ResolvingRaises,
       CheckPreflight, RunWorkflow, WorkflowRaises, RunShell, SummariseLlm,
       SummaryRaises, RunTool, ToolRaises, Raise, llmVars
  <2>2. \/ step = "resolve" /\ step' \in {"preflight", "reported"}
        \/ step = "preflight" /\ step' \in {"workflow", "reported"}
        \/ step = "workflow" /\ step' \in {"shell", "reported"}
        \/ step = "shell" /\ step' = "invoke"
        \/ step = "llm" /\ step' \in {"tool", "reported"}
        \/ step = "tool" /\ step' = "reported"
    BY <1>3 DEF RunStep, RefuseWithoutRuntime, ResolveService, ResolvingRaises,
       CheckPreflight, RunWorkflow, WorkflowRaises, RunShell, SummariseLlm,
       SummaryRaises, RunTool, ToolRaises, Raise, Finish
  <2>3. RunLeft(step') < RunLeft(step)
    BY <2>2 DEF RunLeft
  <2> QED
    BY <1>0, <2>1, <2>3 DEF StepsLeft
<1> QED
  BY <1>1, <1>2, <1>3

(* Every step of a run, whichever way it goes and whatever raises, leaves  *)
(* fewer to come: a run has its report after ten steps at most, and        *)
(* nothing in it, a call of the model or the tool, is done over.           *)
(* (TurnsEnd says that the steps are in fact taken.)                       *)
THEOREM RunsMoveOn == RunSpec => RunMovesOn
<1>1. [RunNext]_allRunVars => [RunStep => StepsLeft' < StepsLeft]_allRunVars
  BY RunGoesForward
<1> QED
  BY <1>1, PTL DEF RunSpec, RunMovesOn
=============================================================================
