---------------------------- MODULE ChatSession ----------------------------
(***************************************************************************)
(* `cognition chat`: what becomes of each line a user enters.  A line goes *)
(* to the confirmation of a reference, to a summary of the session, to the *)
(* external-readonly bridge (a staged ask with its consents, follow-ups    *)
(* and transformations of the last answer), to a hint, to an operation     *)
(* flow, or to an ordinary turn, which is a controlled run; the first that *)
(* recognises it takes it.                                                 *)
(*                                                                         *)
(* Data.  A line is the URL and the path in it and the groups of keywords  *)
(* the recognisers look for.  The source of an ask is a URL or the set of  *)
(* evidence outputs in use.  Answers are told apart as long as one of them *)
(* is stored: the number of a new one differs from the number stored.  The *)
(* ask service and the operation flows are external here; an ask has the   *)
(* outcomes that ConsoleAsk derives.                                       *)
(***************************************************************************)
EXTENDS ControlledRun

CONSTANTS
    Urls, Files,    \* what an ask can be about: URLs, evidence outputs
    Locals,         \* the local reference files
    Lines,          \* the lines a user enters
    Profiles,       \* the controls a chat is started with
    None

Words == {"yes", "one", "two", "no", "ask", "target", "material", "pronoun",
          "transform", "review", "recap", "lookup", "other"}
Utterances == [url : Urls \union {None}, path : Files \union Locals \union {None},
               words : SUBSET Words]
ChatArgs == Approvals \union LiveArgs \union {"live_option"}

(* An answer to a prompt is recognised only if it is the whole line. *)
WholeLine(l) == l.url = None /\ l.path = None /\ \E w \in Words : l.words = {w}

ASSUME SourcesAssumption == Files \intersect Locals = {} /\ Urls \intersect Files = {}
ASSUME LinesAssumption ==
    /\ Lines \subseteq Utterances
    /\ \A l \in Lines : l.words \intersect {"yes", "one", "two", "no"} # {} => WholeLine(l)
ASSUME ProfilesAssumption == Profiles \subseteq SUBSET ChatArgs

VARIABLES
    front,      \* what runs: "chat", or "other" users of the runtime
    profile,    \* the controls of the chat
    askable,    \* the ask runners are injected
    pc,         \* "prompt", "turn" (a run is under way), "ended"
    code,       \* the exit code
    evidence,   \* args.external_readonly_evidence_paths
    refs,       \* args.reference_paths
    pendingRef, \* the path to be confirmed and what was asked with it, or None
    bridge,     \* ChatExternalReadonlyBridgeState
    shown,      \* history: the number of the last answer shown
    consents,   \* history: what the user agreed to for the pending ask
    missing,    \* history: consents the last ask lacked
    named       \* history: the URL the last line asked something about, or None

settings == <<front, profile, askable>>
ghosts == <<shown, consents, missing, named>>
chatVars == <<settings, pc, code, evidence, refs, pendingRef, bridge, ghosts>>
vars == <<chatVars, allRunVars>>

Stages == {"question", "model", "fetch", "live_llm", "provider", "key"}
Sources == {{u} : u \in Urls} \union SUBSET Files
Models == {"deepseek", "gemma4", "none"}
Pendings == [stage : Stages, source : Sources, model : Models]
Sessions == [source : Sources, seed : BOOLEAN, service : BOOLEAN]
(* A summary of the chat itself, and what it was transformed into. *)
Meta == {"session"}
MetaChanged == {"session", "changed"}
Answers == [number : 0 .. 1, source : Sources \union {Meta, MetaChanged}]

Bridges == [pending : Pendings \union {None}, session : Sessions \union {None},
            unavailable : BOOLEAN, answer : Answers \union {None}]

ASSUME NoneAssumption == None \notin Sessions

EmptyBridge == [pending |-> None, session |-> None, unavailable |-> FALSE, answer |-> None]

Init ==
    /\ RunInit /\ LlmInit
    /\ \/ front = "chat" /\ profile \in Profiles /\ askable \in BOOLEAN
       \/ front = "other" /\ profile = {} /\ askable = FALSE
    /\ pc = "prompt"
    /\ code = None
    /\ evidence = {} /\ refs = {}
    /\ pendingRef = None
    /\ bridge = EmptyBridge
    /\ shown = 0 /\ consents = {} /\ missing = {} /\ named = None

-----------------------------------------------------------------------------
(* The recognisers.  "ask" stands for the question words that the dispatch *)
(* and the bridge both know.  The bridge knows one more, which is also a   *)
(* "target" and a word of change: a line with it is "transform", and that  *)
(* is tried first.                                                         *)

Reviews(w) == "review" \in w
Transforms(w) == "transform" \in w /\ ~Reviews(w)
EvidenceQa(w) == "ask" \in w /\ w \intersect {"target", "material"} # {} /\ ~Reviews(w)
FollowsUp(w) == w \intersect {"target", "material", "pronoun"} # {} /\ ~Reviews(w)
Affirmative(w) == w \intersect {"yes", "one"} # {}

ModelNamed(w) ==
    IF "one" \in w THEN "deepseek" ELSE IF "two" \in w THEN "gemma4" ELSE "none"

(* What is left of a line when its path is replaced by a phrase for it. *)
Task(l) ==
    [url |-> l.url, path |-> None,
     words |-> l.words \union (IF l.path \in Files THEN {"target", "transform"}
                                                   ELSE {"target", "material"})]

Confirms(l) == pendingRef # None /\ "yes" \in l.words

(* Mutant: the word of confirmation is passed on, not the task. *)
SaidRaw(l) == l

(* What the dispatch goes on with after the references. *)
Said(l) == IF Confirms(l) THEN pendingRef.task ELSE l

Listed(l) == IF Confirms(l) /\ pendingRef.path \in Files
             THEN evidence \union {pendingRef.path} ELSE evidence

-----------------------------------------------------------------------------
(* History.                                                                *)

Given(l) ==
    IF pendingRef # None \/ bridge.pending = None THEN {}
    ELSE IF bridge.pending.stage = "key"
         THEN (IF ModelNamed(l.words) # "none" THEN {"key"} ELSE {})
         ELSE (IF Affirmative(l.words) THEN {bridge.pending.stage} ELSE {})

Needs(pending) ==
    {"live_llm"}
    \union (IF pending.source \subseteq Urls THEN {"fetch"} ELSE {})
    \union (IF pending.model = "deepseek" THEN {"provider", "key"} ELSE {})

AsksOfUrl(l) ==
    /\ pendingRef = None /\ bridge.pending = None /\ askable
    /\ l.url # None /\ l.words # {}

Track(l) ==
    /\ consents' = IF bridge.pending = None \/ bridge'.pending = None THEN {}
                   ELSE consents \union (Given(l) \ {"question", "model"})
    /\ named' = IF AsksOfUrl(l) THEN l.url ELSE None

(* A new answer is shown; the bridge may store it. *)
Fresh == IF bridge.answer = None THEN 0 ELSE 1 - bridge.answer.number

Answer(source) == [number |-> Fresh, source |-> source]

-----------------------------------------------------------------------------
(* References.                                                             *)

(* The line asks for a path to be read: it is validated, and refused or    *)
(* held until the user confirms.                                           *)
NamePath(l) ==
    /\ pendingRef = None /\ l.path # None
    /\ pendingRef' \in {None, [path |-> l.path, task |-> Task(l)]}
    /\ UNCHANGED <<settings, pc, code, evidence, refs, bridge, shown, missing, allRunVars>>
    /\ Track(l)

(* Cancelled, or still waiting. *)
HoldPath(l) ==
    /\ pendingRef # None /\ ~Confirms(l)
    /\ pendingRef' = IF "no" \in l.words THEN None ELSE pendingRef
    /\ UNCHANGED <<settings, pc, code, evidence, refs, bridge, shown, missing, allRunVars>>
    /\ Track(l)

(* The line goes on, a confirmed path applied and the task in its place. *)
GoesOn(l) ==
    /\ IF pendingRef = None THEN l.path = None ELSE Confirms(l)
    /\ pendingRef' = None
    /\ evidence' = Listed(l)
    /\ refs' = IF Confirms(l) /\ pendingRef.path \in Locals
               THEN refs \union {pendingRef.path} ELSE refs
    /\ UNCHANGED settings

(* It is answered at once, and the prompt comes back. *)
AnsweredAtOnce(l) == GoesOn(l) /\ UNCHANGED <<pc, code, allRunVars>>

Recaps(l) == "recap" \in Said(l).words

SummariseSession(l) ==
    /\ AnsweredAtOnce(l)
    /\ Recaps(l)
    /\ bridge' = [bridge EXCEPT !.answer = Answer(Meta)]
    /\ shown' = Fresh
    /\ UNCHANGED missing
    /\ Track(l)

-----------------------------------------------------------------------------
(* The external-readonly bridge.                                           *)

(* It takes the line. *)
Bridged(l) == AnsweredAtOnce(l) /\ ~Recaps(l)

(* No answer is shown and no ask is run. *)
NoAnswer(l) == UNCHANGED <<shown, missing>> /\ Track(l)

Prompting(stage) == bridge' = [bridge EXCEPT !.pending.stage = stage]

Pending(l, stage) ==
    /\ Bridged(l)
    /\ bridge.pending # None
    /\ bridge.pending.stage = stage

TakeQuestion(l) ==
    /\ Pending(l, "question")
    /\ Prompting("model")
    /\ NoAnswer(l)

(* The prompt is repeated until a model is named. *)
TakeModel(l) ==
    LET model == ModelNamed(Said(l).words) IN
    /\ Pending(l, "model")
    /\ IF model = "none" THEN UNCHANGED bridge
       ELSE bridge' = [bridge EXCEPT
                !.pending.model = model,
                !.pending.stage = IF bridge.pending.source \subseteq Urls
                                  THEN "fetch" ELSE "live_llm"]
    /\ NoAnswer(l)

TakeConsent(l) ==
    /\ \/ Pending(l, "fetch") /\ Prompting("live_llm")
       \/ /\ Pending(l, "live_llm")
          /\ bridge.pending.model = "deepseek"
          /\ Prompting("provider")
       \/ Pending(l, "provider") /\ Prompting("key")
    /\ Affirmative(Said(l).words)
    /\ NoAnswer(l)

(* Anything but a consent drops the ask, and all else the bridge held. *)
Decline(l) ==
    /\ \/ /\ \E stage \in {"fetch", "live_llm", "provider"} : Pending(l, stage)
          /\ ~Affirmative(Said(l).words)
       \/ Pending(l, "key") /\ ModelNamed(Said(l).words) = "none"
    /\ bridge' = EmptyBridge
    /\ NoAnswer(l)

AskedOf(src, seed, serves) == [source |-> src, seed |-> seed, service |-> serves]

(* Mutant: an ask replaces what it changes, and keeps the rest. *)
BridgeAroundAsk == [bridge EXCEPT !.pending = None]

(* An ask replaces the whole state of the bridge. *)
BridgeForAsk == EmptyBridge

(* _execute_initial: answered by the model, answered without it, failed    *)
(* with a state to follow up, or without one.                              *)
ExecuteAsk(l) ==
    LET source == bridge.pending.source IN
    /\ \/ /\ Pending(l, "live_llm")
          /\ bridge.pending.model = "gemma4"
          /\ Affirmative(Said(l).words)
       \/ Pending(l, "key") /\ ModelNamed(Said(l).words) # "none"
    /\ \/ /\ \E byModel \in BOOLEAN :
                bridge' = [BridgeForAsk EXCEPT !.session = AskedOf(source, TRUE, byModel),
                                               !.answer = Answer(source)]
          /\ shown' = Fresh
       \/ /\ bridge' = [BridgeForAsk EXCEPT !.session = AskedOf(source, FALSE, TRUE)]
          /\ UNCHANGED shown
       \/ /\ bridge' = [BridgeForAsk EXCEPT !.unavailable = TRUE]
          /\ UNCHANGED shown
    /\ missing' = Needs(bridge.pending) \ (consents \union Given(l))
    /\ Track(l)

(* Nothing is pending: the recognisers are tried in this order. *)
Open(l) == Bridged(l) /\ bridge.pending = None

MustTransform(l) == Transforms(Said(l).words)
MustFollowUp(l) == ~MustTransform(l) /\ bridge.session # None /\ FollowsUp(Said(l).words)
MustRefuse(l) == /\ ~MustTransform(l) /\ bridge.session = None /\ bridge.unavailable
                 /\ FollowsUp(Said(l).words)
Proposed(l) == Said(l).url # None \/ (Listed(l) # {} /\ EvidenceQa(Said(l).words))

(* No answer to transform, or no evidence to follow up. *)
RefuseOnSnapshot(l) ==
    /\ Open(l)
    /\ \/ MustTransform(l) /\ bridge.answer = None /\ "material" \notin Said(l).words
       \/ MustRefuse(l)
    /\ UNCHANGED bridge
    /\ NoAnswer(l)

(* A summary of the session can be transformed by the chat itself, once. *)
TransformLocally(l) ==
    /\ Open(l)
    /\ MustTransform(l) /\ bridge.answer # None
    /\ bridge.answer.source = Meta
    /\ bridge' = [bridge EXCEPT !.answer = Answer(MetaChanged)]
    /\ shown' = Fresh
    /\ UNCHANGED missing
    /\ Track(l)

(* By the session's service: the answer is new if that succeeds, and a     *)
(* failed call of the model leaves a session without a seed.               *)
TransformByService(l) ==
    /\ Open(l)
    /\ MustTransform(l) /\ bridge.answer # None
    /\ bridge.session # None /\ askable
    /\ \/ /\ bridge' = [bridge EXCEPT !.answer = Answer(IF @.source = Meta THEN MetaChanged
                                                         ELSE @.source)]
          /\ shown' = Fresh
       \/ /\ bridge' = [bridge EXCEPT !.session.seed = @ /\ ~bridge.session.service]
          /\ UNCHANGED shown
    /\ UNCHANGED missing
    /\ Track(l)

(* No session: the transformation fails and nothing changes. *)
TransformFails(l) ==
    /\ Open(l)
    /\ MustTransform(l) /\ bridge.answer # None /\ bridge.session = None
    /\ UNCHANGED bridge
    /\ NoAnswer(l)

(* Blocked unless the last turn left a seed and a service. *)
FollowUp(l) ==
    /\ Open(l)
    /\ MustFollowUp(l) /\ askable
    /\ \/ /\ bridge.session.seed /\ bridge.session.service
          /\ bridge' = [bridge EXCEPT !.answer = Answer(bridge.session.source),
                                      !.unavailable = FALSE]
          /\ shown' = Fresh
       \/ /\ bridge' = [bridge EXCEPT !.unavailable = FALSE,
                            !.session.seed = @ /\ ~bridge.session.service]
          /\ UNCHANGED shown
    /\ UNCHANGED missing
    /\ Track(l)

OpenAsk(l) ==
    /\ Open(l)
    /\ ~MustTransform(l) /\ ~MustFollowUp(l) /\ ~MustRefuse(l)
    /\ Proposed(l) /\ askable
    /\ bridge' = [bridge EXCEPT !.pending =
           IF Said(l).url # None
           THEN [stage |-> IF Said(l).words = {} THEN "question" ELSE "model",
                 source |-> {Said(l).url}, model |-> "none"]
           ELSE [stage |-> "model", source |-> Listed(l), model |-> "none"]]
    /\ NoAnswer(l)

(* The bridge does not take it. *)
NotBridged(l) ==
    /\ GoesOn(l)
    /\ ~Recaps(l)
    /\ bridge.pending = None
    /\ \/ MustTransform(l) /\ bridge.answer = None /\ "material" \in Said(l).words
       \/ MustFollowUp(l) /\ ~askable
       \/ /\ ~MustTransform(l) /\ ~MustFollowUp(l) /\ ~MustRefuse(l)
          /\ ~(Proposed(l) /\ askable)

-----------------------------------------------------------------------------
(* Hints, operation flows and ordinary turns.                              *)

Hinted(l) ==
    \/ Said(l).words \intersect {"lookup"} # {} /\ Listed(l) = {} /\ refs' = {}
    \/ Listed(l) # {} /\ EvidenceQa(Said(l).words)

Hint(l) ==
    /\ NotBridged(l)
    /\ Hinted(l)
    /\ UNCHANGED <<bridge, pc, code, allRunVars>>
    /\ NoAnswer(l)

(* Mutant: it leaves the bridge as it was. *)
BridgeKept == bridge

(* A turn that is neither bridged nor hinted leaves no bridge behind. *)
BridgeAfterTurn == EmptyBridge

Turn(l) ==
    /\ NotBridged(l)
    /\ ~Hinted(l)
    /\ bridge' = BridgeAfterTurn
    /\ shown' = Fresh
    /\ UNCHANGED missing
    /\ Track(l)

OperationFlow(l) ==
    /\ Turn(l)
    /\ \/ UNCHANGED <<pc, code>>
       \/ pc' = "ended" /\ code' = "failure"
    /\ UNCHANGED allRunVars

(* _cli_blocking_reasons. *)
CliBlocks ==
    \/ ~(Approvals \subseteq profile)
    \/ profile \ Approvals # {} /\ ~(LiveArgs \subseteq profile)

OrdinaryTurn(l) ==
    /\ Turn(l)
    /\ IF CliBlocks
       THEN pc' = "ended" /\ code' = "blocking" /\ UNCHANGED allRunVars
       ELSE /\ pc' = "turn"
            /\ RequestRun(profile \ {"live_option"}, TRUE)
            /\ UNCHANGED code

Exits ==
    IF report.status = "blocked" THEN {"blocking"}
    ELSE IF report.status = "raised" THEN {"runtime_failure"}
    ELSE {"ok", "output_boundary"}

FinishTurn ==
    /\ front = "chat" /\ pc = "turn"
    /\ step = "reported"
    /\ \E exit \in Exits :
           IF exit = "ok" THEN pc' = "prompt" /\ UNCHANGED code
                          ELSE pc' = "ended" /\ code' = exit
    /\ Reset
    /\ UNCHANGED <<settings, evidence, refs, pendingRef, bridge, ghosts>>

-----------------------------------------------------------------------------
(* The loop.                                                               *)

(* Mutant: only the lists are cleared. *)
BridgeUncleared == bridge

BridgeAfterClear == EmptyBridge

(* /reference clear *)
Clear ==
    /\ front = "chat" /\ pc = "prompt"
    /\ evidence' = {} /\ refs' = {}
    /\ pendingRef' = None
    /\ bridge' = BridgeAfterClear
    /\ consents' = {} /\ named' = None
    /\ UNCHANGED <<settings, pc, code, shown, missing, allRunVars>>

(* End of input, /exit, the last turn of --max-turns, an interrupt. *)
Leave ==
    /\ front = "chat" /\ pc \in {"prompt", "turn"}
    /\ pc' = "ended" /\ code' = "ok"
    /\ UNCHANGED <<settings, evidence, refs, pendingRef, bridge, ghosts, allRunVars>>

HandleLine(l) ==
    \/ NamePath(l) \/ HoldPath(l) \/ SummariseSession(l)
    \/ TakeQuestion(l) \/ TakeModel(l) \/ TakeConsent(l) \/ Decline(l) \/ ExecuteAsk(l)
    \/ RefuseOnSnapshot(l) \/ TransformLocally(l) \/ TransformByService(l)
    \/ TransformFails(l) \/ FollowUp(l) \/ OpenAsk(l)
    \/ Hint(l) \/ OperationFlow(l) \/ OrdinaryTurn(l)

RunTurn == pc = "turn" /\ RunStep /\ UNCHANGED chatVars

OtherRun == front = "other" /\ RunNext /\ UNCHANGED chatVars

AtPrompt == front = "chat" /\ pc = "prompt"

Next ==
    \/ AtPrompt /\ \E l \in Lines : HandleLine(l)
    \/ RunTurn \/ FinishTurn
    \/ Clear \/ Leave
    \/ OtherRun

Spec == Init /\ [][Next]_vars

(* The steps of a run are the program's own, and a call of the model ends  *)
(* within the client's timeout.                                            *)
FairSpec == Spec /\ WF_vars(RunTurn \/ FinishTurn)

-----------------------------------------------------------------------------
(* Properties.                                                             *)

ChatTypeOK ==
    /\ LlmTypeOK /\ RunTypeOK
    /\ front \in {"chat", "other"} /\ profile \subseteq ChatArgs
    /\ askable \in BOOLEAN
    /\ pc \in {"prompt", "turn", "ended"}
    /\ code \in {None, "ok", "blocking", "runtime_failure", "output_boundary", "failure"}
    /\ evidence \subseteq Files /\ refs \subseteq Locals
    /\ pendingRef \in [path : Files \union Locals, task : Utterances] \union {None}
    /\ bridge \in Bridges
    /\ shown \in 0 .. 1 /\ consents \subseteq Stages /\ missing \subseteq Stages
    /\ named \in Urls \union {None}

(* An ask fetches and calls a model only with each consent it needs, given *)
(* by a line of the user's to that prompt of this very ask: a confirmation *)
(* meant for a reference, or given to an ask that was declined or cleared, *)
(* does not count (_continue_pending, _dispatch_chat_input_turn).          *)
AsksAreConsented == missing = {}

(* What the bridge works on is still listed: /reference clear, and nothing *)
(* else, takes evidence out of use, so a pending ask or a session never    *)
(* rests on evidence that `/reference list` does not show.                 *)
EvidenceInUseIsListed ==
    /\ bridge.pending # None => bridge.pending.source \intersect Files \subseteq evidence
    /\ bridge.session # None => bridge.session.source \intersect Files \subseteq evidence

(* "The answer above" is the answer above: a transformation works on the   *)
(* last answer the user was shown, whatever produced it.                   *)
TransformedAnswerIsLatest ==
    bridge.answer # None => bridge.answer.number = shown

(* The stored answer and the session that would transform it are about the *)
(* same source, unless the answer is a summary of the chat itself.         *)
AnswerAndSessionAgree ==
    bridge.answer # None /\ bridge.answer.source \notin {Meta, MetaChanged} =>
        bridge.session # None /\ bridge.session.source = bridge.answer.source

(* A turn ends: whatever the run does, the prompt comes back or the chat   *)
(* exits.                                                                  *)
TurnsEnd == pc = "turn" ~> pc # "turn"

(* A URL that is named with a question is what is asked about: unless a    *)
(* prompt is open, the line opens an ask of that URL.                      *)
NamedSourceIsAsked ==
    named # None => bridge.pending # None /\ bridge.pending.source = {named}

=============================================================================
