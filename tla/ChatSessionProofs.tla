------------------------- MODULE ChatSessionProofs -------------------------
(* Proofs about ChatSession: a chat is a sequence of controlled runs, so   *)
(* that what holds of every run holds in a chat; and the invariants of the *)
(* bridge, for all sources, lines and profiles.                            *)
EXTENDS ChatSession, ControlledRunProofs

-----------------------------------------------------------------------------
(* A chat runs nothing but controlled runs.                                *)

ProfileOK == profile \subseteq ChatArgs

LEMMA ProfileInvariant == Spec => []ProfileOK
<1>1. Init => ProfileOK
  BY ProfilesAssumption DEF Init, ProfileOK
<1>2. ProfileOK /\ [Next]_vars => ProfileOK'
  <2> SUFFICES ASSUME ProfileOK, [Next]_vars PROVE UNCHANGED profile
    BY DEF ProfileOK
  <2>1. ASSUME NEW l \in Lines, HandleLine(l) PROVE UNCHANGED profile
    BY <2>1 DEF HandleLine, NamePath, HoldPath, SummariseSession, TakeQuestion, TakeModel,
       TakeConsent, Decline, ExecuteAsk, RefuseOnSnapshot, TransformLocally,
       TransformByService, TransformFails, FollowUp, OpenAsk, Hint, OperationFlow,
       OrdinaryTurn, Turn, NotBridged, Pending, Open, Bridged, AnsweredAtOnce, GoesOn,
       settings
  <2> QED
    BY <2>1 DEF Next, RunTurn, OtherRun, FinishTurn, Clear, Leave, chatVars, settings, vars
<1> QED
  BY <1>1, <1>2, PTL DEF Spec

(* What a chat asks to be run is a controlled run without a tool. *)
LEMMA ProfilesAreControls == \A c \in SUBSET ChatArgs : c \ {"live_option"} \in Controls
  BY DEF ChatArgs, Approvals, LiveArgs, LiveFlags, ToolArgs, Controls

LEMMA OnlyTurnsRun ==
    ASSUME NEW l, HandleLine(l)
    PROVE  UNCHANGED allRunVars \/ RequestRun(profile \ {"live_option"}, TRUE)
  BY DEF HandleLine, NamePath, HoldPath, SummariseSession, TakeQuestion, TakeModel,
     TakeConsent, Decline, ExecuteAsk, RefuseOnSnapshot, TransformLocally,
     TransformByService, TransformFails, FollowUp, OpenAsk, Hint, OperationFlow,
     OrdinaryTurn, Pending, Open, Bridged, AnsweredAtOnce

LEMMA StepsAreRuns ==
    ASSUME ProfileOK, [Next]_vars
    PROVE  [RunNext]_allRunVars
<1>1. ASSUME NEW l \in Lines, HandleLine(l) PROVE [RunNext]_allRunVars
  <2>1. profile \ {"live_option"} \in Controls
    BY ProfilesAreControls DEF ProfileOK
  <2>2. RequestRun(profile \ {"live_option"}, TRUE) => RunNext
    BY <2>1 DEF RunNext, RequestRun
  <2> QED
    BY <1>1, <2>2, OnlyTurnsRun
<1>2. CASE RunTurn
  BY <1>2 DEF RunTurn, RunNext
<1>3. CASE FinishTurn
  BY <1>3 DEF FinishTurn, RunNext, Close
<1>4. CASE OtherRun
  BY <1>4 DEF OtherRun
<1>5. CASE Clear \/ Leave
  BY <1>5 DEF Clear, Leave
<1>6. CASE UNCHANGED vars
  BY <1>6 DEF vars
<1> QED
  BY <1>1, <1>2, <1>3, <1>4, <1>5, <1>6 DEF Next

(* The chat implements the specification of the run: its turns are runs,   *)
(* one after the other, started with the controls of the chat.             *)
THEOREM ChatRunsAreRuns == Spec => RunSpec
<1>1. Init => RunInit /\ LlmInit
  BY DEF Init
<1>2. ProfileOK /\ [Next]_vars => [RunNext]_allRunVars
  BY StepsAreRuns
<1> QED
  BY <1>1, <1>2, ProfileInvariant, PTL DEF Spec, RunSpec

(* So a chat calls no model, and runs no workflow, without its approvals,  *)
THEOREM ChatsAreApproved == Spec => []NothingWithoutApproval
  BY ChatRunsAreRuns, RunsAreApproved, PTL

(* and what its turns report is true.                                      *)
THEOREM ChatReportsAreTruthful == Spec => [](ReportIsTruthful /\ ResultIsTruthful /\ FineOutputIsKept)
  BY ChatRunsAreRuns, RunInvariant, PTL DEF RunInv, LlmInv

-----------------------------------------------------------------------------
(* The invariants of the bridge.                                           *)

ChatDataOK ==
    /\ front \in {"chat", "other"} /\ profile \subseteq ChatArgs
    /\ askable \in BOOLEAN
    /\ pc \in {"prompt", "turn", "ended"}
    /\ code \in {None, "ok", "blocking", "runtime_failure", "output_boundary", "failure"}
    /\ evidence \subseteq Files /\ refs \subseteq Locals
    /\ pendingRef \in [path : Files \union Locals, task : Utterances] \union {None}
    /\ bridge \in Bridges
    /\ shown \in 0 .. 1 /\ consents \subseteq Stages
    /\ named \in Urls \union {None}

(* The task that waits for a path is not an answer to a prompt. *)
TaskIsNoAnswer ==
    pendingRef # None => pendingRef.task.words \intersect {"yes", "one", "two", "no"} = {}

(* A pending ask has the consents of the stages it has passed. *)
ConsentsOfStage ==
    bridge.pending # None =>
        /\ bridge.pending.stage \in {"live_llm", "provider", "key"}
               /\ bridge.pending.source \subseteq Urls => "fetch" \in consents
        /\ bridge.pending.stage \in {"provider", "key"} =>
               "live_llm" \in consents /\ bridge.pending.model = "deepseek"
        /\ bridge.pending.stage = "key" => "provider" \in consents

ChatInv ==
    /\ ChatDataOK /\ TaskIsNoAnswer
    /\ ConsentsOfStage /\ AsksAreConsented
    /\ EvidenceInUseIsListed
    /\ TransformedAnswerIsLatest /\ AnswerAndSessionAgree

(* What the loop and the references do to the rest of the state while the  *)
(* bridge takes a line.                                                    *)
Carried ==
    /\ UNCHANGED settings
    /\ pc' \in {"prompt", "turn", "ended"}
    /\ code' \in {None, "ok", "blocking", "runtime_failure", "output_boundary", "failure"}
    /\ evidence \subseteq evidence' /\ evidence' \subseteq Files
    /\ refs' \subseteq Locals
    /\ pendingRef' \in [path : Files \union Locals, task : Utterances] \union {None}
    /\ TaskIsNoAnswer'

LEMMA BridgeFields ==
    ASSUME bridge \in Bridges
    PROVE  /\ bridge = [pending |-> bridge.pending, session |-> bridge.session,
                        unavailable |-> bridge.unavailable, answer |-> bridge.answer]
           /\ bridge.pending \in Pendings \union {None}
           /\ bridge.session \in Sessions \union {None}
           /\ bridge.unavailable \in BOOLEAN
           /\ bridge.answer \in Answers \union {None}
  BY DEF Bridges

LEMMA EmptyBridgeFields ==
    /\ EmptyBridge \in Bridges
    /\ EmptyBridge.pending = None /\ EmptyBridge.session = None
    /\ EmptyBridge.answer = None
  BY DEF EmptyBridge, Bridges

LEMMA FreshAnswer ==
    ASSUME bridge \in Bridges
    PROVE  /\ Fresh \in 0 .. 1
           /\ \A source \in Sources \union {Meta, MetaChanged} :
                  /\ Answer(source) \in Answers
                  /\ Answer(source).number = Fresh /\ Answer(source).source = source
<1>1. Fresh \in 0 .. 1
  BY BridgeFields DEF Fresh, Answers
<1> QED
  BY <1>1 DEF Answer, Answers

LEMMA TrackKeepsTypes ==
    ASSUME ChatInv, NEW l \in Lines, Track(l)
    PROVE  consents' \subseteq Stages /\ named' \in Urls \union {None}
<1>1. l.url \in Urls \union {None}
  BY LinesAssumption DEF Utterances
<1>2. Given(l) \subseteq Stages
  BY BridgeFields DEF ChatInv, ChatDataOK, Given, Pendings, Stages
<1> QED
  BY <1>1, <1>2 DEF Track, ChatInv, ChatDataOK

-----------------------------------------------------------------------------
(* What can become of the bridge, one lemma for each.                      *)

(* The line changes nothing of it. *)
LEMMA KeepingKeepsChatInv ==
    ASSUME ChatInv, NEW l \in Lines, Carried, Track(l),
           UNCHANGED <<bridge, shown, missing>>
    PROVE  ChatInv'
<1>1. consents' \subseteq Stages /\ named' \in Urls \union {None}
  BY TrackKeepsTypes
<1>2. ChatDataOK'
  BY <1>1 DEF ChatInv, ChatDataOK, Carried, settings
<1>3. bridge.pending # None => consents \subseteq consents'
  BY DEF Track
<1>4. ConsentsOfStage'
  BY <1>3 DEF ChatInv, ConsentsOfStage
<1> QED
  BY <1>2, <1>4 DEF ChatInv, Carried, AsksAreConsented, EvidenceInUseIsListed,
     TransformedAnswerIsLatest, AnswerAndSessionAgree

(* The line drops all it holds. *)
LEMMA DroppingKeepsChatInv ==
    ASSUME ChatInv, NEW l \in Lines, Carried, Track(l),
           bridge' = EmptyBridge, shown' \in 0 .. 1, UNCHANGED missing
    PROVE  ChatInv'
<1>1. consents' \subseteq Stages /\ named' \in Urls \union {None}
  BY TrackKeepsTypes
<1>2. ChatDataOK'
  BY <1>1, EmptyBridgeFields DEF ChatInv, ChatDataOK, Carried, settings
<1> QED
  BY <1>2, EmptyBridgeFields
  DEF ChatInv, Carried, ConsentsOfStage, AsksAreConsented, EvidenceInUseIsListed,
      TransformedAnswerIsLatest, AnswerAndSessionAgree

(* The pending ask gets further, or a new one is opened. *)
LEMMA PromptingKeepsChatInv ==
    ASSUME ChatInv, NEW l \in Lines, Carried, Track(l), UNCHANGED <<shown, missing>>,
           NEW p \in Pendings, bridge' = [bridge EXCEPT !.pending = p],
           p.source \intersect Files \subseteq evidence',
           ConsentsOfStage'
    PROVE  ChatInv'
<1>1. consents' \subseteq Stages /\ named' \in Urls \union {None}
  BY TrackKeepsTypes
<1>2. /\ bridge' \in Bridges /\ bridge'.pending = p
      /\ bridge'.session = bridge.session /\ bridge'.answer = bridge.answer
  BY DEF ChatInv, ChatDataOK, Bridges
<1>3. ChatDataOK'
  BY <1>1, <1>2 DEF ChatInv, ChatDataOK, Carried, settings
<1> QED
  BY <1>2, <1>3 DEF ChatInv, Carried, AsksAreConsented, EvidenceInUseIsListed,
     TransformedAnswerIsLatest, AnswerAndSessionAgree

(* An answer is shown and stored, with or without a word on the evidence. *)
LEMMA AnsweringKeepsChatInv ==
    ASSUME ChatInv, NEW l \in Lines, Carried, Track(l), UNCHANGED missing,
           shown' = Fresh,
           NEW source \in Sources \union {Meta, MetaChanged},
           NEW unavailable \in BOOLEAN,
           bridge' = [bridge EXCEPT !.answer = Answer(source), !.unavailable = unavailable],
           source \notin {Meta, MetaChanged} =>
               bridge.session # None /\ bridge.session.source = source
    PROVE  ChatInv'
<1>1. consents' \subseteq Stages /\ named' \in Urls \union {None}
  BY TrackKeepsTypes
<1>2. bridge \in Bridges
  BY DEF ChatInv, ChatDataOK
<1>3. /\ Answer(source) \in Answers /\ Fresh \in 0 .. 1
      /\ Answer(source).number = Fresh /\ Answer(source).source = source
  BY <1>2, FreshAnswer
<1>4. /\ bridge' \in Bridges /\ bridge'.pending = bridge.pending
      /\ bridge'.session = bridge.session /\ bridge'.answer = Answer(source)
  BY <1>2, <1>3 DEF Bridges
<1>5. ChatDataOK'
  BY <1>1, <1>3, <1>4 DEF ChatInv, ChatDataOK, Carried, settings
<1>6. bridge.pending # None => consents \subseteq consents'
  BY <1>4 DEF Track
<1>7. ConsentsOfStage'
  BY <1>4, <1>6 DEF ChatInv, ConsentsOfStage
<1> QED
  BY <1>3, <1>4, <1>5, <1>7
  DEF ChatInv, Carried, AsksAreConsented, EvidenceInUseIsListed,
      TransformedAnswerIsLatest, AnswerAndSessionAgree

(* The service is asked in vain: at most the seed of the session is lost. *)
LEMMA FailingKeepsChatInv ==
    ASSUME ChatInv, NEW l \in Lines, Carried, Track(l), UNCHANGED <<shown, missing>>,
           bridge.session # None,
           NEW seed \in BOOLEAN, NEW unavailable \in BOOLEAN,
           bridge' = [bridge EXCEPT !.session.seed = seed, !.unavailable = unavailable]
    PROVE  ChatInv'
<1>1. consents' \subseteq Stages /\ named' \in Urls \union {None}
  BY TrackKeepsTypes
<1>2. bridge \in Bridges /\ bridge.session \in Sessions
  BY BridgeFields DEF ChatInv, ChatDataOK
<1>3. [bridge.session EXCEPT !.seed = seed] \in Sessions
      /\ [bridge.session EXCEPT !.seed = seed].source = bridge.session.source
  BY <1>2 DEF Sessions
<1>4. /\ bridge' \in Bridges /\ bridge'.pending = bridge.pending
      /\ bridge'.session = [bridge.session EXCEPT !.seed = seed]
      /\ bridge'.answer = bridge.answer
  BY <1>2, <1>3 DEF Bridges
<1>5. bridge'.session # None /\ bridge'.session.source = bridge.session.source
  BY <1>3, <1>4, NoneAssumption
<1>6. ChatDataOK'
  BY <1>1, <1>4 DEF ChatInv, ChatDataOK, Carried, settings
<1>7. bridge.pending # None => consents \subseteq consents'
  BY <1>4 DEF Track
<1>8. ConsentsOfStage'
  BY <1>4, <1>7 DEF ChatInv, ConsentsOfStage
<1> QED
  BY <1>4, <1>5, <1>6, <1>8
  DEF ChatInv, Carried, AsksAreConsented, EvidenceInUseIsListed,
      TransformedAnswerIsLatest, AnswerAndSessionAgree

-----------------------------------------------------------------------------
(* What a line says, and what it does to the references.                   *)

LEMMA LineFacts ==
    ASSUME NEW l \in Lines
    PROVE  /\ l \in Utterances
           /\ l.url \in Urls \union {None}
           /\ l.path \in Files \union Locals \union {None}
           /\ l.words \subseteq Words
           /\ l.path # None => l.words \intersect {"yes", "one", "two", "no"} = {}
  BY LinesAssumption DEF Utterances, WholeLine

LEMMA SaidFacts ==
    ASSUME ChatInv, NEW l \in Lines
    PROVE  /\ Said(l) \in Utterances
           /\ Said(l).url \in Urls \union {None}
           /\ Said(l).words \intersect {"yes", "one", "two"} # {} => ~Confirms(l)
           /\ ~Confirms(l) => Said(l) = l
<1>1. CASE Confirms(l)
  BY <1>1 DEF ChatInv, ChatDataOK, TaskIsNoAnswer, Confirms, Said, Utterances
<1>2. CASE ~Confirms(l)
  BY <1>2, LineFacts DEF Said
<1> QED
  BY <1>1, <1>2

LEMMA GoesOnCarries ==
    ASSUME ChatInv, NEW l \in Lines, GoesOn(l),
           pc' \in {"prompt", "turn", "ended"},
           code' \in {None, "ok", "blocking", "runtime_failure", "output_boundary", "failure"}
    PROVE  /\ Carried /\ evidence' = Listed(l)
           /\ ~Confirms(l) => pendingRef = None
<1>1. pendingRef # None => pendingRef.path \in Files \union Locals
  BY DEF ChatInv, ChatDataOK
<1>2. evidence \subseteq evidence' /\ evidence' \subseteq Files
  BY <1>1 DEF ChatInv, ChatDataOK, GoesOn, Listed, Confirms
<1>3. refs' \subseteq Locals
  BY <1>1 DEF ChatInv, ChatDataOK, GoesOn, Confirms
<1>4. pendingRef' = None
  BY DEF GoesOn
<1> QED
  BY <1>2, <1>3, <1>4 DEF Carried, GoesOn, TaskIsNoAnswer

LEMMA AnsweredAtOnceCarries ==
    ASSUME ChatInv, NEW l \in Lines, AnsweredAtOnce(l)
    PROVE  /\ Carried /\ evidence' = Listed(l)
           /\ ~Confirms(l) => pendingRef = None
  BY GoesOnCarries DEF ChatInv, ChatDataOK, AnsweredAtOnce

-----------------------------------------------------------------------------
(* The lines, one lemma for each action.                                   *)

LEMMA NamePathKeepsChatInv ==
    ASSUME ChatInv, NEW l \in Lines, NamePath(l) PROVE ChatInv'
<1>1. /\ UNCHANGED <<settings, pc, code, evidence, refs, bridge, shown, missing>>
      /\ l.path # None /\ Track(l)
      /\ pendingRef' \in {None, [path |-> l.path, task |-> Task(l)]}
  BY DEF NamePath
<1>2. Task(l) \in Utterances
  BY LineFacts DEF Task, Utterances, Words
<1>3. Task(l).words \intersect {"yes", "one", "two", "no"} = {}
  BY <1>1, LineFacts DEF Task
<1>4. Carried
  BY <1>1, <1>2, <1>3, LineFacts DEF ChatInv, ChatDataOK, Carried, TaskIsNoAnswer
<1> QED
  BY <1>1, <1>4, KeepingKeepsChatInv

LEMMA HoldPathKeepsChatInv ==
    ASSUME ChatInv, NEW l \in Lines, HoldPath(l) PROVE ChatInv'
<1>1. /\ UNCHANGED <<settings, pc, code, evidence, refs, bridge, shown, missing>>
      /\ Track(l)
      /\ pendingRef' \in {None, pendingRef}
  BY DEF HoldPath
<1>2. Carried
  BY <1>1 DEF ChatInv, ChatDataOK, Carried, TaskIsNoAnswer
<1> QED
  BY <1>1, <1>2, KeepingKeepsChatInv

LEMMA SummariseSessionKeepsChatInv ==
    ASSUME ChatInv, NEW l \in Lines, SummariseSession(l) PROVE ChatInv'
<1>1. Carried
  BY AnsweredAtOnceCarries DEF SummariseSession
<1>2. bridge' = [bridge EXCEPT !.answer = Answer(Meta), !.unavailable = bridge.unavailable]
  BY DEF ChatInv, ChatDataOK, Bridges, SummariseSession
<1>3. bridge.unavailable \in BOOLEAN
  BY DEF ChatInv, ChatDataOK, Bridges
<1> QED
  BY <1>1, <1>2, <1>3, AnsweringKeepsChatInv DEF SummariseSession

LEMMA TakeQuestionKeepsChatInv ==
    ASSUME ChatInv, NEW l \in Lines, TakeQuestion(l) PROVE ChatInv'
<1> DEFINE p == [bridge.pending EXCEPT !.stage = "model"]
<1>1. Carried /\ Track(l) /\ UNCHANGED <<shown, missing>> /\ bridge.pending # None
  BY AnsweredAtOnceCarries DEF TakeQuestion, Pending, Bridged, NoAnswer
<1>2. bridge \in Bridges /\ bridge.pending \in Pendings
  BY <1>1, BridgeFields DEF ChatInv, ChatDataOK
<1>3. p \in Pendings /\ p.stage = "model" /\ p.source = bridge.pending.source
  BY <1>2 DEF Pendings, Stages
<1>4. bridge' = [bridge EXCEPT !.pending = p] /\ bridge'.pending = p
  BY <1>2 DEF TakeQuestion, Prompting, Bridges
<1> HIDE DEF p
<1>5. ConsentsOfStage'
  BY <1>3, <1>4 DEF ConsentsOfStage
<1>6. p.source \intersect Files \subseteq evidence'
  BY <1>1, <1>3 DEF ChatInv, EvidenceInUseIsListed, Carried
<1> QED
  BY <1>1, <1>3, <1>4, <1>5, <1>6, PromptingKeepsChatInv

LEMMA TakeModelKeepsChatInv ==
    ASSUME ChatInv, NEW l \in Lines, TakeModel(l) PROVE ChatInv'
<1> DEFINE model == ModelNamed(Said(l).words)
           stage == IF bridge.pending.source \subseteq Urls THEN "fetch" ELSE "live_llm"
           p == [bridge.pending EXCEPT !.model = model, !.stage = stage]
<1>1. Carried /\ Track(l) /\ UNCHANGED <<shown, missing>> /\ bridge.pending # None
  BY AnsweredAtOnceCarries DEF TakeModel, Pending, Bridged, NoAnswer
<1>2. CASE model = "none"
  <2>1. UNCHANGED bridge
    BY <1>2 DEF TakeModel
  <2> QED
    BY <1>1, <2>1, KeepingKeepsChatInv
<1>3. CASE model # "none"
  <2>1. bridge \in Bridges /\ bridge.pending \in Pendings
    BY <1>1, BridgeFields DEF ChatInv, ChatDataOK
  <2>2. model \in Models /\ stage \in Stages
    BY DEF ModelNamed, Models, Stages
  <2>3. bridge' = [bridge EXCEPT !.pending = p] /\ bridge'.pending = p
    BY <1>3, <2>1 DEF TakeModel, Bridges
  <2>4. /\ stage = "fetch" \/ stage = "live_llm"
        /\ stage = "live_llm" => ~(bridge.pending.source \subseteq Urls)
    OBVIOUS
  <2> HIDE DEF model, stage
  <2>5. p \in Pendings /\ p.stage = stage /\ p.source = bridge.pending.source
    BY <2>1, <2>2 DEF Pendings
  <2> HIDE DEF p
  <2>6. ConsentsOfStage'
    BY <2>3, <2>4, <2>5 DEF ConsentsOfStage
  <2>7. p.source \intersect Files \subseteq evidence'
    BY <1>1, <2>5 DEF ChatInv, EvidenceInUseIsListed, Carried
  <2> QED
    BY <1>1, <2>3, <2>5, <2>6, <2>7, PromptingKeepsChatInv
<1> QED
  BY <1>2, <1>3

(* A line that agrees, or names a model, while a prompt is open is the     *)
(* user's own answer to it.                                                *)
LEMMA AnswersArePersonal ==
    ASSUME ChatInv, NEW l \in Lines, Bridged(l), bridge.pending # None
    PROVE  /\ Affirmative(Said(l).words) /\ bridge.pending.stage # "key" =>
                  Given(l) = {bridge.pending.stage}
           /\ ModelNamed(Said(l).words) # "none" /\ bridge.pending.stage = "key" =>
                  Given(l) = {"key"}
<1>1. Affirmative(Said(l).words) \/ ModelNamed(Said(l).words) # "none" =>
          pendingRef = None /\ Said(l) = l
  <2>1. Affirmative(Said(l).words) \/ ModelNamed(Said(l).words) # "none" =>
            Said(l).words \intersect {"yes", "one", "two"} # {}
    BY DEF Affirmative, ModelNamed
  <2>2. ~Confirms(l) => pendingRef = None
    BY AnsweredAtOnceCarries DEF Bridged
  <2> QED
    BY <2>1, <2>2, SaidFacts
<1> QED
  BY <1>1 DEF Given

LEMMA TakeConsentKeepsChatInv ==
    ASSUME ChatInv, NEW l \in Lines, TakeConsent(l) PROVE ChatInv'
<1>1. /\ Carried /\ Track(l) /\ UNCHANGED <<shown, missing>>
      /\ bridge.pending # None /\ Bridged(l) /\ Affirmative(Said(l).words)
  BY AnsweredAtOnceCarries DEF TakeConsent, Pending, Bridged, NoAnswer
<1>2. PICK stage \in {"live_llm", "provider", "key"} :
          /\ bridge' = [bridge EXCEPT !.pending.stage = stage]
          /\ stage = "live_llm" => bridge.pending.stage = "fetch"
          /\ stage = "provider" => /\ bridge.pending.stage = "live_llm"
                                   /\ bridge.pending.model = "deepseek"
          /\ stage = "key" => bridge.pending.stage = "provider"
  BY DEF TakeConsent, Pending, Prompting
<1> DEFINE p == [bridge.pending EXCEPT !.stage = stage]
<1>3. bridge \in Bridges /\ bridge.pending \in Pendings
  BY <1>1, BridgeFields DEF ChatInv, ChatDataOK
<1>4. bridge' = [bridge EXCEPT !.pending = p] /\ bridge'.pending = p
  BY <1>2, <1>3 DEF Bridges
<1>5. /\ p \in Pendings /\ p.stage = stage /\ p.source = bridge.pending.source
      /\ p.model = bridge.pending.model
  BY <1>3 DEF Pendings, Stages
<1> HIDE DEF p
<1>6. bridge'.pending # None => consents' = consents \union {bridge.pending.stage}
  <2>1. Given(l) = {bridge.pending.stage}
    BY <1>1, <1>2, AnswersArePersonal
  <2>2. bridge.pending.stage \notin {"question", "model"}
    BY <1>2
  <2> QED
    BY <1>1, <2>1, <2>2 DEF Track
<1>7. ConsentsOfStage'
  <2>1. SUFFICES ASSUME bridge'.pending # None
                 PROVE  /\ p.source \subseteq Urls => "fetch" \in consents'
                        /\ stage \in {"provider", "key"} =>
                               "live_llm" \in consents' /\ p.model = "deepseek"
                        /\ stage = "key" => "provider" \in consents'
    BY <1>4, <1>5 DEF ConsentsOfStage
  <2>2. CASE stage = "live_llm"
    BY <1>2, <1>6, <2>1, <2>2
  <2>3. CASE stage = "provider"
    BY <1>1, <1>2, <1>5, <1>6, <2>1, <2>3 DEF ChatInv, ConsentsOfStage
  <2>4. CASE stage = "key"
    BY <1>1, <1>2, <1>5, <1>6, <2>1, <2>4 DEF ChatInv, ConsentsOfStage
  <2> QED
    BY <2>2, <2>3, <2>4
<1>8. p.source \intersect Files \subseteq evidence'
  BY <1>1, <1>5 DEF ChatInv, EvidenceInUseIsListed, Carried
<1> QED
  BY <1>1, <1>4, <1>5, <1>7, <1>8, PromptingKeepsChatInv

LEMMA DeclineKeepsChatInv ==
    ASSUME ChatInv, NEW l \in Lines, Decline(l) PROVE ChatInv'
<1>1. /\ Carried /\ Track(l) /\ UNCHANGED <<shown, missing>> /\ bridge' = EmptyBridge
  BY AnsweredAtOnceCarries DEF Decline, Pending, Bridged, NoAnswer
<1>2. shown' \in 0 .. 1
  BY <1>1 DEF ChatInv, ChatDataOK
<1> QED
  BY <1>1, <1>2, DroppingKeepsChatInv

(* The ask is run with all the consents it needs. *)
LEMMA ExecuteAskIsConsented ==
    ASSUME ChatInv, NEW l \in Lines, ExecuteAsk(l)
    PROVE  Needs(bridge.pending) \subseteq consents \union Given(l)
<1>1. bridge.pending # None /\ Bridged(l)
  BY DEF ExecuteAsk, Pending
<1>2. bridge.pending \in Pendings
  BY <1>1, BridgeFields DEF ChatInv, ChatDataOK
<1>3. CASE /\ bridge.pending.stage = "live_llm" /\ bridge.pending.model = "gemma4"
           /\ Affirmative(Said(l).words)
  <2>1. Given(l) = {"live_llm"}
    BY <1>1, <1>3, AnswersArePersonal
  <2> QED
    BY <1>1, <1>3, <2>1 DEF ChatInv, ConsentsOfStage, Needs
<1>4. CASE bridge.pending.stage = "key" /\ ModelNamed(Said(l).words) # "none"
  <2>1. Given(l) = {"key"}
    BY <1>1, <1>4, AnswersArePersonal
  <2> QED
    BY <1>1, <1>4, <2>1 DEF ChatInv, ConsentsOfStage, Needs
<1> QED
  BY <1>3, <1>4 DEF ExecuteAsk, Pending

LEMMA ExecuteAskKeepsChatInv ==
    ASSUME ChatInv, NEW l \in Lines, ExecuteAsk(l) PROVE ChatInv'
<1> DEFINE source == bridge.pending.source
<1>1. Carried /\ Track(l) /\ bridge.pending # None
  BY AnsweredAtOnceCarries DEF ExecuteAsk, Pending, Bridged
<1>2. bridge \in Bridges /\ source \in Sources /\ source \intersect Files \subseteq evidence'
  <2>1. bridge \in Bridges /\ bridge.pending \in Pendings
    BY <1>1, BridgeFields DEF ChatInv, ChatDataOK
  <2> QED
    BY <1>1, <2>1 DEF ChatInv, EvidenceInUseIsListed, Carried, Pendings
<1> HIDE DEF source
<1>3. consents' \subseteq Stages /\ named' \in Urls \union {None}
  BY <1>1, TrackKeepsTypes
<1>4. AsksAreConsented'
  BY ExecuteAskIsConsented DEF ExecuteAsk, AsksAreConsented
<1>5. /\ Answer(source) \in Answers /\ Fresh \in 0 .. 1
      /\ Answer(source).number = Fresh /\ Answer(source).source = source
  BY <1>2, FreshAnswer
<1>6. \A seed, serves \in BOOLEAN :
          /\ AskedOf(source, seed, serves) \in Sessions
          /\ AskedOf(source, seed, serves).source = source
  BY <1>2 DEF AskedOf, Sessions
<1>7. /\ bridge' \in Bridges /\ shown' \in 0 .. 1 /\ bridge'.pending = None
      /\ bridge'.session # None => bridge'.session.source = source
      /\ bridge'.answer # None => /\ bridge'.answer = Answer(source) /\ shown' = Fresh
                                  /\ bridge'.session # None
  <2>1. CASE /\ \E byModel \in BOOLEAN :
                   bridge' = [BridgeForAsk EXCEPT !.session = AskedOf(source, TRUE, byModel),
                                                  !.answer = Answer(source)]
             /\ shown' = Fresh
    BY <1>5, <1>6, <2>1, NoneAssumption DEF BridgeForAsk, EmptyBridge, Bridges
  <2>2. CASE /\ bridge' = [BridgeForAsk EXCEPT !.session = AskedOf(source, FALSE, TRUE)]
             /\ UNCHANGED shown
    BY <1>6, <2>2 DEF ChatInv, ChatDataOK, BridgeForAsk, EmptyBridge, Bridges
  <2>3. CASE bridge' = [BridgeForAsk EXCEPT !.unavailable = TRUE] /\ UNCHANGED shown
    BY <2>3 DEF ChatInv, ChatDataOK, BridgeForAsk, EmptyBridge, Bridges
  <2> QED
    BY <2>1, <2>2, <2>3 DEF ExecuteAsk, source
<1>8. ChatDataOK'
  BY <1>1, <1>3, <1>7 DEF ChatInv, ChatDataOK, Carried, settings
<1>9. ConsentsOfStage' /\ EvidenceInUseIsListed'
  BY <1>2, <1>7 DEF ConsentsOfStage, EvidenceInUseIsListed
<1>10. TransformedAnswerIsLatest' /\ AnswerAndSessionAgree'
  BY <1>5, <1>7 DEF TransformedAnswerIsLatest, AnswerAndSessionAgree
<1> QED
  BY <1>1, <1>4, <1>8, <1>9, <1>10 DEF ChatInv, Carried

LEMMA UnansweredKeepChatInv ==
    ASSUME ChatInv, NEW l \in Lines, RefuseOnSnapshot(l) \/ TransformFails(l) \/ Hint(l)
    PROVE  ChatInv'
<1>1. Track(l) /\ UNCHANGED <<bridge, shown, missing>>
  BY DEF RefuseOnSnapshot, TransformFails, Hint, NoAnswer
<1>2. Carried
  <2>1. CASE RefuseOnSnapshot(l) \/ TransformFails(l)
    BY <2>1, AnsweredAtOnceCarries DEF RefuseOnSnapshot, TransformFails, Open, Bridged
  <2>2. CASE Hint(l)
    BY <2>2, GoesOnCarries DEF Hint, NotBridged, ChatInv, ChatDataOK
  <2> QED
    BY <2>1, <2>2
<1> QED
  BY <1>1, <1>2, KeepingKeepsChatInv

LEMMA TransformLocallyKeepsChatInv ==
    ASSUME ChatInv, NEW l \in Lines, TransformLocally(l) PROVE ChatInv'
<1>1. Carried
  BY AnsweredAtOnceCarries DEF TransformLocally, Open, Bridged
<1>2. bridge' = [bridge EXCEPT !.answer = Answer(MetaChanged),
                               !.unavailable = bridge.unavailable]
  BY DEF ChatInv, ChatDataOK, Bridges, TransformLocally
<1>3. bridge.unavailable \in BOOLEAN
  BY DEF ChatInv, ChatDataOK, Bridges
<1> QED
  BY <1>1, <1>2, <1>3, AnsweringKeepsChatInv DEF TransformLocally

(* What the service changes of the seed of a session stays a flag. *)
LEMMA SeedIsFlag ==
    ASSUME ChatInv, bridge.session # None
    PROVE  (bridge.session.seed /\ ~bridge.session.service) \in BOOLEAN
  OBVIOUS

LEMMA TransformByServiceKeepsChatInv ==
    ASSUME ChatInv, NEW l \in Lines, TransformByService(l) PROVE ChatInv'
<1>1. /\ Carried /\ Track(l) /\ UNCHANGED missing
      /\ bridge.session # None /\ bridge.answer # None
  BY AnsweredAtOnceCarries DEF TransformByService, Open, Bridged
<1>2. bridge \in Bridges /\ bridge.unavailable \in BOOLEAN
  BY DEF ChatInv, ChatDataOK, Bridges
<1> DEFINE source == IF bridge.answer.source = Meta THEN MetaChanged ELSE bridge.answer.source
           seed == bridge.session.seed /\ ~bridge.session.service
<1>3. CASE bridge' = [bridge EXCEPT !.answer = Answer(source)] /\ shown' = Fresh
  <2>1. source \in Sources \union {Meta, MetaChanged}
    BY <1>1, <1>2, BridgeFields DEF Answers
  <2>2. source \notin {Meta, MetaChanged} =>
            bridge.session # None /\ bridge.session.source = source
    BY <1>1 DEF ChatInv, AnswerAndSessionAgree
  <2> HIDE DEF source
  <2>3. bridge' = [bridge EXCEPT !.answer = Answer(source), !.unavailable = bridge.unavailable]
    BY <1>2, <1>3 DEF Bridges
  <2> QED
    BY <1>1, <1>2, <1>3, <2>1, <2>2, <2>3, AnsweringKeepsChatInv
<1>4. CASE bridge' = [bridge EXCEPT !.session.seed = seed] /\ UNCHANGED shown
  <2>1. seed \in BOOLEAN
    BY <1>1, SeedIsFlag
  <2> HIDE DEF seed
  <2>2. bridge' = [bridge EXCEPT !.session.seed = seed, !.unavailable = bridge.unavailable]
    BY <1>2, <1>4 DEF Bridges
  <2> QED
    BY <1>1, <1>2, <1>4, <2>1, <2>2, FailingKeepsChatInv
<1> QED
  BY <1>3, <1>4 DEF TransformByService

LEMMA FollowUpKeepsChatInv ==
    ASSUME ChatInv, NEW l \in Lines, FollowUp(l) PROVE ChatInv'
<1>1. /\ Carried /\ Track(l) /\ UNCHANGED missing /\ bridge.session # None
  BY AnsweredAtOnceCarries DEF FollowUp, MustFollowUp, Open, Bridged
<1> DEFINE seed == bridge.session.seed /\ ~bridge.session.service
<1>2. CASE /\ bridge' = [bridge EXCEPT !.answer = Answer(bridge.session.source),
                                       !.unavailable = FALSE]
           /\ shown' = Fresh
  <2>1. bridge.session.source \in Sources
    BY <1>1, BridgeFields DEF ChatInv, ChatDataOK, Sessions
  <2> QED
    BY <1>1, <1>2, <2>1, AnsweringKeepsChatInv
<1>3. CASE /\ bridge' = [bridge EXCEPT !.unavailable = FALSE, !.session.seed = seed]
           /\ UNCHANGED shown
  <2>1. seed \in BOOLEAN
    BY <1>1, SeedIsFlag
  <2> HIDE DEF seed
  <2>2. bridge' = [bridge EXCEPT !.session.seed = seed, !.unavailable = FALSE]
    BY <1>3 DEF ChatInv, ChatDataOK, Bridges
  <2> QED
    BY <1>1, <1>3, <2>1, <2>2, FailingKeepsChatInv
<1> QED
  BY <1>2, <1>3 DEF FollowUp

LEMMA OpenAskKeepsChatInv ==
    ASSUME ChatInv, NEW l \in Lines, OpenAsk(l) PROVE ChatInv'
<1>1. /\ Carried /\ Track(l) /\ UNCHANGED <<shown, missing>> /\ evidence' = Listed(l)
  BY AnsweredAtOnceCarries DEF OpenAsk, Open, Bridged, NoAnswer
<1>2. PICK p : /\ bridge' = [bridge EXCEPT !.pending = p]
               /\ p = IF Said(l).url # None
                       THEN [stage |-> IF Said(l).words = {} THEN "question" ELSE "model",
                             source |-> {Said(l).url}, model |-> "none"]
                       ELSE [stage |-> "model", source |-> Listed(l), model |-> "none"]
  BY DEF OpenAsk
<1>3. /\ p \in Pendings /\ p.stage \in {"question", "model"}
      /\ p.source \intersect Files \subseteq evidence'
  <2>1. CASE Said(l).url # None
    <3>1. Said(l).url \in Urls
      BY <2>1, SaidFacts
    <3>2. {Said(l).url} \intersect Files = {}
      BY <3>1, SourcesAssumption
    <3> QED
      BY <1>2, <2>1, <3>1, <3>2 DEF Pendings, Stages, Models, Sources
  <2>2. CASE Said(l).url = None
    <3>1. Listed(l) \subseteq Files
      BY <1>1 DEF Carried
    <3> QED
      BY <1>1, <1>2, <2>2, <3>1 DEF Pendings, Stages, Models, Sources
  <2> QED
    BY <2>1, <2>2
<1>4. bridge'.pending = p
  BY <1>2 DEF ChatInv, ChatDataOK, Bridges
<1>5. ConsentsOfStage'
  BY <1>3, <1>4 DEF ConsentsOfStage
<1> QED
  BY <1>1, <1>2, <1>3, <1>5, PromptingKeepsChatInv

LEMMA TurnsKeepChatInv ==
    ASSUME ChatInv, NEW l \in Lines, OperationFlow(l) \/ OrdinaryTurn(l)
    PROVE  ChatInv'
<1>1. /\ GoesOn(l) /\ Track(l) /\ bridge' = EmptyBridge /\ shown' = Fresh
      /\ UNCHANGED missing
  BY DEF OperationFlow, OrdinaryTurn, Turn, NotBridged, BridgeAfterTurn
<1>2. Carried
  BY <1>1, GoesOnCarries DEF OperationFlow, OrdinaryTurn, ChatInv, ChatDataOK
<1>3. shown' \in 0 .. 1
  BY <1>1, FreshAnswer DEF ChatInv, ChatDataOK
<1> QED
  BY <1>1, <1>2, <1>3, DroppingKeepsChatInv

LEMMA ClearKeepsChatInv == ASSUME ChatInv, Clear PROVE ChatInv'
<1>1. ChatDataOK'
  BY EmptyBridgeFields DEF ChatInv, ChatDataOK, Clear, BridgeAfterClear, settings
<1> QED
  BY <1>1, EmptyBridgeFields
  DEF ChatInv, Clear, BridgeAfterClear, TaskIsNoAnswer, ConsentsOfStage, AsksAreConsented,
      EvidenceInUseIsListed, TransformedAnswerIsLatest, AnswerAndSessionAgree

(* Whatever else runs does not touch the bridge. *)
LEMMA ElsewhereKeepsChatInv ==
    ASSUME ChatInv, UNCHANGED <<settings, evidence, refs, pendingRef, bridge, ghosts>>,
           pc' \in {"prompt", "turn", "ended"},
           code' \in {None, "ok", "blocking", "runtime_failure", "output_boundary", "failure"}
    PROVE  ChatInv'
<1>1. ChatDataOK'
  BY DEF ChatInv, ChatDataOK, settings, ghosts
<1> QED
  BY <1>1
  DEF ChatInv, ghosts, TaskIsNoAnswer, ConsentsOfStage, AsksAreConsented,
      EvidenceInUseIsListed, TransformedAnswerIsLatest, AnswerAndSessionAgree

LEMMA ChatInvInit == Init => ChatInv
<1> SUFFICES ASSUME Init PROVE ChatInv
  OBVIOUS
<1>1. ChatDataOK
  <2>1. front \in {"chat", "other"} /\ profile \subseteq ChatArgs /\ askable \in BOOLEAN
    BY ProfilesAssumption DEF Init
  <2>2. /\ pc = "prompt" /\ code = None /\ evidence = {} /\ refs = {}
        /\ pendingRef = None /\ bridge = EmptyBridge
        /\ shown = 0 /\ consents = {} /\ named = None
    BY DEF Init
  <2> QED
    BY <2>1, <2>2, EmptyBridgeFields DEF ChatDataOK
<1> QED
  BY <1>1, EmptyBridgeFields
  DEF Init, ChatInv, TaskIsNoAnswer, ConsentsOfStage, AsksAreConsented,
      EvidenceInUseIsListed, TransformedAnswerIsLatest, AnswerAndSessionAgree

LEMMA NextKeepsChatInv == ASSUME ChatInv, [Next]_vars PROVE ChatInv'
<1>1. ASSUME NEW l \in Lines, HandleLine(l) PROVE ChatInv'
  BY <1>1, NamePathKeepsChatInv, HoldPathKeepsChatInv, SummariseSessionKeepsChatInv,
     TakeQuestionKeepsChatInv, TakeModelKeepsChatInv, TakeConsentKeepsChatInv,
     DeclineKeepsChatInv, ExecuteAskKeepsChatInv, UnansweredKeepChatInv,
     TransformLocallyKeepsChatInv, TransformByServiceKeepsChatInv, FollowUpKeepsChatInv,
     OpenAskKeepsChatInv, TurnsKeepChatInv
  DEF HandleLine
<1>2. CASE RunTurn \/ OtherRun \/ UNCHANGED vars
  BY <1>2, ElsewhereKeepsChatInv DEF RunTurn, OtherRun, vars, chatVars, ChatInv, ChatDataOK
<1>3. CASE FinishTurn \/ Leave
  <2>1. UNCHANGED <<settings, evidence, refs, pendingRef, bridge, ghosts>>
    BY <1>3 DEF FinishTurn, Leave
  <2>2. /\ pc' \in {"prompt", "turn", "ended"}
        /\ code' \in {None, "ok", "blocking", "runtime_failure", "output_boundary", "failure"}
    BY <1>3 DEF FinishTurn, Leave, Exits, ChatInv, ChatDataOK
  <2> QED
    BY <2>1, <2>2, ElsewhereKeepsChatInv
<1> QED
  BY <1>1, <1>2, <1>3, ClearKeepsChatInv DEF Next

THEOREM ChatInvariant == Spec => []ChatInv
  BY ChatInvInit, NextKeepsChatInv, PTL DEF Spec

(* The types of the chat, the run and the invocation. *)
THEOREM Typing == Spec => []ChatTypeOK
<1>1. ChatInv /\ RunInv => ChatTypeOK
  BY DEF ChatInv, ChatDataOK, AsksAreConsented, RunInv, LlmInv, ChatTypeOK
<1> QED
  BY <1>1, ChatInvariant, ChatRunsAreRuns, RunInvariant, PTL

(* No ask fetches or calls a model without each consent it needs. *)
THEOREM Consent == Spec => []AsksAreConsented
  BY ChatInvariant, PTL DEF ChatInv

(* The bridge never works on evidence that is out of use. *)
THEOREM EvidenceInUse == Spec => []EvidenceInUseIsListed
  BY ChatInvariant, PTL DEF ChatInv

(* A transformation is one of the last answer shown, *)
THEOREM LatestAnswer == Spec => []TransformedAnswerIsLatest
  BY ChatInvariant, PTL DEF ChatInv

(* with the service of the session that gave it. *)
THEOREM AnswersAgree == Spec => []AnswerAndSessionAgree
  BY ChatInvariant, PTL DEF ChatInv

=============================================================================
