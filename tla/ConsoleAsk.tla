----------------------------- MODULE ConsoleAsk -----------------------------
(***************************************************************************)
(* `cognition-console ask --guided`, run several times by one user: the    *)
(* consents it collects, the provider key it sets up, the answer it forms, *)
(* the follow-up loop over that answer, and the session it saves at the    *)
(* end.  One console at a time; the store it saves to is the list that     *)
(* SessionCatalog specifies and SessionStore implements.  Its evidence     *)
(* comes through EvidenceFetch: from a page, or from an archive that       *)
(* fetch commands, which run beside it, write; its answers come through    *)
(* OutputGovernance.                                                       *)
(*                                                                         *)
(* Data.  A source is a URL or an evidence file.  An answer is what the    *)
(* code tells apart: how it came about, its status and the number its      *)
(* answer run carries (0 for the first answer, k for the k-th follow-up,   *)
(* NoRun for an answer that is no run).  A success always has evidence     *)
(* and digest refs (the result builder fails it otherwise), so it can      *)
(* always be followed up and saved.  The questions before the first        *)
(* consent change nothing, and are one step (Start).                       *)
(***************************************************************************)
EXTENDS EvidenceFetch, OutputGovernance, Naturals, Sequences, FiniteSets

CONSTANTS
    Urls,           \* pages; the other sources are the evidence archives
    Roots,          \* the state roots a session can be saved to
    ConsoleSlug,    \* the slug of the refs of all that the console fetches
    MaxAsks,        \* bound: asks run
    MaxTurns        \* bound: turns of a conversation

ASSUME SourcesAssumption == Urls \intersect Files = {} /\ ConsoleSlug \notin Files
ASSUME MaxAsksAssumption == MaxAsks \in Nat
ASSUME MaxTurnsAssumption == MaxTurns \in Nat \ {0}

Sources == Urls \union Files
NoRun == MaxTurns

VARIABLES
    pc,         \* what the console does or waits for
    request,    \* what the user has answered so far
    state,      \* next_state of the last turn: the interaction state, or None
    turns,      \* session_turns: the turns shown so far
    contacted,  \* whom this ask has contacted: the source's host, a model
    grounded,   \* history: its evidence comes from a fetch with all controls
    code,       \* the exit code of the last ask
    keychain,   \* a provider key is stored
    asks,       \* asks started
    sessions,   \* [Roots -> [SessionIds -> the session listed, or None]]
    told        \* history: [1 .. MaxAsks -> where the ask was told saved and
                \*  about what source, or None]

vars == <<pc, request, state, turns, contacted, code, keychain, asks, sessions, told,
          grounded, job, archives, call>>

evidenceVars == <<grounded, job, archives>>

Models == {"deepseek", "gemma4", "unknown"}
Answers == {"unasked", "yes", "no"}

NoRequest == [source |-> None, question |-> FALSE, json |-> FALSE,
              model |-> "unknown", fetch |-> "unasked", llm |-> "unasked",
              provider |-> "unasked", key |-> "none", refused |-> FALSE]

(* Ref slugs and session ids.  The evidence ref of a fetched page is made  *)
(* of the channel's name; an evidence file has the ref that it carries.    *)
EvidenceSlug(s) == IF s \in Urls THEN ConsoleSlug ELSE s

SessionIds == (Files \union {ConsoleSlug}) \X (0 .. MaxTurns)

Init ==
    /\ pc = "off"
    /\ request = NoRequest
    /\ state = None
    /\ turns = <<>>
    /\ contacted = {}
    /\ grounded = FALSE
    /\ code = None
    /\ keychain \in BOOLEAN   \* an earlier ask may have stored a key
    /\ asks = 0
    /\ sessions = [r \in Roots |-> [i \in SessionIds |-> None]]
    /\ told = [n \in 1 .. MaxAsks |-> None]
    /\ FetchInit
    /\ call = NoCall

LastTurn == turns[Len(turns)]

-----------------------------------------------------------------------------
(* Collecting the request.                                                 *)

Start(source, question, json, model) ==
    /\ pc = "off"
    /\ asks < MaxAsks
    /\ asks' = asks + 1
    /\ request' = [NoRequest EXCEPT !.source = source, !.question = question,
                                    !.json = json, !.model = model]
    /\ pc' = IF source \in Urls THEN "fetch" ELSE "llm"
    /\ state' = None
    /\ turns' = <<>>
    /\ contacted' = {}
    /\ grounded' = FALSE
    /\ code' = None
    /\ UNCHANGED <<keychain, sessions, told, job, archives, call>>

(* Everything but the request is left alone while it is collected. *)
Collect(next, req) ==
    /\ pc' = next
    /\ request' = req
    /\ UNCHANGED <<state, turns, contacted, code, asks, sessions, told>>

ConsentToFetch(answer) ==
    /\ pc = "fetch"
    /\ Collect("llm", [request EXCEPT !.fetch = answer])
    /\ UNCHANGED keychain

(* channel_blocking_reasons, before any about the provider. *)
ConsentToLlm(answer) ==
    LET refused == ~request.question \/ request.fetch = "no" \/ answer = "no" IN
    /\ pc = "llm"
    /\ Collect(IF request.model = "deepseek" /\ ~refused THEN "provider" ELSE "run",
               [request EXCEPT !.llm = answer, !.refused = refused])
    /\ UNCHANGED keychain

Refuse == Collect("run", [request EXCEPT !.refused = TRUE])

DeclineProvider ==
    /\ pc = "provider"
    /\ Collect("run", [request EXCEPT !.provider = "no", !.refused = TRUE])
    /\ UNCHANGED keychain

(* A key in the environment is used without asking further. *)
ConsentToProvider(inEnvironment) ==
    /\ pc = "provider"
    /\ IF inEnvironment
       THEN Collect("run", [request EXCEPT !.provider = "yes", !.key = "environment"])
       ELSE Collect("key", [request EXCEPT !.provider = "yes"])
    /\ UNCHANGED keychain

UseStoredKey ==
    /\ pc = "key"
    /\ keychain
    /\ Collect("run", [request EXCEPT !.key = "stored"])
    /\ UNCHANGED keychain

(* Without a terminal, or with --json, the key cannot be asked for. *)
PromptForKey ==
    /\ pc = "key"
    /\ ~request.json
    /\ Collect("secret", request)
    /\ UNCHANGED keychain

TypeKey ==
    /\ pc = "secret"
    /\ Collect("persist", request)
    /\ UNCHANGED keychain

UseKeyOnce ==
    /\ pc = "persist"
    /\ Collect("run", [request EXCEPT !.key = "once"])
    /\ UNCHANGED keychain

StoreKey ==
    /\ pc = "persist"
    /\ Collect("run", [request EXCEPT !.key = "store"])
    /\ keychain' = TRUE

(* The choice is to cancel or is none of the menu; the stored key is       *)
(* missing or cannot be loaded; the prompt is not available; nothing is    *)
(* typed; the key cannot be saved.                                         *)
NoKey ==
    /\ pc \in {"key", "secret", "persist"}
    /\ Refuse
    /\ UNCHANGED keychain

-----------------------------------------------------------------------------
(* The first answer.                                                       *)

End(exit) == pc' = "off" /\ code' = exit

(* Mutant: that the evidence was insufficient is an answer too. *)
InsufficientIsOk(status) ==
    IF status \in {"success", "insufficient_evidence"} THEN 0
    ELSE IF status = "blocked" THEN 3
    ELSE 1

(* Exit codes of a turn: ok, runtime failure, blocking. *)
ExitCode(status) ==
    IF status = "success" THEN 0
    ELSE IF status \in {"blocked", "insufficient_evidence"} THEN 3
    ELSE 1

(* _product_console_follow_up_available *)
Available(st, turn) == st # None /\ turn.status = "success" /\ turn.offers

(* What the console does with the first output. *)
AfterFirst(st, turn) ==
    /\ state' = st
    /\ turns' = <<turn>>
    /\ IF request.json THEN End(ExitCode(turn.status))
       ELSE IF Available(st, turn) THEN pc' = "prompt" /\ UNCHANGED code
       ELSE IF ExitCode(turn.status) = 0 THEN pc' = "save" /\ UNCHANGED code
       ELSE End(ExitCode(turn.status))
    /\ UNCHANGED <<request, keychain, asks, sessions, told>>

(* An output that is no success: no answer, no answer run to build on.     *)
(* performed: that a model was called is part of what is shown.            *)
Failure(kind, status) ==
    [kind |-> kind, status |-> status, run |-> NoRun, offers |-> FALSE,
     performed |-> FALSE, text |-> "none"]
Success(kind, run) ==
    [kind |-> kind, status |-> "success", run |-> run, offers |-> TRUE,
     performed |-> FALSE, text |-> "fit"]

(* Mutant: the entry trusts the channel to have asked. *)
AnythingGoes == FALSE

(* The preflight of the ask entry: the channel's own reasons; then the     *)
(* consents again, as far as the request shows them; then the model.       *)
Preflighted ==
    \/ request.refused
    \/ request.source \in Urls /\ request.fetch # "yes"
    \/ ~request.question
    \/ request.llm # "yes"
    \/ request.model = "unknown"

Model == IF request.model = "deepseek" THEN "provider" ELSE "local_model"

Block ==
    /\ pc = "run"
    /\ Preflighted
    /\ AfterFirst(None, Failure("answer", "blocked"))
    /\ UNCHANGED contacted

(* The evidence bridge.  With facts the ask goes on; those of an archive   *)
(* that is empty are insufficient, those blocked or unreadable block.      *)
TakeEvidence(facts, consented) ==
    \/ /\ facts = "ready"
       /\ pc' = "answer"
       /\ grounded' = consented
       /\ UNCHANGED <<request, state, turns, code, keychain, asks, sessions, told>>
    \/ /\ facts = "empty"
       /\ AfterFirst(None, Failure("answer", "insufficient_evidence"))
       /\ UNCHANGED grounded
    \/ /\ facts \in {"blocked", "absent", "torn"}
       /\ AfterFirst(None, Failure("answer", "blocked"))
       /\ UNCHANGED grounded

(* Mutant: a file that holds no facts yet will do.                         *)
ReadAnyArchive ==
    /\ pc = "run"
    /\ ~Preflighted
    /\ request.source \in Files
    /\ LET archive == archives[request.source] IN
         TakeEvidence(IF archive.facts = "torn" THEN "ready" ELSE archive.facts,
                      archive.consented)
    /\ UNCHANGED <<contacted, job, archives>>

ReadArchive ==
    /\ pc = "run"
    /\ ~Preflighted
    /\ request.source \in Files
    /\ TakeEvidence(archives[request.source].facts, archives[request.source].consented)
    /\ UNCHANGED <<contacted, job, archives>>

(* What the console asks the user for, and the refs that the entry         *)
(* completes a request with.  The URL may not be one that can be fetched.  *)
AskControls(fetchable) ==
    (IF request.fetch = "yes" THEN Controls
     ELSE {"controlled_output_ref", "sanitized_evidence_ref", "fetchable_url"})
        \ (IF fetchable THEN {} ELSE {"fetchable_url"})

BeginFetch(fetchable) ==
    /\ pc = "run"
    /\ ~Preflighted
    /\ request.source \in Urls
    /\ job' = [job EXCEPT ![Console] =
                  Called([NoJob EXCEPT !.granted = AskControls(fetchable)])]
    /\ pc' = "fetching"
    /\ UNCHANGED <<request, state, turns, contacted, code, keychain, asks, sessions,
                   told, grounded, archives>>

FetchPage(reached) ==
    /\ pc = "fetching"
    /\ Respond(Console, reached)
    /\ contacted' = contacted \union (IF reached THEN {"source"} ELSE {})
    /\ UNCHANGED <<pc, request, state, turns, code, keychain, asks, sessions, told,
                   grounded>>

(* Facts that are not ready block, whatever became of the fetch.           *)
TakePage ==
    /\ pc = "fetching"
    /\ job[Console].at = "fetched"
    /\ LET outcome == job[Console].outcome IN
         TakeEvidence(IF outcome.facts = "ready" THEN "ready" ELSE "blocked",
                      outcome.consented)
    /\ job' = [job EXCEPT ![Console] = NoJob]
    /\ UNCHANGED <<contacted, archives>>

GetEvidence ==
    \/ ReadArchive
    \/ \E fetchable \in BOOLEAN : BeginFetch(fetchable)
    \/ \E reached \in BOOLEAN : FetchPage(reached)
    \/ TakePage

(* No request can be made of the evidence, or there is no model service.   *)
NoAnswer ==
    /\ pc = "answer"
    /\ AfterFirst(None, Failure("answer", "blocked"))
    /\ UNCHANGED contacted

(* The evidence is too short for what is asked, or the request beyond its  *)
(* scope: a success without a model, with a seed and no service.           *)
AnswerBriefly ==
    /\ pc = "answer"
    /\ AfterFirst([seed |-> TRUE, service |-> FALSE, index |-> 0],
                  Success("brief", 0))
    /\ UNCHANGED contacted

(* While the model answers, the console waits.                             *)
Generate(next) ==
    /\ pc' = next
    /\ call' = Asked
    /\ UNCHANGED <<request, state, turns, contacted, code, keychain, asks, sessions,
                   told>>

Generating == {"answering", "following", "transforming"}

AskModel == pc = "answer" /\ Generate("answering")

Wait ==
    /\ pc \in Generating
    /\ Think
    /\ contacted' = contacted \union (IF call'.reached THEN {Model} ELSE {})
    /\ UNCHANGED <<pc, request, state, turns, code, keychain, asks, sessions, told>>

(* Mutant: what the probe returns as a success is an answer.               *)
AcceptedAsReturned == call.success

(* What the probe returns is looked at again: there has to be a text that  *)
(* is fit to be shown as the answer to this question, or as what the       *)
(* transformation was to bring about.                                      *)
Accepted == call.success /\ call.text = "fit"

(* A turn with what the result of the call says.                           *)
Said(turn) ==
    [turn EXCEPT !.performed = call.performed,
                 !.text = IF turn.status = "success" THEN call.text ELSE "none"]

Take(at) ==
    /\ pc = at
    /\ call.at = "returned"
    /\ call' = NoCall
    /\ UNCHANGED contacted

TakeAnswer ==
    /\ Take("answering")
    /\ AfterFirst([seed |-> Accepted, service |-> TRUE, index |-> 0],
                  Said(IF Accepted THEN Success("answer", 0)
                       ELSE Failure("answer", "failed")))

-----------------------------------------------------------------------------
(* The follow-up loop.                                                     *)

(* Mutant: a failed turn goes back to the prompt. *)
AfterFailedTurnToo(st, turn) ==
    /\ state' = st
    /\ turns' = Append(turns, turn)
    /\ pc' = "prompt"
    /\ UNCHANGED <<code, request, keychain, asks, sessions, told>>

(* What the console does with the output of a follow-up. *)
AfterTurn(st, turn) ==
    /\ state' = st
    /\ turns' = Append(turns, turn)
    /\ IF turn.status # "success" THEN End(ExitCode(turn.status))
       ELSE pc' = (IF Available(st, turn) THEN "prompt" ELSE "save") /\ UNCHANGED code
    /\ UNCHANGED <<request, keychain, asks, sessions, told>>

Prompted == pc = "prompt" /\ Len(turns) < MaxTurns

(* A transformation or a session summary: an answer that is no run, and    *)
(* that can be followed up if the state's seed can.                        *)
Local(kind) == [kind |-> kind, status |-> "success", run |-> NoRun,
                offers |-> state.seed, performed |-> FALSE, text |-> "fit"]

(* The question is about the session so far. *)
Summarise ==
    /\ Prompted
    /\ AfterTurn(state, Local("summary"))
    /\ UNCHANGED contacted

(* The question is to transform the last answer, and needs no model. *)
TransformLocally ==
    /\ Prompted
    /\ AfterTurn(state, Local("transform"))
    /\ UNCHANGED contacted

TransformUnserved ==
    /\ Prompted
    /\ ~state.service
    /\ AfterTurn(state, Failure("transform", "failed"))
    /\ UNCHANGED contacted

TransformByModel == Prompted /\ state.service /\ Generate("transforming")

TakeTransformation ==
    /\ Take("transforming")
    /\ AfterTurn([state EXCEPT !.seed = @ /\ Accepted],
                 Said(IF Accepted THEN Local("transform")
                      ELSE Failure("transform", "failed")))

(* Any other question: a follow-up over the same evidence.  Its number is  *)
(* the state's, not the console's.                                         *)
CannotFollowUp == ~state.seed \/ ~state.service

FollowUpRefused ==
    /\ Prompted
    /\ CannotFollowUp
    /\ AfterTurn(state, Failure("refused", "blocked"))
    /\ UNCHANGED contacted

(* Mutant: the state's number is not advanced. *)
FollowedUpAgain(seed) == [state EXCEPT !.seed = seed]

(* Mutant: the console counts the turn and the state counts it again. *)
FollowedUpTwice(seed) == [state EXCEPT !.seed = seed, !.index = @ + 2]

FollowedUp(seed) == [state EXCEPT !.seed = seed, !.index = @ + 1]

FollowUpBriefly ==
    /\ Prompted
    /\ ~CannotFollowUp
    /\ AfterTurn(FollowedUp(TRUE), Success("brief", state.index + 1))
    /\ UNCHANGED contacted

FollowUpByModel == Prompted /\ ~CannotFollowUp /\ Generate("following")

TakeFollowUp ==
    /\ Take("following")
    /\ AfterTurn(FollowedUp(Accepted),
                 Said(IF Accepted THEN Success("answer", state.index + 1)
                      ELSE Failure("answer", "failed")))

(* An exception of the model's or the evidence's adapter, or Ctrl-C while  *)
(* they run, is caught by nothing and ends the process.  (A process that   *)
(* the signal ends has no exit code of its own: any but 0 will do.)        *)
MayBeContacted ==
    IF pc = "fetching" /\ job[Console].at = "calling" THEN {"source"}
    ELSE IF pc \in Generating THEN {Model}
    ELSE {}

Raise ==
    /\ pc \in {"run", "fetching", "answer", "prompt"} \union Generating
    /\ ~(pc = "run" /\ Preflighted)
    /\ contacted' \in {contacted, contacted \union MayBeContacted}
    /\ job' = [job EXCEPT ![Console] = NoJob]
    /\ call' = NoCall
    /\ End(1)
    /\ UNCHANGED <<request, state, turns, keychain, asks, sessions, told, grounded,
                   archives>>

(* An exit word; a blank line only prompts again. *)
Leave ==
    /\ pc = "prompt"
    /\ pc' = "save"
    /\ UNCHANGED <<request, state, turns, contacted, code, keychain, asks,
                   sessions, told>>

-----------------------------------------------------------------------------
(* Saving.                                                                 *)

(* The first answer run among the last output's and the turns'. *)
FirstRun ==
    LET outputs == <<LastTurn>> \o turns
        IsFirst(n) == /\ outputs[n].run # NoRun
                      /\ \A m \in 1 .. n - 1 : outputs[m].run = NoRun
    IN outputs[CHOOSE n \in 1 .. Len(outputs) : IsFirst(n)].run

SessionId == <<EvidenceSlug(request.source), FirstRun>>

Save(root) ==
    /\ pc = "save"
    /\ sessions' = [sessions EXCEPT ![root][SessionId] =
                       [source |-> request.source, turns |-> turns]]
    /\ told' = [told EXCEPT ![asks] = <<root, SessionId, request.source>>]
    /\ End(0)
    /\ UNCHANGED <<request, state, turns, contacted, keychain, asks>>

(* The user declines, or closes the input; or the save fails, which does   *)
(* not change the exit code.                                               *)
DoNotSave ==
    /\ pc = "save"
    /\ End(0)
    /\ UNCHANGED <<request, state, turns, contacted, keychain, asks, sessions, told>>

-----------------------------------------------------------------------------
Asking == {"fetch", "llm", "provider", "key"}

(* Ctrl-C at a prompt.  (Those of the key itself take it as a cancel.) *)
Interrupt ==
    /\ pc \in Asking \union {"prompt", "save"}
    /\ End(130)
    /\ UNCHANGED <<request, state, turns, contacted, keychain, asks, sessions, told>>

(* The end of the input at a prompt. *)
Close ==
    /\ pc \in Asking \union {"prompt"}
    /\ End(0)
    /\ UNCHANGED <<request, state, turns, contacted, keychain, asks, sessions, told>>

Consent ==
    \/ \E answer \in {"yes", "no"} : ConsentToFetch(answer) \/ ConsentToLlm(answer)
    \/ DeclineProvider
    \/ \E inEnvironment \in BOOLEAN : ConsentToProvider(inEnvironment)

ProviderKey ==
    UseStoredKey \/ PromptForKey \/ TypeKey \/ UseKeyOnce \/ StoreKey \/ NoKey

FirstAnswer == Block \/ NoAnswer \/ AnswerBriefly

FollowUp ==
    \/ Summarise \/ TransformLocally \/ TransformUnserved
    \/ FollowUpRefused \/ FollowUpBriefly
    \/ Leave

CallModel ==
    \/ AskModel \/ TransformByModel \/ FollowUpByModel
    \/ Wait
    \/ TakeAnswer \/ TakeTransformation \/ TakeFollowUp

(* The steps without evidence to get and without a model.                  *)
Converse ==
    \/ Consent
    \/ ProviderKey
    \/ FirstAnswer
    \/ FollowUp
    \/ \E root \in Roots : Save(root)
    \/ DoNotSave
    \/ Interrupt
    \/ Close

Next ==
    \/ \E source \in Sources, question, json \in BOOLEAN, model \in Models :
        Start(source, question, json, model)
    \/ Converse /\ UNCHANGED <<evidenceVars, call>>
    \/ CallModel /\ UNCHANGED evidenceVars
    \/ GetEvidence /\ UNCHANGED call
    \/ Raise
    \/ \E c \in Commands :
        /\ FetchCommand(c)
        /\ UNCHANGED <<pc, request, state, turns, contacted, code, keychain, asks,
                       sessions, told, grounded, call>>

Spec == Init /\ [][Next]_vars

-----------------------------------------------------------------------------
(* Properties.                                                             *)

Statuses == {"success", "blocked", "insufficient_evidence", "failed"}

Turns == [kind : {"answer", "brief", "summary", "transform", "refused"},
          status : Statuses, run : 0 .. NoRun, offers : BOOLEAN,
          performed : BOOLEAN, text : {"none", "unfit", "fit"}]

Requests == [source : Sources \union {None}, question : BOOLEAN,
             json : BOOLEAN, model : Models, fetch : Answers, llm : Answers,
             provider : Answers, refused : BOOLEAN,
             key : {"none", "environment", "stored", "once", "store"}]

States == [seed : BOOLEAN, service : BOOLEAN, index : 0 .. MaxTurns]

SavedSessions == [source : Sources, turns : Seq(Turns)]

ASSUME NoneIsNoEntry ==
    /\ None \notin SavedSessions
    /\ None \notin Roots \X SessionIds \X Sources

(* The type of every variable. *)
TypeOK ==
    /\ FetchTypeOK
    /\ grounded \in BOOLEAN
    /\ pc \in {"off", "run", "fetching", "answer", "prompt", "save", "secret", "persist"}
                \union Asking \union Generating
    /\ call \in Calls
    /\ request \in Requests
    /\ state \in States \union {None}
    /\ turns \in Seq(Turns) /\ Len(turns) <= MaxTurns
    /\ contacted \subseteq {"source", "provider", "local_model"}
    /\ code \in {None, 0, 1, 3, 130}
    /\ keychain \in BOOLEAN
    /\ asks \in 0 .. MaxAsks
    /\ sessions \in [Roots -> [SessionIds -> SavedSessions \union {None}]]
    /\ told \in [1 .. MaxAsks -> (Roots \X SessionIds \X Sources) \union {None}]

(* Whatever way the console's questions, the entry's preflight and the     *)
(* follow-ups take: the source's host is contacted only after the user     *)
(* agreed to the fetch, a model only after he agreed to a model's answer,  *)
(* and the external provider only after he agreed to it and a key was      *)
(* settled.  No host at all is reached for a request, his or a command's,  *)
(* that lacks one of the controls.                                         *)
NothingUnasked ==
    /\ ReachedWithAllControls
    /\ "source" \in contacted => request.fetch = "yes"
    /\ contacted \intersect {"provider", "local_model"} # {} => request.llm = "yes"
    /\ "provider" \in contacted => request.provider = "yes" /\ request.key # "none"

(* An answer rests on evidence: what it was formed from was fetched, now   *)
(* or earlier, by a request that had every control, and its archive was    *)
(* whole when it was read, whatever commands fetch, archive, overwrite or  *)
(* die at that time.                                                       *)
AnswersAreGrounded ==
    turns # <<>> /\ turns[1].status = "success" => grounded

(* At the follow-up prompt the state has evidence to go on with, so that   *)
(* building the follow-up's context never raises, and its turn number is   *)
(* that of the last grounded follow-up that was shown.                     *)
FollowUpRuns == {n \in 1 .. Len(turns) : turns[n].run \notin {0, NoRun}}

PromptStateIsCurrent ==
    pc = "prompt" =>
        /\ state # None /\ state.seed
        /\ LastTurn.status = "success"
        /\ state.index = Cardinality(FollowUpRuns)

(* No two turns of a conversation carry the same answer run: its number    *)
(* goes into the run's ref, and summaries and transformations between two  *)
(* follow-ups, which the console counts and the state does not, do not     *)
(* make it repeat.                                                         *)
RunsAreDistinct ==
    \A i, j \in 1 .. Len(turns) :
        turns[i].run = turns[j].run /\ turns[i].run # NoRun => i = j

(* A saved session is a conversation that went well to its end: it starts  *)
(* with an answer run and no turn of it is blocked or failed.              *)
SavedTurnsSucceeded ==
    \A r \in Roots, i \in SessionIds : sessions[r][i] # None =>
        /\ sessions[r][i].turns # <<>>
        /\ sessions[r][i].turns[1].run = 0
        /\ \A n \in 1 .. Len(sessions[r][i].turns) :
             sessions[r][i].turns[n].status = "success"

(* The console ends with code 0 only when what it showed last is a         *)
(* successful answer, or when it showed none.                              *)
ZeroMeansAnswered ==
    code = 0 /\ turns # <<>> => LastTurn.status = "success"

(* What is shown as an answer is fit to be one, however the probe came to  *)
(* it, and a turn that is no success shows nothing of what a model said.   *)
ShownAnswersAreFit ==
    \A n \in 1 .. Len(turns) :
        turns[n].text = IF turns[n].status = "success" THEN "fit" ELSE "none"

TurnIsShown == turns' # turns /\ turns' # <<>>

(* If a model was reached for a turn, by whichever of the attempts, the    *)
(* turn says that a call was performed, also if nothing came of it.        *)
ModelCallsAreReported ==
    [][TurnIsShown /\ call.reached => LastTurn'.performed]_vars

(* Once the model has given an output that probe and ask find good, the    *)
(* turn succeeds: no further attempt takes the output's place or loses it. *)
FineAnswersAreKept ==
    [][TurnIsShown /\ call.fine => LastTurn'.status = "success"]_vars

(* What the console tells the user when it offers a follow-up ("you can    *)
(* go on asking about the same evidence"): no such question is refused.    *)
(* The code does not keep it.                                              *)
FollowUpsAreServed ==
    \A n \in 1 .. Len(turns) : turns[n].kind # "refused"

(* A session about a source that the user was told is saved stays in the   *)
(* list, as long as nobody deletes it; it may be replaced by a later one   *)
(* about the same source.  The code does not keep it.                      *)
SavedSourcesStay ==
    \A n \in 1 .. MaxAsks : told[n] # None =>
        sessions[told[n][1]][told[n][2]].source = told[n][3]
=============================================================================
