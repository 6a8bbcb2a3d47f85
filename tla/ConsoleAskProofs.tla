-------------------------- MODULE ConsoleAskProofs --------------------------
(* Proofs about ConsoleAsk and the fetches beneath it: consents, controls, *)
(* evidence and conversations, for any sources, commands and roots and for *)
(* conversations of any length.                                            *)
EXTENDS ConsoleAsk, SequenceTheorems, FiniteSetTheorems, TLAPS

-----------------------------------------------------------------------------
(* Fetches.  A job is good if it calls and has reached a host only with    *)
(* every control, and if its outcome says so; facts come only with them.   *)

GoodOutcomes == {o \in Outcomes : /\ o.network => o.performed
                                  /\ o.facts = "ready" => o.consented}

GoodJobs == {j \in Jobs : /\ j.outcome \in GoodOutcomes
                          /\ j.at = "calling" => j.granted = Controls
                          /\ j.reached => j.granted = Controls /\ j.outcome.performed}

GoodArchives == {x \in Archives : x.facts = "ready" => x.consented}

Actors == Commands \union {Console}

FetchInv == /\ job \in [Actors -> GoodJobs]
            /\ archives \in [Files -> GoodArchives]

LEMMA RefusedIsGood == Refused \in GoodOutcomes
  BY DEF Refused, GoodOutcomes, Outcomes, Facts

LEMMA NoJobIsGood == NoJob \in GoodJobs /\ Ended \in GoodJobs
  BY RefusedIsGood DEF NoJob, Ended, GoodJobs, Jobs, GoodOutcomes

(* A fetch that is called has every control: gateway, gate and URL ask for *)
(* all but the user's sentence, and that one is asked for before.          *)
LEMMA CalledIsGood ==
    ASSUME NEW j \in Jobs, ~j.reached, j.outcome = Refused,
           "confirmation" \in j.granted \/ "allow_runtime_fetch" \notin j.granted
    PROVE  Called(j) \in GoodJobs
<1>1. CASE GatewayAllows(j.granted) /\ UrlFetchAllows(j.granted)
  <2>1. j.granted = Controls
    BY <1>1 DEF Jobs, GatewayAllows, UrlFetchAllows, GatePassed, OperatorApproved,
                OutputControlled, Controls
  <2>2. Called(j) = [j EXCEPT !.at = "calling"]
    BY <1>1 DEF Called
  <2> QED
    BY <2>1, <2>2, RefusedIsGood DEF Jobs, GoodJobs
<1>2. CASE ~(GatewayAllows(j.granted) /\ UrlFetchAllows(j.granted))
  <2>1. Called(j) = Returned(j, Refused)
    BY <1>2 DEF Called
  <2>2. Returned(j, Refused) \in GoodJobs
    BY RefusedIsGood, NoJobIsGood DEF Returned, NoJob, Jobs, GoodJobs
  <2> QED
    BY <2>1, <2>2
<1> QED
  BY <1>1, <1>2

LEMMA RespondKeeps ==
    ASSUME FetchInv, NEW a \in Actors, NEW reached \in BOOLEAN, Respond(a, reached)
    PROVE  FetchInv'
<1>1. job[a] \in GoodJobs /\ job[a].at = "calling" /\ job[a].granted = Controls
  BY DEF FetchInv, Respond, GoodJobs
<1>2. PICK outcome \in {Raised, Rejected}
             \union {Page(job[a], f) : f \in IF reached THEN {"ready", "blocked"} ELSE {}} :
        job' = [job EXCEPT ![a].at = "fetched", ![a].reached = reached,
                           ![a].outcome = outcome]
  BY DEF Respond
<1>3. outcome \in GoodOutcomes /\ outcome.performed
  <2>1. \A f \in {"ready", "blocked"} :
          Page(job[a], f) \in GoodOutcomes /\ Page(job[a], f).performed
    BY <1>1 DEF Page, Rejected, Raised, Refused, GoodOutcomes, Outcomes, Facts
  <2>2. /\ Raised \in GoodOutcomes /\ Raised.performed
        /\ Rejected \in GoodOutcomes /\ Rejected.performed
    BY DEF Rejected, Raised, Refused, GoodOutcomes, Outcomes, Facts
  <2> QED
    BY <2>1, <2>2
<1>4. [job[a] EXCEPT !.at = "fetched", !.reached = reached, !.outcome = outcome]
        \in GoodJobs
  BY <1>1, <1>3 DEF GoodJobs, Jobs, GoodOutcomes
<1>5. job' = [job EXCEPT ![a] = [job[a] EXCEPT !.at = "fetched", !.reached = reached,
                                               !.outcome = outcome]]
  BY <1>2 DEF FetchInv
<1> QED
  BY <1>4, <1>5 DEF FetchInv, Respond

LEMMA JobKeeps ==
    ASSUME FetchInv, NEW a, NEW j \in GoodJobs,
           job' = [job EXCEPT ![a] = j], UNCHANGED archives
    PROVE  FetchInv'
  BY DEF FetchInv

LEMMA CommandKeeps ==
    ASSUME FetchInv, NEW c \in Commands, FetchCommand(c)
    PROVE  FetchInv'
<1>0. c \in Actors /\ job[c] \in GoodJobs
  BY DEF FetchInv, Actors
<1>1. ASSUME NEW file \in Files \union {None}, NEW overwrite \in BOOLEAN,
             NEW granted \in Grants,
             LET j == Request(c, file, overwrite, granted) IN
             FetchUnconfirmed(c, j) \/ FetchWithoutOutput(c, j) \/ Fetch(c, j)
      PROVE  FetchInv'
  <2> DEFINE j == Request(c, file, overwrite, granted)
  <2>1. granted \in SUBSET Controls
    BY DEF Grants
  <2>2. j.granted = granted /\ j.file = file /\ j.overwrite = overwrite
    BY DEF Request, NoJob
  <2>3. CASE FetchUnconfirmed(c, j)
    <3>1. Returned(j, Refused) \in GoodJobs
      BY <2>2, RefusedIsGood, NoJobIsGood DEF Returned, NoJob, Jobs, GoodJobs
    <3> QED
      BY <2>3, <3>1, JobKeeps DEF FetchUnconfirmed, Begin
  <2>4. CASE FetchWithoutOutput(c, j)
    BY <2>4, JobKeeps, NoJobIsGood DEF FetchWithoutOutput, Begin
  <2>5. CASE Fetch(c, j)
    <3>1. j \in Jobs /\ ~j.reached /\ j.outcome = Refused
      BY <2>1, RefusedIsGood DEF Request, NoJob, Jobs, GoodOutcomes
    <3>2. Called(j) \in GoodJobs
      BY <2>1, <2>2, <2>5, <3>1, CalledIsGood DEF Fetch
    <3> QED
      BY <2>5, <3>2, JobKeeps DEF Fetch, Begin
  <2> QED
    BY <1>1, <2>3, <2>4, <2>5
<1>2. ASSUME NEW reached \in BOOLEAN, Respond(c, reached) PROVE FetchInv'
  BY <1>0, <1>2, RespondKeeps
<1>3. CASE ShowOnly(c)
  BY <1>3, JobKeeps, NoJobIsGood DEF ShowOnly
<1>4. CASE OpenArchive(c)
  <2>1. TornArchive \in GoodArchives
    BY DEF TornArchive, GoodArchives, Archives, Contents, Facts
  <2>2. [job[c] EXCEPT !.at = "writing"] \in GoodJobs
    BY <1>0 DEF GoodJobs, Jobs
  <2>3. job' = [job EXCEPT ![c] = [job[c] EXCEPT !.at = "writing"]]
    BY <1>4 DEF OpenArchive, FetchInv
  <2> QED
    BY <1>4, <2>1, <2>2, <2>3 DEF OpenArchive, FetchInv
<1>5. CASE WriteArchive(c)
  <2>1. [facts |-> job[c].outcome.facts, consented |-> job[c].outcome.consented]
          \in GoodArchives
    BY <1>0 DEF GoodJobs, GoodOutcomes, Outcomes, GoodArchives, Archives, Contents
  <2> QED
    BY <1>5, <2>1, NoJobIsGood DEF WriteArchive, FetchInv
<1>6. CASE Abort(c)
  BY <1>6, JobKeeps, NoJobIsGood DEF Abort
<1> QED
  BY <1>1, <1>2, <1>3, <1>4, <1>5, <1>6 DEF FetchCommand

LEMMA FetchStarts == FetchInit => FetchInv
<1>1. Earlier \subseteq GoodArchives
  BY DEF Earlier, NoArchive, TornArchive, GoodArchives, Archives, Contents, Facts
<1> QED
  BY <1>1, NoJobIsGood DEF FetchInit, FetchInv, Actors

LEMMA FetchInvImplies ==
    FetchInv => FetchTypeOK /\ ReachedWithAllControls /\ FetchesAreReported
  BY DEF FetchInv, Actors, GoodJobs, GoodOutcomes, GoodArchives, FetchTypeOK,
         ReachedWithAllControls, FetchesAreReported

-----------------------------------------------------------------------------
(* Calls of the model.  What has reached it is reported once the call      *)
(* returns, and only a fine output that is the result is called fine.      *)

GoodCalls == {c \in Calls : /\ c.fine => c.success /\ c.text = "fit"
                            /\ c.at \in {"first", "repair"} => ~c.success
                            /\ c.at = "returned" /\ c.reached => c.performed}

LEMMA NoCallIsGood ==
    NoCall \in GoodCalls /\ Asked \in GoodCalls /\ ~NoCall.reached /\ ~NoCall.fine
  BY DEF NoCall, Asked, GoodCalls, Calls

LEMMA ThinkKeeps ==
    ASSUME call \in GoodCalls, Think
    PROVE  call' \in GoodCalls
<1>1. ASSUME NEW reached \in BOOLEAN, NEW output \in Outputs, Attempt(output, reached)
      PROVE  call' \in GoodCalls
  <2>1. /\ output.passes \in BOOLEAN /\ output.text \in {"none", "unfit", "fit"}
        /\ call \in Calls /\ ~call.success /\ ~call.fine
    BY <1>1 DEF Attempt, GoodCalls, Outputs
  <2> DEFINE heard == [call EXCEPT !.reached = @ \/ reached,
                                   !.fine = @ \/ (output.passes /\ output.text = "fit")]
  <2>2. heard \in Calls /\ heard.success = call.success /\ heard.at = call.at
    BY <2>1 DEF Calls
  <2>3. heard.fine = (output.passes /\ output.text = "fit")
    BY <2>1 DEF Calls
  <2>4. CASE NeedsRepair(output)
    <3>1. call' = [heard EXCEPT !.at = "repair"]
      BY <1>1, <2>4 DEF Attempt
    <3>2. ~heard.fine
      BY <2>3, <2>4 DEF NeedsRepair
    <3> HIDE DEF heard
    <3> QED
      BY <2>1, <2>2, <3>1, <3>2 DEF GoodCalls, Calls
  <2>5. CASE ~NeedsRepair(output)
    <3>1. call' = [heard EXCEPT !.at = "returned", !.text = output.text,
                                !.success = TRUE, !.performed = TRUE]
      BY <1>1, <2>5 DEF Attempt
    <3> HIDE DEF heard
    <3> QED
      BY <2>1, <2>2, <2>3, <3>1 DEF GoodCalls, Calls
  <2> QED
    BY <2>4, <2>5
<1>2. ASSUME NEW reached \in BOOLEAN, Fail(reached) PROVE call' \in GoodCalls
  <2>1. call \in Calls /\ ~call.success /\ ~call.fine
    BY <1>2 DEF Fail, GoodCalls
  <2> QED
    BY <1>2, <2>1 DEF Fail, GoodCalls, Calls
<1> QED
  BY <1>1, <1>2 DEF Think

-----------------------------------------------------------------------------
(* Types.                                                                  *)

Pcs == {"off", "run", "fetching", "answer", "prompt", "save", "secret", "persist"}
          \union Asking \union Generating
Hosts == {"source", "provider", "local_model"}

RequestType == /\ pc \in Pcs
               /\ request \in Requests
               /\ pc # "off" => request.source \in Sources
               /\ contacted \subseteq Hosts
               /\ keychain \in BOOLEAN
               /\ asks \in 0 .. MaxAsks

TalkType == /\ grounded \in BOOLEAN
            /\ state \in States \union {None}
            /\ turns \in Seq(Turns)
            /\ Len(turns) <= MaxTurns
            /\ code \in {None, 0, 1, 3, 130}

SavedType ==
    /\ sessions \in [Roots -> [SessionIds -> SavedSessions \union {None}]]
    /\ told \in [1 .. MaxAsks -> (Roots \X SessionIds \X Sources) \union {None}]

(* Consents.  While they are collected nobody is contacted; what is run    *)
(* has passed the preflight, and the provider's part of it was settled.    *)
Collecting == Asking \union {"secret", "persist"}
Conversing == {"answer", "prompt"} \union Generating

ConsentInv ==
    /\ pc \in Collecting => contacted = {}
    /\ pc \in {"key", "secret", "persist"} => request.provider = "yes"
    /\ pc \in {"run", "fetching"} \union Conversing =>
         (request.model = "deepseek" /\ ~request.refused =>
            request.provider = "yes" /\ request.key # "none")
    /\ pc \in {"fetching"} \union Conversing => ~Preflighted
    /\ pc = "fetching" => request.source \in Urls
    /\ "source" \in contacted => request.fetch = "yes"
    /\ contacted \intersect {"provider", "local_model"} # {} => request.llm = "yes"
    /\ "provider" \in contacted => request.provider = "yes" /\ request.key # "none"

LEMMA ModelIsConsented ==
    ASSUME RequestType, ConsentInv, pc \in Conversing,
           UNCHANGED request, pc' \in {"off", "save"} \union Conversing,
           contacted' \in {contacted, contacted \union {Model}}
    PROVE  ConsentInv' /\ contacted' \subseteq Hosts
  BY DEF RequestType, ConsentInv, Preflighted, Model, Requests, Answers, Collecting, Asking,
         Hosts, Conversing, Generating

LEMMA NobodyIsContacted ==
    ASSUME ConsentInv, UNCHANGED <<request, contacted>>,
           \/ pc' \in {"off", "save"}
           \/ pc' = pc
           \/ pc' \in Conversing /\ pc \in Conversing
           \/ pc' = "answer" /\ pc \in {"run", "fetching"} /\ ~Preflighted
           \/ pc' = "fetching" /\ pc = "run" /\ ~Preflighted /\ request.source \in Urls
    PROVE  ConsentInv'
  BY DEF ConsentInv, Preflighted, Collecting, Asking, Conversing, Generating

-----------------------------------------------------------------------------
(* Conversations.  Until there is an answer there are no turns; at the     *)
(* prompt all turns went well and the state numbers the last of them.      *)
Unanswered == Collecting \union {"run", "fetching", "answer", "answering"}
FollowingUp == {"prompt", "following", "transforming"}

WentWell(s) == /\ s # <<>>
               /\ s[1].run = 0
               /\ \A n \in 1 .. Len(s) : s[n].status = "success"

PromptInv == /\ state # None
             /\ state.seed
             /\ state.index < Len(turns)
             /\ state.index = Cardinality(FollowUpRuns)
             /\ \A n \in 1 .. Len(turns) :
                  turns[n].run # NoRun => turns[n].run <= state.index

TalkInv ==
    /\ pc \in Unanswered => turns = <<>>
    /\ pc \in {"answer", "answering"} => grounded
    /\ AnswersAreGrounded
    /\ pc \in FollowingUp \union {"save"} => WentWell(turns)
    /\ pc \in FollowingUp => PromptInv
    /\ pc \in {"following", "transforming"} => Len(turns) < MaxTurns
    /\ RunsAreDistinct
    /\ ShownAnswersAreFit
    /\ ZeroMeansAnswered

LEMMA LastOfAll ==
    ASSUME NEW s \in Seq(Turns), WentWell(s)
    PROVE  s[Len(s)].status = "success"
<1>1. Len(s) \in 1 .. Len(s)
  BY EmptySeq DEF WentWell
<1> QED
  BY <1>1 DEF WentWell

(* The number of follow-up runs: none in a first answer, one more if the   *)
(* turn that is added is one.                                              *)
LEMMA CountOfFirst ==
    ASSUME NEW turn \in Turns, turn.run = 0
    PROVE  Cardinality({n \in 1 .. Len(<<turn>>) : <<turn>>[n].run \notin {0, NoRun}}) = 0
<1>1. {n \in 1 .. Len(<<turn>>) : <<turn>>[n].run \notin {0, NoRun}} = {}
  OBVIOUS
<1> QED
  BY <1>1, FS_EmptySet

LEMMA CountOfAppended ==
    ASSUME NEW s \in Seq(Turns), NEW turn \in Turns, NEW m \in Nat,
           m = Cardinality({n \in 1 .. Len(s) : s[n].run \notin {0, NoRun}})
    PROVE  Cardinality({n \in 1 .. Len(Append(s, turn)) :
                           Append(s, turn)[n].run \notin {0, NoRun}})
             = IF turn.run \notin {0, NoRun} THEN m + 1 ELSE m
<1> DEFINE old == {n \in 1 .. Len(s) : s[n].run \notin {0, NoRun}}
           new == {n \in 1 .. Len(Append(s, turn)) :
                      Append(s, turn)[n].run \notin {0, NoRun}}
<1>1. /\ Len(Append(s, turn)) = Len(s) + 1
      /\ \A n \in 1 .. Len(s) : Append(s, turn)[n] = s[n]
      /\ Append(s, turn)[Len(s) + 1] = turn
  BY AppendProperties
<1>2. Len(s) \in Nat
  OBVIOUS
<1>3. IsFiniteSet(old)
  <2>1. IsFiniteSet(1 .. Len(s))
    BY <1>2, FS_Interval
  <2>2. old \in SUBSET (1 .. Len(s))
    OBVIOUS
  <2> QED
    BY <2>1, <2>2, FS_Subset
<1>4. CASE turn.run \notin {0, NoRun}
  <2>1. new = old \cup {Len(s) + 1} /\ Len(s) + 1 \notin old
    BY <1>1, <1>2, <1>4
  <2> QED
    BY <1>3, <1>4, <2>1, FS_AddElement
<1>5. CASE turn.run \in {0, NoRun}
  <2>1. new = old
    BY <1>1, <1>2, <1>5
  <2> QED
    BY <1>5, <2>1
<1> QED
  BY <1>4, <1>5

-----------------------------------------------------------------------------
(* What the steps of a conversation have in common.                        *)

(* Before an answer. *)
LEMMA NoAnswerYet ==
    ASSUME TalkType, TalkInv, pc \in Unanswered, pc' \in Unanswered,
           grounded' \in BOOLEAN, pc' \in {"answer", "answering"} => grounded',
           UNCHANGED <<state, turns, code>>
    PROVE  TalkType' /\ TalkInv'
<1>1. turns = <<>> /\ turns' = <<>>
  BY DEF TalkInv
<1>2. pc' \notin FollowingUp \union {"save"}
  BY DEF Unanswered, Collecting, Asking, FollowingUp
<1> QED
  BY <1>1, <1>2 DEF TalkType, TalkInv, AnswersAreGrounded, RunsAreDistinct,
     ZeroMeansAnswered, ShownAnswersAreFit, FollowingUp

(* The end: with code 0 only where there is no answer, or a good one. *)
LEMMA EndKeeps ==
    ASSUME TalkType, TalkInv, pc' = "off", code' \in {0, 1, 3, 130},
           code' = 0 => pc \in Collecting \union {"prompt", "save"},
           UNCHANGED <<state, turns, grounded>>
    PROVE  TalkType' /\ TalkInv'
<1>1. code' = 0 /\ turns # <<>> => LastTurn.status = "success"
  BY LastOfAll DEF TalkType, TalkInv, Unanswered, LastTurn, FollowingUp
<1>2. pc' \notin Unanswered \union FollowingUp \union {"save"}
  BY DEF Unanswered, Collecting, Asking, FollowingUp
<1> QED
  BY <1>1, <1>2 DEF TalkType, TalkInv, AnswersAreGrounded, RunsAreDistinct, ZeroMeansAnswered,
     LastTurn, Unanswered, ShownAnswersAreFit, FollowingUp

(* The first answer. *)
LEMMA FirstKeeps ==
    ASSUME TalkType, TalkInv, NEW st \in States \union {None}, NEW turn \in Turns,
           turn.run \in {0, NoRun},
           turn.status = "success" => turn.run = 0 /\ grounded',
           turn.offers /\ st # None => st.seed /\ st.index = 0,
           turn.text = IF turn.status = "success" THEN "fit" ELSE "none",
           grounded' \in BOOLEAN, AfterFirst(st, turn)
    PROVE  /\ TalkType' /\ TalkInv'
           /\ pc' \in {"off", "prompt", "save"}
<1>1. /\ turns' = <<turn>> /\ Len(turns') = 1 /\ turns'[1] = turn
      /\ turns' \in Seq(Turns) /\ state' = st /\ turns' # <<>>
  BY DEF AfterFirst
<1>2. /\ pc' \in {"off", "prompt", "save"}
      /\ pc' = "off" => code' = ExitCode(turn.status)
      /\ pc' # "off" => turn.status = "success" /\ code' = code
      /\ pc' = "prompt" => st # None /\ turn.offers
  BY DEF AfterFirst, End, ExitCode, Available
<1>3. TalkType'
  BY <1>1, <1>2, MaxTurnsAssumption DEF TalkType, ExitCode
<1>4. WentWell(turns') \/ turn.status # "success"
  BY <1>1 DEF WentWell
<1>5. pc' = "prompt" => PromptInv'
  <2> SUFFICES ASSUME pc' = "prompt" PROVE PromptInv'
    OBVIOUS
  <2>1. turn.run = 0 /\ st # None /\ st.seed /\ st.index = 0
    BY <1>2
  <2>2. Cardinality(FollowUpRuns)' = 0
    BY <1>1, <2>1, CountOfFirst DEF FollowUpRuns
  <2> QED
    BY <1>1, <2>1, <2>2 DEF PromptInv
<1>6. RunsAreDistinct'
  BY <1>1 DEF RunsAreDistinct
<1>7. AnswersAreGrounded'
  BY <1>1 DEF AnswersAreGrounded
<1>8. ZeroMeansAnswered'
  BY <1>1, <1>2 DEF ZeroMeansAnswered, LastTurn, ExitCode
<1>9. pc' \notin Unanswered /\ pc' \notin {"following", "transforming"}
  BY <1>2 DEF Unanswered, Collecting, Asking
<1>10. ShownAnswersAreFit'
  BY <1>1 DEF ShownAnswersAreFit
<1> QED
  BY <1>2, <1>3, <1>4, <1>5, <1>6, <1>7, <1>8, <1>9, <1>10
     DEF TalkInv, Unanswered, FollowingUp

(* A further turn, which either is no run or gets the next number. *)
LEMMA TurnKeeps ==
    ASSUME TalkType, TalkInv, pc \in FollowingUp, Len(turns) < MaxTurns,
           NEW st \in States, NEW turn \in Turns,
           turn.run \in {NoRun, state.index + 1},
           turn.status = "success" =>
             /\ st.seed
             /\ st.index = IF turn.run = NoRun THEN state.index ELSE state.index + 1,
           turn.text = IF turn.status = "success" THEN "fit" ELSE "none",
           UNCHANGED grounded, AfterTurn(st, turn)
    PROVE  /\ TalkType' /\ TalkInv'
           /\ pc' \in {"off", "prompt", "save"}
<1>1. /\ turns' = Append(turns, turn) /\ state' = st
      /\ turns' \in Seq(Turns) /\ turns' # <<>>
      /\ Len(turns') = Len(turns) + 1
      /\ \A n \in 1 .. Len(turns) : turns'[n] = turns[n]
      /\ turns'[Len(turns) + 1] = turn
  BY AppendProperties DEF AfterTurn, TalkType
<1>2. /\ pc' \in {"off", "prompt", "save"}
      /\ pc' = "off" => code' = ExitCode(turn.status) /\ turn.status # "success"
      /\ pc' # "off" => turn.status = "success" /\ code' = code
      /\ pc' = "prompt" => st # None
  BY DEF AfterTurn, End, Available
<1>3. /\ WentWell(turns) /\ PromptInv /\ Len(turns) \in Nat /\ Len(turns) >= 1
      /\ state \in States /\ state.index \in Nat
  BY EmptySeq DEF TalkInv, WentWell, PromptInv, TalkType, States
<1>4. Len(turns') <= MaxTurns /\ state.index + 1 < NoRun
  BY <1>1, <1>3, MaxTurnsAssumption DEF PromptInv, NoRun
<1>5. TalkType'
  BY <1>1, <1>2, <1>4 DEF TalkType, ExitCode
<1>6. turn.status = "success" => WentWell(turns')
  BY <1>1, <1>3 DEF WentWell
<1>7. pc' = "prompt" => PromptInv'
  <2> SUFFICES ASSUME pc' = "prompt" PROVE PromptInv'
    OBVIOUS
  <2>1. /\ st # None /\ st.seed
        /\ st.index = IF turn.run = NoRun THEN state.index ELSE state.index + 1
    BY <1>2
  <2>2. turn.run \notin {0, NoRun} <=> turn.run # NoRun
    BY <1>3, <1>4
  <2>3. Cardinality(FollowUpRuns)' = st.index
    <3>1. state.index = Cardinality({n \in 1 .. Len(turns) : turns[n].run \notin {0, NoRun}})
      BY <1>3 DEF FollowUpRuns, PromptInv
    <3>2. turns \in Seq(Turns)
      BY DEF TalkType
    <3>3. Cardinality({n \in 1 .. Len(Append(turns, turn)) :
                          Append(turns, turn)[n].run \notin {0, NoRun}})
            = IF turn.run \notin {0, NoRun} THEN state.index + 1 ELSE state.index
      BY <1>3, <3>1, <3>2, CountOfAppended
    <3>4. Cardinality(FollowUpRuns)'
            = IF turn.run \notin {0, NoRun} THEN state.index + 1 ELSE state.index
      BY <1>1, <3>3 DEF FollowUpRuns
    <3> QED
      BY <2>1, <2>2, <3>4
  <2>4. st.index < Len(turns')
    BY <1>1, <1>3, <2>1 DEF PromptInv
  <2>5. \A n \in 1 .. Len(turns') : turns'[n].run # NoRun => turns'[n].run <= st.index
    <3>1. \A n \in 1 .. Len(turns) : turns'[n].run # NoRun => turns'[n].run <= st.index
      <4> SUFFICES ASSUME NEW n \in 1 .. Len(turns), turns[n].run # NoRun
                   PROVE  turns[n].run <= st.index
        BY <1>1
      <4>1. turns[n] \in Turns /\ turns[n].run \in Nat
        <5>1. turns[n] \in Turns
          BY DEF TalkType
        <5> QED
          BY <5>1, MaxTurnsAssumption DEF Turns, NoRun
      <4>2. turns[n].run <= state.index
        BY <1>3 DEF PromptInv
      <4>3. state.index <= st.index /\ st.index \in Nat
        BY <1>3, <2>1
      <4> QED
        BY <1>3, <4>1, <4>2, <4>3
    <3>2. turn.run # NoRun => turn.run <= st.index
      BY <1>3, <2>1
    <3> QED
      BY <1>1, <1>3, <3>1, <3>2
  <2> QED
    BY <1>1, <2>1, <2>3, <2>4, <2>5 DEF PromptInv
<1>8. RunsAreDistinct'
  <2>1. \A n \in 1 .. Len(turns) : turns[n].run # NoRun => turns[n].run # turn.run
    BY <1>3 DEF PromptInv, TalkType, Turns
  <2>2. RunsAreDistinct
    BY DEF TalkInv
  <2> SUFFICES ASSUME NEW i \in 1 .. Len(turns'), NEW k \in 1 .. Len(turns'),
                      turns'[i].run = turns'[k].run, turns'[i].run # NoRun
               PROVE  i = k
    BY DEF RunsAreDistinct
  <2>3. CASE i \in 1 .. Len(turns) /\ k \in 1 .. Len(turns)
    BY <1>1, <2>2, <2>3 DEF RunsAreDistinct
  <2>4. CASE i = Len(turns) + 1 \/ k = Len(turns) + 1
    BY <1>1, <1>3, <2>1, <2>4
  <2> QED
    BY <1>1, <1>3, <2>3, <2>4
<1>9. AnswersAreGrounded'
  BY <1>1, <1>3 DEF AnswersAreGrounded, TalkInv, WentWell
<1>10. ZeroMeansAnswered'
  BY <1>1, <1>2, <1>3 DEF ZeroMeansAnswered, LastTurn, ExitCode
<1>11. pc' \notin Unanswered /\ pc' \notin {"following", "transforming"}
  BY <1>2 DEF Unanswered, Collecting, Asking
<1>12. ShownAnswersAreFit'
  BY <1>1, <1>3 DEF ShownAnswersAreFit, TalkInv
<1> QED
  BY <1>2, <1>5, <1>6, <1>7, <1>8, <1>9, <1>10, <1>11, <1>12
     DEF TalkInv, Unanswered, FollowingUp

-----------------------------------------------------------------------------
(* The steps.                                                              *)

SavedInv == SavedType /\ SavedTurnsSucceeded

AskInv == RequestType /\ ConsentInv /\ TalkType /\ TalkInv /\ SavedInv

LEMMA SavedKeeps ==
    ASSUME SavedInv, UNCHANGED <<sessions, told>>
    PROVE  SavedInv'
  BY DEF SavedInv, SavedType, SavedTurnsSucceeded

LEMMA NothingSaid == <<>> \in Seq(Turns) /\ Len(<<>>) <= MaxTurns
<1>1. Len(<<>>) = 0
  OBVIOUS
<1> QED
  BY <1>1, MaxTurnsAssumption

LEMMA AskInit == Init => AskInv
<1> SUFFICES ASSUME Init PROVE AskInv
  OBVIOUS
<1>1. RequestType
  BY MaxAsksAssumption DEF Init, RequestType, Pcs, Requests, NoRequest, Models, Answers
<1>2. ConsentInv
  BY DEF Init, ConsentInv, Collecting, Asking, Conversing, Generating
<1>3. TalkType
  BY NothingSaid DEF Init, TalkType
<1>4. TalkInv
  BY <1>3 DEF Init, TalkInv, AnswersAreGrounded, RunsAreDistinct, ZeroMeansAnswered,
              Unanswered, Collecting, Asking, FollowingUp, ShownAnswersAreFit
<1>5. SavedInv
  BY DEF Init, SavedInv, SavedType, SavedTurnsSucceeded
<1> QED
  BY <1>1, <1>2, <1>3, <1>4, <1>5 DEF AskInv

LEMMA StartKeeps ==
    ASSUME AskInv, NEW source \in Sources, NEW question \in BOOLEAN, NEW json \in BOOLEAN,
           NEW model \in Models, Start(source, question, json, model)
    PROVE  AskInv'
<1>1. request' = [NoRequest EXCEPT !.source = source, !.question = question,
                                   !.json = json, !.model = model]
      /\ pc' \in {"fetch", "llm"} /\ contacted' = {}
  BY DEF Start
<1>2. RequestType'
  <2>1. request' \in Requests /\ request'.source = source
    BY <1>1 DEF NoRequest, Requests, Answers
  <2> QED
    BY <1>1, <2>1, MaxAsksAssumption DEF AskInv, Start, RequestType, Pcs, Asking
<1>3. ConsentInv'
  BY <1>1 DEF ConsentInv, Conversing, Generating
<1>4. TalkType'
  BY NothingSaid DEF Start, TalkType
<1>5. TalkInv'
  BY <1>1 DEF Start, TalkInv, AnswersAreGrounded, RunsAreDistinct, ZeroMeansAnswered,
              ShownAnswersAreFit, FollowingUp
<1>6. SavedInv'
  BY SavedKeeps DEF AskInv, Start
<1> QED
  BY <1>2, <1>3, <1>4, <1>5, <1>6 DEF AskInv

(* Every answer to the console's questions. *)
LEMMA CollectKeeps ==
    ASSUME AskInv, NEW next \in Collecting \union {"run"}, NEW req \in Requests,
           req.source = request.source, pc \in Collecting,
           next \in {"key", "secret", "persist"} => req.provider = "yes",
           next = "run" /\ req.model = "deepseek" /\ ~req.refused =>
              req.provider = "yes" /\ req.key # "none",
           Collect(next, req), keychain' \in BOOLEAN, UNCHANGED grounded
    PROVE  AskInv'
<1>1. pc' = next /\ request' = req /\ contacted = {} /\ contacted' = {}
  BY DEF Collect, AskInv, ConsentInv
<1>2. RequestType'
  BY <1>1 DEF AskInv, RequestType, Collect, Pcs, Collecting, Asking
<1>3. ConsentInv'
  BY <1>1 DEF ConsentInv, Collecting, Asking, Conversing, Generating
<1>4. TalkType' /\ TalkInv'
  BY <1>1, NoAnswerYet DEF AskInv, Collect, Unanswered, Collecting, Asking, TalkType
<1>5. SavedInv'
  BY SavedKeeps DEF AskInv, Collect
<1> QED
  BY <1>2, <1>3, <1>4, <1>5 DEF AskInv

LEMMA ConsentKeeps ==
    ASSUME AskInv, Consent \/ ProviderKey, UNCHANGED grounded
    PROVE  AskInv'
<1>0. request \in Requests /\ keychain \in BOOLEAN
  BY DEF AskInv, RequestType
<1>1. ASSUME NEW answer \in {"yes", "no"}, ConsentToFetch(answer) PROVE AskInv'
  <2>1. [request EXCEPT !.fetch = answer] \in Requests
    BY <1>0 DEF Requests, Answers
  <2> QED
    BY <1>0, <1>1, <2>1, CollectKeeps DEF ConsentToFetch, Collecting, Asking, Requests
<1>2. ASSUME NEW answer \in {"yes", "no"}, ConsentToLlm(answer) PROVE AskInv'
  <2> DEFINE refused == ~request.question \/ request.fetch = "no" \/ answer = "no"
             req == [request EXCEPT !.llm = answer, !.refused = refused]
             next == IF request.model = "deepseek" /\ ~refused THEN "provider" ELSE "run"
  <2>1. req \in Requests
    BY <1>0 DEF Requests, Answers
  <2>2. /\ next \in {"provider", "run"} /\ req.source = request.source
        /\ next = "run" => ~(req.model = "deepseek" /\ ~req.refused)
    BY <1>0 DEF Requests
  <2>3. pc = "llm" /\ Collect(next, req) /\ UNCHANGED keychain
    BY <1>2 DEF ConsentToLlm
  <2> HIDE DEF req, next
  <2> QED
    BY <1>0, <2>1, <2>2, <2>3, CollectKeeps DEF Collecting, Asking
<1>3. ASSUME pc \in Collecting, Refuse, UNCHANGED keychain PROVE AskInv'
  <2>1. [request EXCEPT !.refused = TRUE] \in Requests
    BY <1>0 DEF Requests
  <2> QED
    BY <1>0, <1>3, <2>1, CollectKeeps DEF Refuse, Requests
<1>4. CASE DeclineProvider
  <2>1. [request EXCEPT !.provider = "no", !.refused = TRUE] \in Requests
    BY <1>0 DEF Requests, Answers
  <2> QED
    BY <1>0, <1>4, <2>1, CollectKeeps DEF DeclineProvider, Collecting, Asking, Requests
<1>5. ASSUME NEW inEnvironment \in BOOLEAN, ConsentToProvider(inEnvironment) PROVE AskInv'
  <2>1. /\ [request EXCEPT !.provider = "yes", !.key = "environment"] \in Requests
        /\ [request EXCEPT !.provider = "yes"] \in Requests
    BY <1>0 DEF Requests, Answers
  <2>2. CASE inEnvironment
    BY <1>0, <1>5, <2>1, <2>2, CollectKeeps DEF ConsentToProvider, Collecting, Asking, Requests
  <2>3. CASE ~inEnvironment
    BY <1>0, <1>5, <2>1, <2>3, CollectKeeps DEF ConsentToProvider, Collecting, Asking, Requests
  <2> QED
    BY <2>2, <2>3
<1>6. ASSUME pc \in {"key", "persist"}, NEW key \in {"stored", "once", "store"},
             Collect("run", [request EXCEPT !.key = key]), keychain' \in BOOLEAN
      PROVE  AskInv'
  <2>1. /\ [request EXCEPT !.key = key] \in Requests
        /\ [request EXCEPT !.key = key].provider = "yes"
    BY <1>0, <1>6 DEF Requests, AskInv, ConsentInv
  <2> QED
    BY <1>0, <1>6, <2>1, CollectKeeps DEF Collecting, Asking, Requests
<1>7. ASSUME pc \in {"key", "secret"}, NEW next \in {"secret", "persist"},
             Collect(next, request), UNCHANGED keychain
      PROVE  AskInv'
  <2>1. request.provider = "yes"
    BY <1>7 DEF AskInv, ConsentInv
  <2> QED
    BY <1>0, <1>7, <2>1, CollectKeeps DEF Collecting, Asking
<1>8. CASE Consent
  BY <1>1, <1>2, <1>4, <1>5, <1>8 DEF Consent
<1>9. CASE ProviderKey
  <2>1. CASE NoKey
    BY <1>3, <2>1 DEF NoKey, Collecting, Asking
  <2>2. CASE UseStoredKey \/ UseKeyOnce \/ StoreKey
    BY <1>0, <1>6, <2>2 DEF UseStoredKey, UseKeyOnce, StoreKey
  <2>3. CASE PromptForKey \/ TypeKey
    BY <1>7, <2>3 DEF PromptForKey, TypeKey
  <2> QED
    BY <1>9, <2>1, <2>2, <2>3 DEF ProviderKey
<1> QED
  BY <1>8, <1>9

LEMMA TalkedKeeps ==
    ASSUME AskInv, pc # "off", pc' \in Pcs, contacted' \subseteq Hosts,
           UNCHANGED <<request, keychain, asks, sessions, told>>,
           TalkType', TalkInv', ConsentInv'
    PROVE  AskInv'
<1>1. RequestType'
  BY DEF AskInv, RequestType
<1> QED
  BY <1>1, SavedKeeps DEF AskInv

LEMMA FailureIsTurn ==
    ASSUME NEW kind \in {"answer", "transform", "refused"},
           NEW status \in {"blocked", "insufficient_evidence", "failed"}
    PROVE  /\ Failure(kind, status) \in Turns
           /\ Failure(kind, status).run = NoRun
           /\ Failure(kind, status).status # "success"
           /\ ~Failure(kind, status).offers
           /\ Failure(kind, status).text = "none"
  BY MaxTurnsAssumption DEF Failure, Turns, Statuses, NoRun

LEMMA SuccessIsTurn ==
    ASSUME NEW kind \in {"answer", "brief"}, NEW run \in 0 .. NoRun
    PROVE  /\ Success(kind, run) \in Turns
           /\ Success(kind, run).run = run
           /\ Success(kind, run).status = "success"
           /\ Success(kind, run).offers
           /\ Success(kind, run).text = "fit"
  BY DEF Success, Turns, Statuses

LEMMA LocalIsTurn ==
    ASSUME NEW kind \in {"summary", "transform"}, state \in States
    PROVE  /\ Local(kind) \in Turns
           /\ Local(kind).run = NoRun
           /\ Local(kind).status = "success"
           /\ Local(kind).text = "fit"
  BY MaxTurnsAssumption DEF Local, Turns, Statuses, NoRun, States

(* What a call adds to a turn: its text is shown if it was accepted.       *)
LEMMA SaidIsTurn ==
    ASSUME call \in GoodCalls, NEW turn \in Turns, turn.status = "success" => Accepted
    PROVE  /\ Said(turn) \in Turns
           /\ Said(turn).run = turn.run
           /\ Said(turn).status = turn.status
           /\ Said(turn).offers = turn.offers
           /\ Said(turn).performed = call.performed
           /\ Said(turn).text = IF turn.status = "success" THEN "fit" ELSE "none"
  BY DEF Said, GoodCalls, Calls, Turns, Accepted

(* The first output, whether it is an answer or none. *)
LEMMA FirstOutputKeeps ==
    ASSUME AskInv, pc \in {"run", "fetching", "answer", "answering"},
           NEW st \in States \union {None}, NEW turn \in Turns,
           turn.run \in {0, NoRun},
           turn.status = "success" =>
             pc \in {"answer", "answering"} /\ turn.run = 0,
           turn.offers /\ st # None => st.seed /\ st.index = 0,
           turn.text = IF turn.status = "success" THEN "fit" ELSE "none",
           AfterFirst(st, turn), UNCHANGED <<contacted, grounded>>
    PROVE  AskInv'
<1>1. /\ TalkType /\ TalkInv /\ RequestType /\ ConsentInv /\ grounded' \in BOOLEAN
      /\ contacted \subseteq Hosts
      /\ pc \in {"answer", "answering"} => grounded'
  BY DEF AskInv, TalkType, TalkInv, RequestType
<1>2. TalkType' /\ TalkInv' /\ pc' \in {"off", "prompt", "save"}
  BY <1>1, FirstKeeps
<1>3. UNCHANGED <<request, keychain, asks, sessions, told>>
  BY DEF AfterFirst
<1>4. pc' = "prompt" => pc \in Conversing
  BY DEF AfterFirst, End, Available, Conversing, Generating
<1>5. ConsentInv'
  BY <1>1, <1>2, <1>3, <1>4, NobodyIsContacted DEF Conversing
<1> QED
  BY <1>1, <1>2, <1>3, <1>5, TalkedKeeps DEF Pcs

LEMMA FirstAnswerKeeps ==
    ASSUME AskInv, FirstAnswer, UNCHANGED grounded
    PROVE  AskInv'
<1>1. CASE Block \/ NoAnswer
  BY <1>1, FailureIsTurn, FirstOutputKeeps DEF Block, NoAnswer
<1>2. CASE AnswerBriefly
  <2> DEFINE st == [seed |-> TRUE, service |-> FALSE, index |-> 0]
             turn == Success("brief", 0)
  <2>1. st \in States /\ st.seed /\ st.index = 0
    BY MaxTurnsAssumption DEF States
  <2>2. turn \in Turns /\ turn.run = 0 /\ turn.status = "success" /\ turn.text = "fit"
    BY MaxTurnsAssumption, SuccessIsTurn DEF NoRun
  <2>3. pc = "answer" /\ AfterFirst(st, turn) /\ UNCHANGED contacted
    BY <1>2 DEF AnswerBriefly
  <2> HIDE DEF st, turn
  <2> QED
    BY <2>1, <2>2, <2>3, FirstOutputKeeps
<1> QED
  BY <1>1, <1>2 DEF FirstAnswer

(* The evidence: its facts are only ready if they were consented to. *)
LEMMA EvidenceKeeps ==
    ASSUME AskInv, pc \in {"run", "fetching"}, ~Preflighted,
           NEW facts, NEW consented \in BOOLEAN, facts = "ready" => consented,
           TakeEvidence(facts, consented), UNCHANGED contacted
    PROVE  AskInv'
<1>0. /\ grounded \in BOOLEAN /\ TalkType /\ TalkInv /\ RequestType /\ ConsentInv
      /\ contacted \subseteq Hosts
  BY DEF AskInv, TalkType, RequestType
<1>1. CASE facts = "ready"
  <2>1. /\ pc' = "answer" /\ grounded' = consented /\ consented
        /\ UNCHANGED <<request, state, turns, code, keychain, asks, sessions, told>>
    BY <1>1 DEF TakeEvidence
  <2>2. ConsentInv'
    BY <1>0, <2>1, NobodyIsContacted
  <2>3. TalkType' /\ TalkInv'
    BY <1>0, <2>1, NoAnswerYet DEF Unanswered
  <2> QED
    BY <1>0, <2>1, <2>2, <2>3, TalkedKeeps DEF Pcs
<1>2. CASE facts # "ready"
  <2>1. PICK status \in {"blocked", "insufficient_evidence"} :
          AfterFirst(None, Failure("answer", status)) /\ UNCHANGED grounded
    BY <1>2 DEF TakeEvidence
  <2> QED
    BY <2>1, FailureIsTurn, FirstOutputKeeps
<1> QED
  BY <1>1, <1>2

(* The follow-up loop. *)
LEMMA AtPrompt ==
    ASSUME AskInv, pc \in FollowingUp, Len(turns) < MaxTurns
    PROVE  /\ state \in States /\ state.seed /\ state.index \in Nat
           /\ state.index + 1 \in 0 .. NoRun /\ state.index + 1 # NoRun
           /\ [state EXCEPT !.seed = FALSE] \in States
           /\ \A seed \in BOOLEAN :
                /\ FollowedUp(seed) \in States /\ FollowedUp(seed).seed = seed
                /\ FollowedUp(seed).index = state.index + 1
<1>1. /\ state \in States /\ state.seed /\ state.index \in Nat
      /\ state.index < Len(turns) /\ Len(turns) \in Nat
  BY MaxTurnsAssumption DEF AskInv, TalkInv, TalkType, PromptInv, States
<1>2. state.index + 1 \in 0 .. MaxTurns /\ state.index + 1 # MaxTurns
  BY <1>1, MaxTurnsAssumption
<1>3. [state EXCEPT !.seed = FALSE] \in States
  BY <1>1 DEF States
<1>4. \A seed \in BOOLEAN : /\ FollowedUp(seed) \in States /\ FollowedUp(seed).seed = seed
                            /\ FollowedUp(seed).index = state.index + 1
  BY <1>1, <1>2 DEF FollowedUp, States
<1> QED
  BY <1>1, <1>2, <1>3, <1>4 DEF NoRun

LEMMA SaidKeeps ==
    ASSUME AskInv, pc \in FollowingUp, Len(turns) < MaxTurns,
           NEW st \in States, NEW turn \in Turns,
           turn.run \in {NoRun, state.index + 1},
           turn.status = "success" =>
             /\ st.seed
             /\ st.index = IF turn.run = NoRun THEN state.index ELSE state.index + 1,
           turn.text = IF turn.status = "success" THEN "fit" ELSE "none",
           AfterTurn(st, turn), UNCHANGED <<contacted, grounded>>
    PROVE  AskInv'
<1>1. TalkType' /\ TalkInv' /\ pc' \in {"off", "prompt", "save"}
  BY TurnKeeps DEF AskInv
<1>2. UNCHANGED <<request, keychain, asks, sessions, told>> /\ pc # "off"
  BY DEF AfterTurn, FollowingUp
<1>3. ConsentInv' /\ contacted' \subseteq Hosts
  BY <1>1, <1>2, NobodyIsContacted
     DEF AskInv, RequestType, Conversing, FollowingUp, Generating
<1> QED
  BY <1>1, <1>2, <1>3, TalkedKeeps DEF Pcs

LEMMA FollowUpKeeps ==
    ASSUME AskInv, FollowUp, UNCHANGED grounded
    PROVE  AskInv'
<1>0. Prompted => pc \in FollowingUp /\ Len(turns) < MaxTurns
  BY DEF Prompted, FollowingUp
<1>1. CASE Summarise \/ TransformLocally
  BY <1>0, <1>1, AtPrompt, LocalIsTurn, SaidKeeps DEF Summarise, TransformLocally
<1>2. CASE TransformUnserved \/ FollowUpRefused
  BY <1>0, <1>2, AtPrompt, FailureIsTurn, SaidKeeps DEF TransformUnserved, FollowUpRefused
<1>3. CASE FollowUpBriefly
  <2>1. Prompted /\ AfterTurn(FollowedUp(TRUE), Success("brief", state.index + 1))
        /\ UNCHANGED contacted
    BY <1>3 DEF FollowUpBriefly
  <2>2. /\ FollowedUp(TRUE) \in States /\ FollowedUp(TRUE).seed
        /\ FollowedUp(TRUE).index = state.index + 1
        /\ state.index + 1 \in 0 .. NoRun /\ state.index + 1 # NoRun
    BY <1>0, <2>1, AtPrompt
  <2>3. /\ Success("brief", state.index + 1) \in Turns
        /\ Success("brief", state.index + 1).run = state.index + 1
        /\ Success("brief", state.index + 1).text = "fit"
        /\ Success("brief", state.index + 1).status = "success"
    BY <2>2, SuccessIsTurn
  <2> QED
    BY <1>0, <2>1, <2>2, <2>3, SaidKeeps
<1>4. CASE Leave
  <2>1. /\ pc = "prompt" /\ pc' = "save"
        /\ UNCHANGED <<request, state, turns, contacted, code, keychain, asks, sessions,
                       told>>
    BY <1>4 DEF Leave
  <2>2. ConsentInv'
    BY <2>1, NobodyIsContacted DEF AskInv
  <2>3. TalkType' /\ TalkInv'
    BY <2>1 DEF AskInv, TalkType, TalkInv, AnswersAreGrounded, RunsAreDistinct, FollowingUp,
                ZeroMeansAnswered, LastTurn, Unanswered, Collecting, Asking,
                ShownAnswersAreFit
  <2> QED
    BY <2>1, <2>2, <2>3, TalkedKeeps DEF Pcs, AskInv, RequestType
<1> QED
  BY <1>1, <1>2, <1>3, <1>4 DEF FollowUp

(* The ways to end. *)
LEMMA LastStepKeeps ==
    ASSUME AskInv, pc # "off", NEW exit \in {0, 1, 3, 130}, End(exit),
           exit = 0 => pc \in Collecting \union {"prompt", "save"},
           contacted' \subseteq Hosts, ConsentInv',
           UNCHANGED <<request, state, turns, keychain, asks, sessions, told, grounded>>
    PROVE  AskInv'
<1>1. TalkType' /\ TalkInv'
  BY EndKeeps DEF AskInv, End
<1> QED
  BY <1>1, TalkedKeeps DEF End, Pcs

LEMMA FirstRunIsRun ==
    ASSUME AskInv, pc = "save"
    PROVE  FirstRun \in 0 .. MaxTurns
<1> DEFINE outputs == <<LastTurn>> \o turns
           IsFirst(n) == /\ outputs[n].run # NoRun
                         /\ \A m \in 1 .. n - 1 : outputs[m].run = NoRun
           first == CHOOSE n \in 1 .. Len(outputs) : IsFirst(n)
<1>1. /\ turns \in Seq(Turns) /\ WentWell(turns) /\ Len(turns) \in Nat /\ Len(turns) >= 1
  BY EmptySeq DEF AskInv, TalkInv, TalkType, WentWell, FollowingUp
<1>2. LastTurn \in Turns
  BY <1>1 DEF LastTurn
<1>3. /\ outputs \in Seq(Turns) /\ Len(outputs) = Len(turns) + 1
      /\ outputs[1] = LastTurn /\ outputs[2] = turns[1]
  BY <1>1, <1>2
<1>4. \E n \in 1 .. Len(outputs) : IsFirst(n)
  <2>1. CASE LastTurn.run # NoRun
    <3>1. IsFirst(1) /\ 1 \in 1 .. Len(outputs)
      BY <1>1, <1>3, <2>1
    <3> QED
      BY <3>1
  <2>2. CASE LastTurn.run = NoRun
    <3>1. outputs[2].run # NoRun
      BY <1>1, <1>3, MaxTurnsAssumption DEF WentWell, NoRun
    <3>2. IsFirst(2) /\ 2 \in 1 .. Len(outputs)
      BY <1>1, <1>3, <2>2, <3>1
    <3> QED
      BY <3>2
  <2> QED
    BY <2>1, <2>2
<1> HIDE DEF outputs, IsFirst
<1>5. first \in 1 .. Len(outputs)
  BY <1>4
<1>6. outputs[first] \in Turns
  BY <1>3, <1>5
<1>7. FirstRun = outputs[first].run
  BY DEF FirstRun, outputs, IsFirst
<1> HIDE DEF first
<1> QED
  BY <1>6, <1>7 DEF Turns, NoRun

LEMMA SaveKeeps ==
    ASSUME AskInv, NEW root \in Roots, Save(root), UNCHANGED grounded
    PROVE  AskInv'
<1>1. pc = "save" /\ request.source \in Sources /\ WentWell(turns) /\ turns \in Seq(Turns)
  BY DEF Save, AskInv, RequestType, TalkInv, TalkType
<1>2. SessionId \in SessionIds
  BY <1>1, FirstRunIsRun DEF SessionId, SessionIds, EvidenceSlug, Sources
<1> DEFINE record == [source |-> request.source, turns |-> turns]
<1>3. record \in SavedSessions
  BY <1>1 DEF SavedSessions
<1>4. /\ sessions' = [sessions EXCEPT ![root][SessionId] = record]
      /\ told' = [told EXCEPT ![asks] = <<root, SessionId, request.source>>]
  BY DEF Save
<1> HIDE DEF record
<1>5. SavedType'
  BY <1>1, <1>2, <1>3, <1>4 DEF AskInv, SavedInv, SavedType
<1>6. \A r \in Roots, i \in SessionIds : sessions'[r][i] \in {sessions[r][i], record}
  BY <1>4 DEF AskInv, SavedInv, SavedType
<1>7. SavedTurnsSucceeded'
  <2>1. record.turns = turns
    BY DEF record
  <2>2. SavedTurnsSucceeded
    BY DEF AskInv, SavedInv
  <2> QED
    BY <1>1, <1>6, <2>1, <2>2 DEF SavedTurnsSucceeded, WentWell
<1>8. ConsentInv'
  BY NobodyIsContacted DEF Save, End, AskInv
<1>9. TalkType' /\ TalkInv'
  BY EndKeeps DEF Save, End, AskInv
<1>10. RequestType'
  BY DEF Save, End, AskInv, RequestType, Pcs
<1> QED
  BY <1>5, <1>7, <1>8, <1>9, <1>10 DEF AskInv, SavedInv

LEMMA ConverseKeeps ==
    ASSUME AskInv, Converse, UNCHANGED grounded
    PROVE  AskInv'
<1>1. CASE Consent \/ ProviderKey
  BY <1>1, ConsentKeeps
<1>2. CASE FirstAnswer
  BY <1>2, FirstAnswerKeeps
<1>3. CASE FollowUp
  BY <1>3, FollowUpKeeps
<1>4. CASE \E root \in Roots : Save(root)
  BY <1>4, SaveKeeps
<1>5. ASSUME pc \in Asking \union {"prompt", "save"}, NEW exit \in {0, 130}, End(exit),
             UNCHANGED <<request, state, turns, contacted, keychain, asks, sessions, told>>
      PROVE  AskInv'
  <2>1. ConsentInv'
    BY <1>5, NobodyIsContacted DEF End, AskInv
  <2> QED
    BY <1>5, <2>1, LastStepKeeps DEF Collecting, Asking, AskInv, RequestType
<1>6. CASE DoNotSave \/ Interrupt \/ Close
  BY <1>5, <1>6 DEF DoNotSave, Interrupt, Close
<1> QED
  BY <1>1, <1>2, <1>3, <1>4, <1>6 DEF Converse

-----------------------------------------------------------------------------
(* The calls of the model.                                                 *)

CallInv == /\ call \in GoodCalls
           /\ pc \notin Generating => call = NoCall

(* Nothing that the conversation rests on changes while a model answers.   *)
LEMMA GenerateKeeps ==
    ASSUME AskInv, NEW next \in Generating, Generate(next), UNCHANGED grounded,
           \/ pc = "answer" /\ next = "answering"
           \/ Prompted /\ next \in {"following", "transforming"}
    PROVE  AskInv'
<1>1. /\ TalkType /\ TalkInv /\ pc' = next /\ pc # "off"
      /\ UNCHANGED <<request, state, turns, contacted, code, keychain, asks, sessions, told,
                     grounded>>
  BY DEF AskInv, Generate, Prompted
<1>2. pc \in Conversing /\ pc' \in Conversing
  BY <1>1 DEF Conversing, Prompted
<1>3. ConsentInv'
  BY <1>1, <1>2, NobodyIsContacted DEF AskInv
<1>4. TalkType' /\ TalkInv'
  <2>1. CASE pc = "answer" /\ next = "answering"
    BY <1>1, <2>1, NoAnswerYet DEF Unanswered, TalkInv, TalkType
  <2>2. CASE Prompted /\ next \in {"following", "transforming"}
    <3>1. pc' \notin Unanswered /\ pc' \in FollowingUp
      BY <1>1, <2>2 DEF Unanswered, Collecting, Asking, FollowingUp
    <3>2. WentWell(turns) /\ PromptInv /\ Len(turns) < MaxTurns
      BY <2>2 DEF AskInv, TalkInv, Prompted, FollowingUp
    <3> QED
      BY <1>1, <3>1, <3>2 DEF TalkType, TalkInv, AnswersAreGrounded, RunsAreDistinct,
         FollowingUp, ZeroMeansAnswered, LastTurn, ShownAnswersAreFit, Unanswered,
         PromptInv, FollowUpRuns
  <2> QED
    BY <2>1, <2>2
<1> QED
  BY <1>1, <1>3, <1>4, TalkedKeeps DEF Pcs, AskInv, RequestType

LEMMA WaitKeeps ==
    ASSUME AskInv, Wait, UNCHANGED grounded
    PROVE  AskInv'
<1>1. /\ TalkType /\ TalkInv /\ pc \in Conversing /\ pc # "off"
      /\ contacted' \in {contacted, contacted \union {Model}}
      /\ UNCHANGED <<pc, request, state, turns, code, keychain, asks, sessions, told,
                     grounded>>
  BY DEF AskInv, Wait, Generating, Conversing
<1>2. ConsentInv' /\ contacted' \subseteq Hosts
  BY <1>1, ModelIsConsented DEF AskInv
<1>3. TalkType' /\ TalkInv'
  BY <1>1 DEF TalkType, TalkInv, AnswersAreGrounded, RunsAreDistinct, ZeroMeansAnswered,
              LastTurn, ShownAnswersAreFit, PromptInv, FollowUpRuns
<1> QED
  BY <1>1, <1>2, <1>3, TalkedKeeps DEF AskInv, RequestType

(* A turn that is taken says what its call was, and is a success if its    *)
(* call was fine.                                                          *)
LEMMA TakeKeeps ==
    ASSUME AskInv, CallInv, TakeAnswer \/ TakeTransformation \/ TakeFollowUp,
           UNCHANGED grounded
    PROVE  /\ AskInv'
           /\ call' = NoCall /\ pc' \notin Generating
           /\ turns' # <<>>
           /\ call.reached => LastTurn'.performed
           /\ call.fine => LastTurn'.status = "success"
<1>1. /\ call \in GoodCalls /\ call.at = "returned" /\ call' = NoCall /\ UNCHANGED contacted
      /\ Accepted \in BOOLEAN
      /\ call.reached => call.performed
      /\ call.fine => Accepted
  BY DEF CallInv, TakeAnswer, TakeTransformation, TakeFollowUp, Take, GoodCalls, Calls,
         Accepted
<1>2. ASSUME NEW kind \in {"answer", "transform"}, NEW good \in Turns,
             NEW turn, turn = Said(IF Accepted THEN good ELSE Failure(kind, "failed")),
             good.status = "success"
      PROVE  /\ turn \in Turns
             /\ turn.run = IF Accepted THEN good.run ELSE NoRun
             /\ turn.status = IF Accepted THEN "success" ELSE "failed"
             /\ turn.offers = (Accepted /\ good.offers)
             /\ turn.performed = call.performed
             /\ turn.text = IF Accepted THEN "fit" ELSE "none"
  <2>1. /\ Failure(kind, "failed") \in Turns /\ Failure(kind, "failed").run = NoRun
        /\ Failure(kind, "failed").status = "failed" /\ ~Failure(kind, "failed").offers
        /\ Failure(kind, "failed").offers \in BOOLEAN
    BY FailureIsTurn DEF Failure
  <2>2. good.offers \in BOOLEAN
    BY DEF Turns
  <2>3. CASE Accepted
    BY <1>1, <1>2, <2>2, <2>3, SaidIsTurn
  <2>4. CASE ~Accepted
    BY <1>1, <1>2, <2>1, <2>2, <2>4, SaidIsTurn
  <2> QED
    BY <2>3, <2>4
<1>3. ASSUME NEW turn \in Turns, turns' = Append(turns, turn) \/ turns' = <<turn>>,
             turn.performed = call.performed,
             turn.status = IF Accepted THEN "success" ELSE "failed"
      PROVE  /\ turns' # <<>>
             /\ call.reached => LastTurn'.performed
             /\ call.fine => LastTurn'.status = "success"
  <2>1. turns \in Seq(Turns)
    BY DEF AskInv, TalkType
  <2>2. turns' # <<>> /\ turns'[Len(turns')] = turn
    <3>1. CASE turns' = <<turn>>
      BY <3>1
    <3>2. CASE turns' = Append(turns, turn)
      <4>1. /\ Len(turns') = Len(turns) + 1 /\ Len(turns) \in Nat
            /\ turns'[Len(turns) + 1] = turn
        BY <1>3, <2>1, <3>2, AppendProperties
      <4> QED
        BY <4>1
    <3> QED
      BY <1>3, <3>1, <3>2
  <2> QED
    BY <1>1, <1>3, <2>2 DEF LastTurn
<1>4. CASE TakeAnswer
  <2> DEFINE good == Success("answer", 0)
             turn == Said(IF Accepted THEN good ELSE Failure("answer", "failed"))
             st == [seed |-> Accepted, service |-> TRUE, index |-> 0]
  <2>1. pc = "answering" /\ AfterFirst(st, turn)
    BY <1>4 DEF TakeAnswer, Take
  <2>2. /\ good \in Turns /\ good.run = 0 /\ good.status = "success"
        /\ st \in States /\ st.index = 0 /\ st.seed = Accepted
    BY <1>1, SuccessIsTurn, MaxTurnsAssumption DEF Success, States, NoRun
  <2>3. /\ turn \in Turns
        /\ turn.run = IF Accepted THEN good.run ELSE NoRun
        /\ turn.status = IF Accepted THEN "success" ELSE "failed"
        /\ turn.offers = (Accepted /\ good.offers)
        /\ turn.performed = call.performed
        /\ turn.text = IF Accepted THEN "fit" ELSE "none"
    BY <1>2, <2>2
  <2>4. turns' = <<turn>> /\ pc' \in {"off", "prompt", "save"}
    BY <2>1 DEF AfterFirst, End
  <2> HIDE DEF turn, st, good
  <2>5. AskInv'
    BY <1>1, <2>1, <2>2, <2>3, FirstOutputKeeps
  <2> QED
    BY <1>1, <1>3, <2>3, <2>4, <2>5 DEF Generating
<1>5. CASE TakeTransformation
  <2> DEFINE good == Local("transform")
             turn == Said(IF Accepted THEN good ELSE Failure("transform", "failed"))
             st == [state EXCEPT !.seed = @ /\ Accepted]
  <2>1. pc = "transforming" /\ AfterTurn(st, turn)
    BY <1>5 DEF TakeTransformation, Take
  <2>2. pc \in FollowingUp /\ Len(turns) < MaxTurns /\ state \in States /\ state.seed
    BY <2>1, AtPrompt DEF AskInv, TalkInv, FollowingUp
  <2>3. /\ good \in Turns /\ good.run = NoRun /\ good.status = "success"
        /\ st \in States /\ st.index = state.index /\ st.seed = Accepted
    BY <1>1, <2>2, LocalIsTurn DEF Local, States
  <2>4. /\ turn \in Turns
        /\ turn.run = IF Accepted THEN good.run ELSE NoRun
        /\ turn.status = IF Accepted THEN "success" ELSE "failed"
        /\ turn.performed = call.performed
        /\ turn.text = IF Accepted THEN "fit" ELSE "none"
    BY <1>2, <2>3
  <2>5. turns' = Append(turns, turn) /\ pc' \in {"off", "prompt", "save"}
    BY <2>1 DEF AfterTurn, End
  <2> HIDE DEF turn, st, good
  <2>6. AskInv'
    BY <1>1, <2>1, <2>2, <2>3, <2>4, SaidKeeps
  <2> QED
    BY <1>1, <1>3, <2>4, <2>5, <2>6 DEF Generating
<1>6. CASE TakeFollowUp
  <2> DEFINE good == Success("answer", state.index + 1)
             turn == Said(IF Accepted THEN good ELSE Failure("answer", "failed"))
             st == FollowedUp(Accepted)
  <2>1. pc = "following" /\ AfterTurn(st, turn)
    BY <1>6 DEF TakeFollowUp, Take
  <2>2. pc \in FollowingUp /\ Len(turns) < MaxTurns
    BY <2>1 DEF AskInv, TalkInv, FollowingUp
  <2>3. /\ good \in Turns /\ good.run = state.index + 1 /\ good.status = "success"
        /\ st \in States /\ st.index = state.index + 1 /\ st.seed = Accepted
        /\ state.index + 1 # NoRun
    BY <1>1, <2>2, AtPrompt, SuccessIsTurn DEF Success
  <2>4. /\ turn \in Turns
        /\ turn.run = IF Accepted THEN good.run ELSE NoRun
        /\ turn.status = IF Accepted THEN "success" ELSE "failed"
        /\ turn.performed = call.performed
        /\ turn.text = IF Accepted THEN "fit" ELSE "none"
    BY <1>2, <2>3
  <2>5. turns' = Append(turns, turn) /\ pc' \in {"off", "prompt", "save"}
    BY <2>1 DEF AfterTurn, End
  <2> HIDE DEF turn, st, good
  <2>6. AskInv'
    BY <1>1, <2>1, <2>2, <2>3, <2>4, SaidKeeps
  <2> QED
    BY <1>1, <1>3, <2>4, <2>5, <2>6 DEF Generating
<1> QED
  BY <1>4, <1>5, <1>6

LEMMA CallModelKeeps ==
    ASSUME AskInv, CallInv, CallModel, UNCHANGED grounded
    PROVE  AskInv' /\ CallInv'
<1>1. CASE AskModel \/ TransformByModel \/ FollowUpByModel
  <2>1. PICK next \in Generating :
          /\ Generate(next)
          /\ \/ pc = "answer" /\ next = "answering"
             \/ Prompted /\ next \in {"following", "transforming"}
    BY <1>1 DEF AskModel, TransformByModel, FollowUpByModel, Generating
  <2>2. call' \in GoodCalls /\ pc' \in Generating
    BY <2>1, NoCallIsGood DEF Generate
  <2> QED
    BY <2>1, <2>2, GenerateKeeps DEF CallInv
<1>2. CASE Wait
  BY <1>2, WaitKeeps, ThinkKeeps DEF Wait, CallInv
<1>3. CASE TakeAnswer \/ TakeTransformation \/ TakeFollowUp
  BY <1>3, TakeKeeps, NoCallIsGood DEF CallInv
<1> QED
  BY <1>1, <1>2, <1>3 DEF CallModel

(* All that is not a call of the model happens while none is under way.    *)
LEMMA ConverseIsIdle == Converse => pc \notin Generating
<1>1. Consent \/ ProviderKey => pc \notin Generating
  BY DEF Consent, ConsentToFetch, ConsentToLlm, DeclineProvider, ConsentToProvider,
         ProviderKey, UseStoredKey, PromptForKey, TypeKey, UseKeyOnce, StoreKey, NoKey,
         Generating
<1>2. FirstAnswer \/ FollowUp => pc \notin Generating
  BY DEF FirstAnswer, Block, NoAnswer, AnswerBriefly, FollowUp, Summarise,
         TransformLocally, TransformUnserved, FollowUpRefused, FollowUpBriefly, Leave,
         Prompted, Generating
<1>3. (\E root \in Roots : Save(root)) \/ DoNotSave \/ Interrupt \/ Close
        => pc \notin Generating
  BY DEF Save, DoNotSave, Interrupt, Close, Asking, Generating
<1> QED
  BY <1>1, <1>2, <1>3 DEF Converse

LEMMA GetEvidenceIsIdle == GetEvidence => pc \notin Generating
  BY DEF GetEvidence, ReadArchive, BeginFetch, FetchPage, TakePage, Generating

-----------------------------------------------------------------------------
(* The ask and the fetches together.                                       *)

AllInv == FetchInv /\ CallInv /\ AskInv

LEMMA AskUntouched ==
    ASSUME AskInv,
           UNCHANGED <<pc, request, state, turns, contacted, code, keychain, asks, sessions,
                       told, grounded>>
    PROVE  AskInv'
<1>1. RequestType' /\ TalkType'
  BY DEF AskInv, RequestType, TalkType
<1>2. ConsentInv'
  BY NobodyIsContacted DEF AskInv
<1>3. TalkInv'
  BY DEF AskInv, TalkInv, AnswersAreGrounded, PromptInv, FollowUpRuns, RunsAreDistinct,
         ZeroMeansAnswered, LastTurn, ShownAnswersAreFit
<1> QED
  BY <1>1, <1>2, <1>3, SavedKeeps DEF AskInv

LEMMA FetchUntouched ==
    ASSUME FetchInv, UNCHANGED <<job, archives>> PROVE FetchInv'
  BY DEF FetchInv

LEMMA ConsoleJobKeeps ==
    ASSUME FetchInv, job' = [job EXCEPT ![Console] = NoJob], UNCHANGED archives
    PROVE  FetchInv'
  BY JobKeeps, NoJobIsGood

LEMMA IdleKeeps ==
    ASSUME CallInv, UNCHANGED call, pc \notin Generating \/ UNCHANGED pc
    PROVE  CallInv'
  BY DEF CallInv

LEMMA GetEvidenceKeeps ==
    ASSUME FetchInv, AskInv, GetEvidence
    PROVE  FetchInv' /\ AskInv'
<1>0. FetchInv /\ AskInv /\ RequestType /\ ConsentInv /\ TalkType /\ TalkInv
  BY DEF AskInv
<1>1. CASE ReadArchive
  <2>1. archives[request.source] \in GoodArchives
    BY <1>0, <1>1 DEF ReadArchive, FetchInv
  <2>2. /\ archives[request.source].consented \in BOOLEAN
        /\ archives[request.source].facts = "ready" => archives[request.source].consented
    BY <2>1 DEF GoodArchives, Archives
  <2>3. AskInv'
    BY <1>0, <1>1, <2>2, EvidenceKeeps DEF ReadArchive
  <2> QED
    BY <1>0, <1>1, <2>3, FetchUntouched DEF ReadArchive
<1>2. ASSUME NEW fetchable \in BOOLEAN, BeginFetch(fetchable) PROVE FetchInv' /\ AskInv'
  <2> DEFINE granted == AskControls(fetchable)
             j == [NoJob EXCEPT !.granted = granted]
  <2>1. /\ granted \in SUBSET Controls
        /\ "confirmation" \in granted \/ "allow_runtime_fetch" \notin granted
    BY DEF AskControls, Controls
  <2> HIDE DEF granted
  <2>2. j \in Jobs /\ ~j.reached /\ j.outcome = Refused /\ j.granted = granted
    BY <2>1, RefusedIsGood DEF NoJob, Jobs, GoodOutcomes
  <2>3. Called(j) \in GoodJobs
    BY <2>1, <2>2, CalledIsGood
  <2>4. /\ pc = "run" /\ pc' = "fetching" /\ ~Preflighted /\ request.source \in Urls
        /\ UNCHANGED <<request, state, turns, contacted, code, keychain, asks, sessions,
                       told, grounded, archives>>
        /\ job' = [job EXCEPT ![Console] = Called(j)]
    BY <1>2 DEF BeginFetch, granted
  <2> HIDE DEF j
  <2>5. FetchInv'
    BY <1>0, <2>3, <2>4, JobKeeps
  <2>6. ConsentInv'
    BY <1>0, <2>4, NobodyIsContacted
  <2>7. TalkType' /\ TalkInv'
    BY <1>0, <2>4, NoAnswerYet DEF Unanswered, TalkType
  <2> QED
    BY <1>0, <2>4, <2>5, <2>6, <2>7, TalkedKeeps DEF Pcs, RequestType
<1>3. ASSUME NEW reached \in BOOLEAN, FetchPage(reached) PROVE FetchInv' /\ AskInv'
  <2>1. /\ pc = "fetching" /\ Respond(Console, reached)
        /\ contacted' \in {contacted, contacted \union {"source"}}
        /\ UNCHANGED <<pc, request, state, turns, code, keychain, asks, sessions, told,
                       grounded>>
    BY <1>3 DEF FetchPage
  <2>2. FetchInv'
    BY <1>0, <2>1, RespondKeeps DEF Actors
  <2>3. request.fetch = "yes"
    BY <1>0, <2>1 DEF ConsentInv, Preflighted
  <2>4. ConsentInv'
    BY <1>0, <2>1, <2>3 DEF ConsentInv, Preflighted, Collecting, Asking
  <2>5. TalkType' /\ TalkInv'
    BY <1>0, <2>1, NoAnswerYet DEF Unanswered, TalkType
  <2> QED
    BY <1>0, <2>1, <2>2, <2>4, <2>5, TalkedKeeps DEF Pcs, RequestType, Hosts
<1>4. CASE TakePage
  <2> DEFINE outcome == job[Console].outcome
             facts == IF outcome.facts = "ready" THEN "ready" ELSE "blocked"
  <2>1. outcome \in GoodOutcomes
    BY <1>0 DEF FetchInv, Actors, GoodJobs
  <2>2. outcome.consented \in BOOLEAN /\ (facts = "ready" => outcome.consented)
    BY <2>1 DEF GoodOutcomes, Outcomes
  <2>3. /\ pc = "fetching" /\ TakeEvidence(facts, outcome.consented)
        /\ UNCHANGED <<contacted, archives>>
        /\ job' = [job EXCEPT ![Console] = NoJob]
    BY <1>4 DEF TakePage
  <2>4. ~Preflighted
    BY <1>0, <2>3 DEF ConsentInv
  <2> HIDE DEF facts, outcome
  <2>5. AskInv'
    BY <1>0, <2>2, <2>3, <2>4, EvidenceKeeps
  <2> QED
    BY <1>0, <2>3, <2>5, ConsoleJobKeeps
<1> QED
  BY <1>1, <1>2, <1>3, <1>4 DEF GetEvidence

LEMMA RaiseKeeps ==
    ASSUME AllInv, Raise
    PROVE  AllInv'
<1>0. FetchInv /\ AskInv /\ RequestType /\ ConsentInv
  BY DEF AllInv, AskInv
<1>1. FetchInv'
  BY <1>0, ConsoleJobKeeps DEF Raise
<1>2. /\ pc \in {"run", "fetching"} \union Conversing /\ End(1) /\ pc' = "off"
      /\ call' = NoCall
      /\ UNCHANGED <<request, state, turns, keychain, asks, sessions, told, grounded>>
      /\ contacted' \in {contacted, contacted \union MayBeContacted}
  BY DEF Raise, End, Conversing
<1>3. ConsentInv' /\ contacted' \subseteq Hosts
  <2>1. CASE contacted' = contacted
    BY <1>0, <1>2, <2>1, NobodyIsContacted DEF RequestType
  <2>2. CASE MayBeContacted = {"source"} /\ pc = "fetching"
    BY <1>0, <1>2, <2>2 DEF ConsentInv, RequestType, Hosts, Preflighted, Collecting, Asking,
       Conversing, Generating
  <2>3. CASE MayBeContacted = {Model} /\ pc \in Conversing
    BY <1>0, <1>2, <2>3, ModelIsConsented
  <2>4. CASE MayBeContacted = {}
    BY <1>2, <2>1, <2>4
  <2> QED
    BY <1>2, <2>2, <2>3, <2>4 DEF MayBeContacted, Conversing
<1>4. AskInv'
  BY <1>0, <1>2, <1>3, LastStepKeeps DEF Conversing, Generating
<1>5. CallInv'
  BY <1>2, NoCallIsGood DEF CallInv
<1> QED
  BY <1>1, <1>4, <1>5 DEF AllInv

LEMMA StepKeeps == AllInv /\ [Next]_vars => AllInv'
<1> SUFFICES ASSUME AllInv, [Next]_vars PROVE AllInv'
  OBVIOUS
<1>0. FetchInv /\ CallInv /\ AskInv
  BY DEF AllInv
<1>1. ASSUME NEW source \in Sources, NEW question \in BOOLEAN, NEW json \in BOOLEAN,
             NEW model \in Models, Start(source, question, json, model)
      PROVE  AllInv'
  BY <1>0, <1>1, StartKeeps, FetchUntouched, IdleKeeps DEF Start, AllInv, Generating
<1>2. CASE Converse /\ UNCHANGED <<evidenceVars, call>>
  BY <1>0, <1>2, ConverseKeeps, ConverseIsIdle, FetchUntouched, IdleKeeps
     DEF evidenceVars, AllInv
<1>3. CASE GetEvidence /\ UNCHANGED call
  BY <1>0, <1>3, GetEvidenceKeeps, GetEvidenceIsIdle, IdleKeeps DEF AllInv
<1>4. CASE Raise
  BY <1>4, RaiseKeeps
<1>5. ASSUME NEW c \in Commands, FetchCommand(c),
             UNCHANGED <<pc, request, state, turns, contacted, code, keychain, asks,
                         sessions, told, grounded, call>>
      PROVE  AllInv'
  BY <1>0, <1>5, CommandKeeps, AskUntouched, IdleKeeps DEF AllInv
<1>6. CASE CallModel /\ UNCHANGED evidenceVars
  BY <1>0, <1>6, CallModelKeeps, FetchUntouched DEF evidenceVars, AllInv
<1>7. CASE UNCHANGED vars
  BY <1>0, <1>7, FetchUntouched, AskUntouched, IdleKeeps DEF vars, AllInv
<1> QED
  BY <1>1, <1>2, <1>3, <1>4, <1>5, <1>6, <1>7 DEF Next

LEMMA Invariance == Spec => []AllInv
<1>1. Init => AllInv
  BY AskInit, FetchStarts, NoCallIsGood DEF Init, AllInv, CallInv
<1> QED
  BY <1>1, StepKeeps, PTL DEF Spec

(* Every variable of the ask and of the fetches keeps its type.            *)
THEOREM Typing == Spec => []TypeOK
<1>1. AllInv => TypeOK
  BY FetchInvImplies DEF AllInv, AskInv, RequestType, TalkType, SavedInv, SavedType, TypeOK,
     Pcs, Hosts, CallInv, GoodCalls
<1> QED
  BY <1>1, Invariance, PTL

(* No host is reached and no model called without the consents, the        *)
(* controls and the key that it takes, for any number of fetch commands    *)
(* beside the ask.                                                         *)
THEOREM NothingIsUnasked == Spec => []NothingUnasked
<1>1. AllInv => NothingUnasked
  BY FetchInvImplies DEF AllInv, AskInv, ConsentInv, NothingUnasked
<1> QED
  BY <1>1, Invariance, PTL

(* A fetch that reached its host is reported as performed.                 *)
THEOREM FetchReports == Spec => []FetchesAreReported
<1>1. AllInv => FetchesAreReported
  BY FetchInvImplies DEF AllInv
<1> QED
  BY <1>1, Invariance, PTL

(* An answer rests on evidence that was fetched with every control.        *)
THEOREM GroundedAnswers == Spec => []AnswersAreGrounded
<1>1. AllInv => AnswersAreGrounded
  BY DEF AllInv, AskInv, TalkInv
<1> QED
  BY <1>1, Invariance, PTL

(* The state at the prompt can be followed up, and counts the follow-ups.  *)
THEOREM CurrentPrompts == Spec => []PromptStateIsCurrent
<1>1. AllInv => PromptStateIsCurrent
  BY LastOfAll DEF AllInv, AskInv, TalkInv, TalkType, PromptInv, PromptStateIsCurrent,
     LastTurn, FollowingUp
<1> QED
  BY <1>1, Invariance, PTL

(* No two turns carry the same answer run, in conversations of any length. *)
THEOREM DistinctRuns == Spec => []RunsAreDistinct
<1>1. AllInv => RunsAreDistinct
  BY DEF AllInv, AskInv, TalkInv
<1> QED
  BY <1>1, Invariance, PTL

(* What is saved went well from its first answer to its end.               *)
THEOREM SavedConversations == Spec => []SavedTurnsSucceeded
<1>1. AllInv => SavedTurnsSucceeded
  BY DEF AllInv, AskInv, SavedInv
<1> QED
  BY <1>1, Invariance, PTL

(* Code 0 means that the last thing shown was a good answer, or nothing.   *)
THEOREM ExitCodes == Spec => []ZeroMeansAnswered
<1>1. AllInv => ZeroMeansAnswered
  BY DEF AllInv, AskInv, TalkInv
<1> QED
  BY <1>1, Invariance, PTL

(* What is shown as an answer is fit to be one.                            *)
THEOREM FitAnswers == Spec => []ShownAnswersAreFit
<1>1. AllInv => ShownAnswersAreFit
  BY DEF AllInv, AskInv, TalkInv
<1> QED
  BY <1>1, Invariance, PTL

(* A turn that is shown while a call is under way is that of the call.     *)
LEMMA ShownTurnIsOfCall ==
    ASSUME AllInv, [Next]_vars, TurnIsShown
    PROVE  /\ call.reached => LastTurn'.performed
           /\ call.fine => LastTurn'.status = "success"
<1>0. CallInv /\ AskInv
  BY DEF AllInv
<1>1. CASE pc \notin Generating
  BY <1>0, <1>1, NoCallIsGood DEF CallInv
<1>2. CASE pc \in Generating
  <2>1. CASE CallModel /\ UNCHANGED evidenceVars
    <3>1. ~(AskModel \/ TransformByModel \/ FollowUpByModel \/ Wait)
      BY DEF TurnIsShown, AskModel, TransformByModel, FollowUpByModel, Generate, Wait
    <3>2. TakeAnswer \/ TakeTransformation \/ TakeFollowUp
      BY <2>1, <3>1 DEF CallModel
    <3> QED
      BY <1>0, <2>1, <3>2, TakeKeeps DEF evidenceVars
  <2>2. ~(Converse \/ GetEvidence)
    BY <1>2, ConverseIsIdle, GetEvidenceIsIdle
  <2>3. ~(\E source \in Sources, question, json \in BOOLEAN, model \in Models :
             Start(source, question, json, model))
    BY <1>2 DEF Start, Generating
  <2>4. ~(Raise \/ UNCHANGED vars)
    BY DEF TurnIsShown, Raise, vars
  <2>5. ~(UNCHANGED <<pc, request, state, turns, contacted, code, keychain, asks, sessions,
                      told, grounded, call>>)
    BY DEF TurnIsShown
  <2> QED
    BY <2>1, <2>2, <2>3, <2>4, <2>5 DEF Next
<1> QED
  BY <1>1, <1>2

(* Every turn tells of the call that was made for it.                      *)
THEOREM ReportedCalls == Spec => ModelCallsAreReported
<1>1. AllInv /\ [Next]_vars => [TurnIsShown /\ call.reached => LastTurn'.performed]_vars
  BY ShownTurnIsOfCall
<1> QED
  BY <1>1, Invariance, PTL DEF Spec, ModelCallsAreReported

(* An output that probe and ask find good becomes the answer.              *)
THEOREM KeptAnswers == Spec => FineAnswersAreKept
<1>1. AllInv /\ [Next]_vars =>
        [TurnIsShown /\ call.fine => LastTurn'.status = "success"]_vars
  BY ShownTurnIsOfCall
<1> QED
  BY <1>1, Invariance, PTL DEF Spec, FineAnswersAreKept

-----------------------------------------------------------------------------
(* What is left of the two promises that the code does not keep.           *)

(* Whether follow-ups are served is decided by the first answer alone:     *)
(* after a brief one all of them are refused, after another one none is.   *)
ServedByFirst ==
    \A n \in 2 .. Len(turns) :
        /\ turns[n].kind = "refused" => turns[1].kind = "brief"
        /\ turns[n].kind \in {"answer", "brief"} => turns[1].kind # "brief"

(* The state has a service exactly if the first answer was not brief.      *)
ServiceInv ==
    /\ pc \in FollowingUp => (state.service <=> turns[1].kind # "brief")
    /\ pc = "following" => state.service

ServedInv == ServiceInv /\ ServedByFirst

LEMMA ServedQuietly ==
    ASSUME ServedInv, UNCHANGED <<state, turns>>,
           \/ pc' \notin FollowingUp
           \/ pc \in FollowingUp /\ (pc' = "following" => pc = "following" \/ state.service)
    PROVE  ServedInv'
<1>1. state' = state /\ turns' = turns
  OBVIOUS
<1>2. ServedByFirst'
  BY <1>1 DEF ServedInv, ServedByFirst
<1>3. ServiceInv'
  BY <1>1 DEF ServedInv, ServiceInv, FollowingUp
<1> QED
  BY <1>2, <1>3 DEF ServedInv

LEMMA ServedFirst ==
    ASSUME NEW st, NEW turn, AfterFirst(st, turn),
           st # None => (st.service <=> turn.kind # "brief")
    PROVE  ServedInv'
<1>1. turns' = <<turn>> /\ state' = st
  BY DEF AfterFirst
<1>2. Len(turns') = 1 /\ turns'[1] = turn
  BY <1>1
<1>3. pc' \in FollowingUp => pc' = "prompt" /\ st # None
  BY DEF AfterFirst, Available, End, FollowingUp
<1>4. ServedByFirst'
  BY <1>2 DEF ServedByFirst
<1>5. ServiceInv'
  <2>1. ASSUME pc' \in FollowingUp PROVE state'.service <=> turns'[1].kind # "brief"
    BY <1>1, <1>2, <1>3, <2>1
  <2>2. pc' # "following"
    BY <1>3 DEF FollowingUp
  <2> QED
    BY <2>1, <2>2 DEF ServiceInv
<1> QED
  BY <1>4, <1>5 DEF ServedInv

LEMMA ServedNext ==
    ASSUME AskInv, ServedInv, pc \in FollowingUp, NEW st, NEW turn, AfterTurn(st, turn),
           st.service = state.service,
           turn.kind = "refused" => ~state.service,
           turn.kind \in {"answer", "brief"} => state.service
    PROVE  ServedInv'
<1>1. turns' = Append(turns, turn) /\ state' = st /\ pc' # "following"
  BY DEF AfterTurn, End
<1>2. turns \in Seq(Turns) /\ turns # <<>> /\ Len(turns) \in Nat
  BY DEF AskInv, TalkType, TalkInv, WentWell, LenProperties
<1>3. /\ Len(turns') = Len(turns) + 1 /\ turns'[Len(turns) + 1] = turn
      /\ \A n \in 1 .. Len(turns) : turns'[n] = turns[n]
  BY <1>1, <1>2, AppendProperties
<1>4. 1 \in 1 .. Len(turns)
  BY <1>2, EmptySeq
<1>5. turns'[1] = turns[1]
  BY <1>3, <1>4
<1>6. state.service <=> turns[1].kind # "brief"
  BY DEF ServedInv, ServiceInv
<1>7. ServedByFirst'
  <2> SUFFICES ASSUME NEW n \in 2 .. Len(turns) + 1
               PROVE  /\ turns'[n].kind = "refused" => turns[1].kind = "brief"
                      /\ turns'[n].kind \in {"answer", "brief"} => turns[1].kind # "brief"
    BY <1>3, <1>5 DEF ServedByFirst
  <2>1. CASE n = Len(turns) + 1
    BY <1>3, <1>6, <2>1
  <2>2. CASE n # Len(turns) + 1
    <3>1. n \in 2 .. Len(turns) /\ n \in 1 .. Len(turns)
      BY <1>2, <2>2
    <3> QED
      BY <1>3, <3>1 DEF ServedInv, ServedByFirst
  <2> QED
    BY <2>1, <2>2
<1> QED
  BY <1>1, <1>5, <1>6, <1>7 DEF ServedInv, ServiceInv

LEMMA ServedStep ==
    ASSUME AllInv, ServedInv, [Next]_vars
    PROVE  ServedInv'
<1>0. AskInv /\ (pc \in FollowingUp => state # None /\ state.seed)
  BY DEF AllInv, AskInv, TalkInv, PromptInv
<1>1. CASE \E source \in Sources, question, json \in BOOLEAN, model \in Models :
              Start(source, question, json, model)
  <2>1. turns' = <<>> /\ pc' \notin FollowingUp
    BY <1>1 DEF Start, FollowingUp
  <2> QED
    BY <2>1 DEF ServedInv, ServiceInv, ServedByFirst, FollowingUp
<1>2. CASE Converse
  <2>1. CASE Consent \/ ProviderKey
    <3>1. UNCHANGED <<state, turns>> /\ pc' \notin FollowingUp
      BY <2>1 DEF Consent, ConsentToFetch, ConsentToLlm, DeclineProvider, ConsentToProvider,
         ProviderKey, UseStoredKey, PromptForKey, TypeKey, UseKeyOnce, StoreKey, NoKey,
         Refuse, Collect, FollowingUp
    <3> QED
      BY <3>1, ServedQuietly
  <2>2. CASE Block \/ NoAnswer
    <3>1. AfterFirst(None, Failure("answer", "blocked"))
      BY <2>2 DEF Block, NoAnswer
    <3> QED
      BY <3>1, ServedFirst
  <2>3. CASE AnswerBriefly
    <3>1. /\ AfterFirst([seed |-> TRUE, service |-> FALSE, index |-> 0],
                        Success("brief", 0))
          /\ Success("brief", 0).kind = "brief"
      BY <2>3 DEF AnswerBriefly, Success
    <3> QED
      BY <3>1, ServedFirst
  <2>4. CASE Summarise \/ TransformLocally
    <3>1. PICK kind \in {"summary", "transform"} : AfterTurn(state, Local(kind))
      BY <2>4 DEF Summarise, TransformLocally
    <3>2. pc \in FollowingUp /\ Local(kind).kind = kind
      BY <2>4 DEF Summarise, TransformLocally, Prompted, FollowingUp, Local
    <3> QED
      BY <1>0, <3>1, <3>2, ServedNext
  <2>5. CASE TransformUnserved
    <3>1. /\ pc \in FollowingUp /\ AfterTurn(state, Failure("transform", "failed"))
          /\ Failure("transform", "failed").kind = "transform"
      BY <2>5 DEF TransformUnserved, Prompted, FollowingUp, Failure
    <3> QED
      BY <1>0, <3>1, ServedNext
  <2>6. CASE FollowUpRefused
    <3>1. /\ pc \in FollowingUp /\ AfterTurn(state, Failure("refused", "blocked"))
          /\ Failure("refused", "blocked").kind = "refused"
          /\ ~state.seed \/ ~state.service
      BY <2>6 DEF FollowUpRefused, Prompted, FollowingUp, Failure, CannotFollowUp
    <3> QED
      BY <1>0, <3>1, ServedNext
  <2>7. CASE FollowUpBriefly
    <3> DEFINE turn == Success("brief", state.index + 1)
    <3>1. /\ pc \in FollowingUp /\ AfterTurn(FollowedUp(TRUE), turn)
          /\ turn.kind = "brief" /\ state.service
      BY <2>7 DEF FollowUpBriefly, Prompted, FollowingUp, Success, CannotFollowUp
    <3>2. FollowedUp(TRUE).service = state.service
      BY <1>0, <3>1 DEF FollowedUp, AllInv, AskInv, TalkType, States
    <3> HIDE DEF turn
    <3> QED
      BY <1>0, <3>1, <3>2, ServedNext
  <2>8. CASE Leave \/ (\E root \in Roots : Save(root)) \/ DoNotSave \/ Interrupt \/ Close
    <3>1. UNCHANGED <<state, turns>> /\ pc' \notin FollowingUp
      BY <2>8 DEF Leave, Save, DoNotSave, Interrupt, Close, End, FollowingUp
    <3> QED
      BY <3>1, ServedQuietly
  <2> QED
    BY <1>2, <2>1, <2>2, <2>3, <2>4, <2>5, <2>6, <2>7, <2>8
       DEF Converse, FirstAnswer, FollowUp
<1>3. CASE CallModel
  <2>1. CASE AskModel \/ TransformByModel \/ FollowUpByModel
    <3>1. /\ UNCHANGED <<state, turns>>
          /\ \/ pc' \notin FollowingUp
             \/ pc \in FollowingUp /\ (pc' = "following" => state.service)
      BY <2>1 DEF AskModel, TransformByModel, FollowUpByModel, Generate, Prompted,
         FollowingUp, CannotFollowUp
    <3> QED
      BY <3>1, ServedQuietly
  <2>2. CASE Wait
    BY <2>2, ServedQuietly DEF Wait, FollowingUp, Generating
  <2>3. CASE TakeAnswer
    <3> DEFINE st == [seed |-> Accepted, service |-> TRUE, index |-> 0]
               turn == Said(IF Accepted THEN Success("answer", 0)
                            ELSE Failure("answer", "failed"))
    <3>1. AfterFirst(st, turn)
      BY <2>3 DEF TakeAnswer
    <3>2. st.service /\ turn.kind # "brief"
      BY DEF Said, Success, Failure
    <3> HIDE DEF st, turn
    <3> QED
      BY <3>1, <3>2, ServedFirst
  <2>4. CASE TakeTransformation
    <3> DEFINE st == [state EXCEPT !.seed = state.seed /\ Accepted]
               turn == Said(IF Accepted THEN Local("transform")
                            ELSE Failure("transform", "failed"))
    <3>1. pc \in FollowingUp /\ AfterTurn(st, turn)
      BY <2>4 DEF TakeTransformation, Take, FollowingUp
    <3>2. turn.kind = "transform"
      BY DEF Said, Local, Failure
    <3>3. st.service = state.service
      BY <1>0, <3>1 DEF AskInv, TalkType, States
    <3> HIDE DEF st, turn
    <3> QED
      BY <1>0, <3>1, <3>2, <3>3, ServedNext
  <2>5. CASE TakeFollowUp
    <3> DEFINE st == FollowedUp(Accepted)
               turn == Said(IF Accepted THEN Success("answer", state.index + 1)
                            ELSE Failure("answer", "failed"))
    <3>1. pc = "following" /\ pc \in FollowingUp /\ AfterTurn(st, turn)
      BY <2>5 DEF TakeFollowUp, Take, FollowingUp
    <3>2. turn.kind = "answer" /\ state.service
      BY <3>1 DEF Said, Success, Failure, ServedInv, ServiceInv
    <3>3. st.service = state.service
      BY <1>0, <3>1 DEF FollowedUp, AskInv, TalkType, States
    <3> HIDE DEF st, turn
    <3> QED
      BY <1>0, <3>1, <3>2, <3>3, ServedNext
  <2> QED
    BY <1>3, <2>1, <2>2, <2>3, <2>4, <2>5 DEF CallModel
<1>4. CASE GetEvidence
  <2>1. ASSUME NEW facts, NEW consented, TakeEvidence(facts, consented) PROVE ServedInv'
    <3>1. CASE pc' = "answer" /\ UNCHANGED <<state, turns>>
      BY <3>1, ServedQuietly DEF FollowingUp
    <3>2. CASE \E status \in {"insufficient_evidence", "blocked"} :
                  AfterFirst(None, Failure("answer", status))
      BY <3>2, ServedFirst
    <3> QED
      BY <2>1, <3>1, <3>2 DEF TakeEvidence
  <2>2. CASE (\E fetchable \in BOOLEAN : BeginFetch(fetchable))
             \/ \E reached \in BOOLEAN : FetchPage(reached)
    <3>1. UNCHANGED <<state, turns>> /\ pc' \notin FollowingUp
      BY <2>2 DEF BeginFetch, FetchPage, FollowingUp
    <3> QED
      BY <3>1, ServedQuietly
  <2> QED
    BY <1>4, <2>1, <2>2 DEF GetEvidence, ReadArchive, TakePage
<1>5. CASE Raise
  BY <1>5, ServedQuietly DEF Raise, End, FollowingUp
<1>6. CASE UNCHANGED <<pc, state, turns>>
  BY <1>6, ServedQuietly
<1> QED
  BY <1>1, <1>2, <1>3, <1>4, <1>5, <1>6 DEF Next, vars

(* A follow-up over the same evidence is refused only if the first answer  *)
(* was a brief one, and then each of them is, however the loop goes on.    *)
THEOREM RefusedAfterBrief == Spec => []ServedByFirst
<1>1. Init => ServedInv
  BY DEF Init, ServedInv, ServiceInv, ServedByFirst, FollowingUp
<1>2. ServedInv => ServedByFirst
  BY DEF ServedInv
<1> QED
  BY <1>1, <1>2, ServedStep, Invariance, PTL DEF Spec

-----------------------------------------------------------------------------
(* What an ask was told to be saved.                                       *)

SavedAs(n, key) == told[n] # None /\ <<told[n][1], told[n][2]>> = key

Key(n) == <<told[n][1], told[n][2]>>

Listed(n) == sessions[told[n][1]][told[n][2]]

(* The session of an ask that was told saved is listed, and is about its   *)
(* source, or about that of a later ask which was told the same name; then *)
(* both sources are pages: the sessions about evidence files stay.         *)
ReplacedBy(n, m) == SavedAs(m, Key(n)) /\ told[m][3] = Listed(n).source

SourcesStayUnlessReplaced ==
    \A n \in 1 .. MaxAsks : told[n] # None =>
        /\ Listed(n) # None
        /\ \/ Listed(n).source = told[n][3]
           \/ /\ {Listed(n).source, told[n][3]} \subseteq Urls
              /\ \E m \in n + 1 .. asks : ReplacedBy(n, m)

(* An ask is told so once, at its end, and the name says what its source's *)
(* evidence is called; nothing else is listed.                             *)
ToldInv ==
    /\ pc # "off" => asks > 0
    /\ \A n \in 1 .. MaxAsks : told[n] # None =>
         /\ n <= asks /\ (pc # "off" => n < asks)
         /\ told[n][2][1] = EvidenceSlug(told[n][3])
    /\ SourcesStayUnlessReplaced
    /\ \A r \in Roots, i \in SessionIds :
         sessions[r][i] # None => \E n \in 1 .. MaxAsks : SavedAs(n, <<r, i>>)

(* Every step starts an ask, saves one, or concerns neither.               *)
StartsAsk ==
    /\ pc = "off" /\ asks < MaxAsks /\ asks' = asks + 1
    /\ UNCHANGED <<sessions, told>>

SavesNothing == UNCHANGED <<asks, sessions, told>> /\ (pc = "off" => pc' = "off")

LEMMA StepsOfSaving ==
    ASSUME [Next]_vars
    PROVE  StartsAsk \/ (\E root \in Roots : Save(root)) \/ SavesNothing
<1>1. CASE \E source \in Sources, question, json \in BOOLEAN, model \in Models :
              Start(source, question, json, model)
  BY <1>1 DEF Start, StartsAsk
<1>2. CASE Converse
  <2>1. Consent \/ ProviderKey => SavesNothing
    BY DEF Consent, ConsentToFetch, ConsentToLlm, DeclineProvider, ConsentToProvider,
       ProviderKey, UseStoredKey, PromptForKey, TypeKey, UseKeyOnce, StoreKey, NoKey,
       Refuse, Collect, SavesNothing
  <2>2. FirstAnswer => SavesNothing
    BY DEF FirstAnswer, Block, NoAnswer, AnswerBriefly, AfterFirst, SavesNothing
  <2>3. FollowUp => SavesNothing
    BY DEF FollowUp, Summarise, TransformLocally, TransformUnserved, FollowUpRefused,
       FollowUpBriefly, Leave, Prompted, AfterTurn, SavesNothing
  <2>4. DoNotSave \/ Interrupt \/ Close => SavesNothing
    BY DEF DoNotSave, Interrupt, Close, End, SavesNothing
  <2> QED
    BY <1>2, <2>1, <2>2, <2>3, <2>4 DEF Converse
<1>3. CASE CallModel
  <2>1. AskModel \/ TransformByModel \/ FollowUpByModel \/ Wait => SavesNothing
    BY DEF AskModel, TransformByModel, FollowUpByModel, Wait, Generate, Prompted,
       Generating, SavesNothing
  <2>2. TakeAnswer \/ TakeTransformation \/ TakeFollowUp => SavesNothing
    BY DEF TakeAnswer, TakeTransformation, TakeFollowUp, Take, AfterFirst, AfterTurn,
       SavesNothing
  <2> QED
    BY <1>3, <2>1, <2>2 DEF CallModel
<1>4. CASE GetEvidence
  BY <1>4 DEF GetEvidence, ReadArchive, BeginFetch, FetchPage, TakePage, TakeEvidence,
     AfterFirst, SavesNothing
<1>5. CASE Raise
  BY <1>5 DEF Raise, End, SavesNothing
<1>6. CASE UNCHANGED <<pc, asks, sessions, told>>
  BY <1>6 DEF SavesNothing
<1> QED
  BY <1>1, <1>2, <1>3, <1>4, <1>5, <1>6 DEF Next, vars

(* What a save does, with the invariant of the conversation at hand.       *)
SavesAs(root, id) ==
    /\ pc = "save" /\ pc' = "off" /\ UNCHANGED asks
    /\ request.source \in Sources
    /\ id = SessionId /\ id \in SessionIds /\ id[1] = EvidenceSlug(request.source)
    /\ \E record :
         /\ record \in SavedSessions /\ record.source = request.source
         /\ sessions' = [sessions EXCEPT ![root][id] = record]
    /\ told' = [told EXCEPT ![asks] = <<root, id, request.source>>]

LEMMA SaveSaves ==
    ASSUME AskInv, NEW root \in Roots, Save(root)
    PROVE  SavesAs(root, SessionId)
<1>1. pc = "save" /\ request.source \in Sources /\ WentWell(turns) /\ turns \in Seq(Turns)
  BY DEF Save, AskInv, RequestType, TalkInv, TalkType
<1>2. SessionId \in SessionIds /\ SessionId[1] = EvidenceSlug(request.source)
  BY <1>1, FirstRunIsRun DEF SessionId, SessionIds, EvidenceSlug, Sources
<1> DEFINE record == [source |-> request.source, turns |-> turns]
<1>3. record \in SavedSessions /\ record.source = request.source
  BY <1>1 DEF SavedSessions
<1>4. /\ sessions' = [sessions EXCEPT ![root][SessionId] = record]
      /\ told' = [told EXCEPT ![asks] = <<root, SessionId, request.source>>]
      /\ pc' = "off" /\ UNCHANGED asks
  BY DEF Save, End
<1> HIDE DEF record
<1> QED
  BY <1>1, <1>2, <1>3, <1>4 DEF SavesAs

(* Sources whose evidence has one name: the same file, or two pages. *)
LEMMA OneSlug ==
    ASSUME NEW a \in Sources, NEW b \in Sources, EvidenceSlug(a) = EvidenceSlug(b)
    PROVE  a = b \/ {a, b} \subseteq Urls
  BY SourcesAssumption DEF EvidenceSlug, Sources

LEMMA ToldSaved ==
    ASSUME AskInv, ToldInv, NEW root \in Roots, NEW id, SavesAs(root, id)
    PROVE  ToldInv'
<1>0. /\ sessions \in [Roots -> [SessionIds -> SavedSessions \union {None}]]
      /\ told \in [1 .. MaxAsks -> (Roots \X SessionIds \X Sources) \union {None}]
      /\ asks \in 1 .. MaxAsks /\ MaxAsks \in Nat /\ told[asks] = None
      /\ pc' = "off" /\ asks' = asks /\ id \in SessionIds
      /\ request.source \in Sources /\ id[1] = EvidenceSlug(request.source)
  <2>1. SavedType /\ asks \in 0 .. MaxAsks
    BY DEF AskInv, SavedInv, RequestType
  <2>2. /\ pc = "save" /\ pc' = "off" /\ asks' = asks /\ id \in SessionIds
        /\ request.source \in Sources /\ id[1] = EvidenceSlug(request.source)
    BY DEF SavesAs
  <2>3. asks > 0 /\ \A n \in 1 .. MaxAsks : told[n] # None => n < asks
    BY <2>2 DEF ToldInv
  <2>4. asks \in 1 .. MaxAsks /\ MaxAsks \in Nat /\ told[asks] = None
    BY <2>1, <2>3, MaxAsksAssumption
  <2> QED
    BY <2>1, <2>2, <2>4 DEF SavedType
<1> PICK record \in SavedSessions :
      /\ record.source = request.source
      /\ sessions' = [sessions EXCEPT ![root][id] = record]
  BY DEF SavesAs
<1> DEFINE entry == <<root, id, request.source>>
<1>1. /\ told' = [told EXCEPT ![asks] = entry] /\ entry # None
      /\ entry[1] = root /\ entry[2] = id /\ entry[3] = request.source
  BY <1>0, NoneIsNoEntry DEF SavesAs
<1>2. /\ told'[asks] = entry
      /\ \A n \in 1 .. MaxAsks : n # asks => told'[n] = told[n]
  BY <1>0, <1>1
<1>3. /\ sessions'[root][id] = record
      /\ \A r \in Roots, i \in SessionIds :
           <<r, i>> # <<root, id>> => sessions'[r][i] = sessions[r][i]
  BY <1>0
<1>4. record # None
  BY NoneIsNoEntry
<1> HIDE DEF entry
<1>5. \A n \in 1 .. MaxAsks : told[n] # None =>
        /\ n < asks /\ told'[n] = told[n]
        /\ told[n] \in Roots \X SessionIds \X Sources
        /\ told[n][2][1] = EvidenceSlug(told[n][3])
  BY <1>0, <1>2 DEF ToldInv, SavesAs
<1>6. ASSUME NEW n \in 1 .. MaxAsks, told'[n] # None
      PROVE  /\ n <= asks
             /\ told'[n][2][1] = EvidenceSlug(told'[n][3])
  <2>1. CASE n = asks
    BY <1>0, <1>1, <1>2, <2>1
  <2>2. CASE n # asks
    <3>1. told[n] # None /\ told'[n] = told[n]
      BY <1>2, <1>6, <2>2
    <3> QED
      BY <1>0, <1>5, <3>1
  <2> QED
    BY <2>1, <2>2
<1>7. ASSUME NEW r \in Roots, NEW i \in SessionIds, sessions'[r][i] # None
      PROVE  \E n \in 1 .. MaxAsks : SavedAs(n, <<r, i>>)'
  <2>1. CASE <<r, i>> = <<root, id>>
    BY <1>0, <1>1, <1>2, <2>1 DEF SavedAs
  <2>2. CASE <<r, i>> # <<root, id>>
    <3>1. PICK n \in 1 .. MaxAsks : SavedAs(n, <<r, i>>)
      BY <1>3, <1>7, <2>2 DEF ToldInv
    <3>2. told[n] # None /\ told'[n] = told[n]
      BY <1>5, <3>1 DEF SavedAs
    <3> QED
      BY <3>1, <3>2 DEF SavedAs
  <2> QED
    BY <2>1, <2>2
<1>8. ASSUME NEW n \in 1 .. MaxAsks, told'[n] # None
      PROVE  /\ Listed(n)' # None
             /\ \/ Listed(n)'.source = told'[n][3]
                \/ /\ {Listed(n)'.source, told'[n][3]} \subseteq Urls
                   /\ \E m \in n + 1 .. asks' : ReplacedBy(n, m)'
  <2>1. CASE n = asks
    BY <1>0, <1>1, <1>2, <1>3, <1>4, <2>1 DEF Listed
  <2>2. CASE n # asks
    <3>1. /\ told[n] # None /\ told'[n] = told[n] /\ n < asks
          /\ told[n][1] \in Roots /\ told[n][2] \in SessionIds /\ told[n][3] \in Sources
      BY <1>2, <1>5, <1>8, <2>2
    <3>2. CASE Key(n) = <<root, id>>
      <4>1. Listed(n)' = record
        BY <1>3, <3>1, <3>2 DEF Listed, Key
      <4>2. EvidenceSlug(told[n][3]) = EvidenceSlug(request.source)
        BY <1>0, <1>5, <3>1, <3>2 DEF Key
      <4>3. \/ told[n][3] = request.source
            \/ {told[n][3], request.source} \subseteq Urls
        BY <1>0, <3>1, <4>2, OneSlug
      <4>4. PICK m \in n + 1 .. asks' : m = asks
        BY <1>0, <3>1
      <4>5. /\ told'[m] = entry /\ entry # None
            /\ <<entry[1], entry[2]>> = Key(n)' /\ entry[3] = Listed(n)'.source
        BY <1>1, <1>2, <3>1, <3>2, <4>1, <4>4 DEF Key
      <4>6. ReplacedBy(n, m)'
        BY <4>5 DEF ReplacedBy, SavedAs
      <4> QED
        BY <1>4, <3>1, <4>1, <4>3, <4>6
    <3>3. CASE Key(n) # <<root, id>>
      <4>1. Listed(n)' = Listed(n)
        BY <1>3, <3>1, <3>3 DEF Listed, Key
      <4>2. ASSUME NEW m \in n + 1 .. asks, ReplacedBy(n, m)
            PROVE  ReplacedBy(n, m)' /\ m \in n + 1 .. asks'
        <5>1. m \in 1 .. MaxAsks /\ told[m] # None
          BY <1>0, <4>2 DEF ReplacedBy, SavedAs
        <5>2. told'[m] = told[m]
          BY <1>5, <5>1
        <5> QED
          BY <1>0, <3>1, <4>1, <4>2, <5>2 DEF ReplacedBy, SavedAs, Key
      <4> QED
        BY <3>1, <4>1, <4>2 DEF ToldInv, SourcesStayUnlessReplaced
    <3> QED
      BY <3>2, <3>3
  <2> QED
    BY <2>1, <2>2
<1>9. SourcesStayUnlessReplaced'
  BY <1>8 DEF SourcesStayUnlessReplaced
<1> QED
  BY <1>0, <1>6, <1>7, <1>9 DEF ToldInv

LEMMA ToldStarts ==
    ASSUME AskInv, ToldInv, StartsAsk
    PROVE  ToldInv'
<1>0. /\ asks \in Nat /\ asks' = asks + 1 /\ MaxAsks \in Nat
      /\ sessions' = sessions /\ told' = told
  BY MaxAsksAssumption DEF AskInv, RequestType, StartsAsk
<1>1. \A n \in 1 .. MaxAsks : told[n] # None => n <= asks /\ n < asks'
  BY <1>0 DEF ToldInv
<1>2. SourcesStayUnlessReplaced'
  <2> SUFFICES ASSUME NEW n \in 1 .. MaxAsks, told[n] # None
               PROVE  /\ Listed(n) # None
                      /\ \/ Listed(n).source = told[n][3]
                         \/ /\ {Listed(n).source, told[n][3]} \subseteq Urls
                            /\ \E m \in n + 1 .. asks + 1 : ReplacedBy(n, m)
    BY <1>0 DEF SourcesStayUnlessReplaced, Listed, ReplacedBy, SavedAs, Key
  <2>1. \A m \in n + 1 .. asks : m \in n + 1 .. asks + 1
    BY <1>0
  <2> QED
    BY <2>1 DEF ToldInv, SourcesStayUnlessReplaced
<1>3. \A r \in Roots, i \in SessionIds :
        sessions'[r][i] # None => \E n \in 1 .. MaxAsks : SavedAs(n, <<r, i>>)'
  BY <1>0 DEF ToldInv, SavedAs
<1> QED
  BY <1>0, <1>1, <1>2, <1>3 DEF ToldInv

LEMMA ToldStays ==
    ASSUME ToldInv, SavesNothing
    PROVE  ToldInv'
<1>1. asks' = asks /\ sessions' = sessions /\ told' = told /\ (pc = "off" => pc' = "off")
  BY DEF SavesNothing
<1>2. SourcesStayUnlessReplaced'
  BY <1>1 DEF ToldInv, SourcesStayUnlessReplaced, Listed, ReplacedBy, SavedAs, Key
<1>3. \A r \in Roots, i \in SessionIds :
        sessions'[r][i] # None => \E n \in 1 .. MaxAsks : SavedAs(n, <<r, i>>)'
  BY <1>1 DEF ToldInv, SavedAs
<1> QED
  BY <1>1, <1>2, <1>3 DEF ToldInv

LEMMA ToldInvariance == Spec => []ToldInv
<1>1. Init => ToldInv
  <2> SUFFICES ASSUME Init PROVE ToldInv
    OBVIOUS
  <2>1. SourcesStayUnlessReplaced
    BY DEF Init, SourcesStayUnlessReplaced
  <2> QED
    BY <2>1 DEF Init, ToldInv
<1>2. AllInv /\ ToldInv /\ [Next]_vars => ToldInv'
  <2> SUFFICES ASSUME AllInv, ToldInv, [Next]_vars PROVE ToldInv'
    OBVIOUS
  <2>1. AskInv
    BY DEF AllInv
  <2>2. ASSUME NEW root \in Roots, Save(root) PROVE ToldInv'
    BY <2>1, <2>2, SaveSaves, ToldSaved
  <2> QED
    BY <2>1, <2>2, StepsOfSaving, ToldStarts, ToldStays
<1> QED
  BY <1>1, <1>2, Invariance, PTL DEF Spec

(* A session that the user was told is saved stays listed, and about its   *)
(* source, but for one case: a page's session is replaced by that of a     *)
(* later ask about another page.                                           *)
THEOREM OnlyPagesAreReplaced == Spec => []SourcesStayUnlessReplaced
<1>1. ToldInv => SourcesStayUnlessReplaced
  BY DEF ToldInv
<1> QED
  BY <1>1, ToldInvariance, PTL

-----------------------------------------------------------------------------
(* The asks use the store as SessionCatalog describes it.  A session has a *)
(* name under a state root; the record listed of it is that of the newest  *)
(* ask which was told this name.                                           *)
Keys == Roots \X SessionIds

Told(key) == {n \in 1 .. MaxAsks : SavedAs(n, key)}

Newest(S) == CHOOSE n \in S : \A m \in S : m <= n

list == [key \in Keys |->
           IF Told(key) = {} THEN None
           ELSE [ver |-> Newest(Told(key)), status |-> "resumable"]]

Catalog == INSTANCE SessionCatalog WITH
             Sessions <- Keys, MaxSaves <- MaxAsks, Absent <- None,
             catalog <- list, issued <- asks

LEMMA IsNewest ==
    ASSUME NEW S \in SUBSET Nat, NEW n \in S, \A m \in S : m <= n
    PROVE  Newest(S) = n
<1>1. \A k \in S : (\A m \in S : m <= k) => k = n
  OBVIOUS
<1> QED
  BY <1>1 DEF Newest

LEMMA SavePublishes ==
    ASSUME AskInv, ToldInv, NEW root \in Roots, NEW id, SavesAs(root, id)
    PROVE  Catalog!Next
<1> DEFINE entry == <<root, id, request.source>>
           key == <<root, id>>
<1>1. /\ told \in [1 .. MaxAsks -> (Roots \X SessionIds \X Sources) \union {None}]
      /\ asks \in 1 .. MaxAsks /\ MaxAsks \in Nat
      /\ UNCHANGED asks /\ key \in Keys
      /\ told' = [told EXCEPT ![asks] = entry]
      /\ entry # None /\ <<entry[1], entry[2]>> = key
  BY MaxAsksAssumption, NoneIsNoEntry DEF AskInv, RequestType, SavedInv, SavedType, ToldInv,
     SavesAs, Keys
<1>2. \A n \in 1 .. MaxAsks : told[n] # None => n < asks
  BY <1>1 DEF ToldInv, SavesAs
<1> HIDE DEF entry, key
<1>3. told'[asks] = entry /\ \A n \in 1 .. MaxAsks : n # asks => told'[n] = told[n]
  BY <1>1
<1>4. /\ SavedAs(asks, key)'
      /\ \A n \in 1 .. MaxAsks : SavedAs(n, key)' => n <= asks
  BY <1>1, <1>2, <1>3 DEF SavedAs
<1>5. asks \in Told(key)' /\ Told(key)' \in SUBSET Nat /\ \A n \in Told(key)' : n <= asks
  BY <1>1, <1>4 DEF Told
<1>6. Newest(Told(key)') = asks /\ Told(key)' # {}
  BY <1>5, IsNewest
<1>7. ASSUME NEW other \in Keys, other # key
      PROVE  Told(other)' = Told(other)
  <2>1. ASSUME NEW n \in 1 .. MaxAsks
        PROVE  SavedAs(n, other)' <=> SavedAs(n, other)
    BY <1>1, <1>2, <1>3, <1>7 DEF SavedAs
  <2> QED
    BY <2>1 DEF Told
<1>8. list' = [list EXCEPT ![key] = [ver |-> asks, status |-> "resumable"]]
  BY <1>1, <1>6, <1>7 DEF list
<1>9. Catalog!Publish(key)
  BY <1>1, <1>8 DEF Catalog!Publish
<1> QED
  BY <1>1, <1>9 DEF Catalog!Next

LEMMA ListStays == ASSUME UNCHANGED told PROVE UNCHANGED list
<1>1. \A key \in Keys : Told(key)' = Told(key)
  BY DEF Told, SavedAs
<1> QED
  BY <1>1 DEF list

(* What the asks do to the list of sessions is what SessionCatalog allows: *)
(* each begins a record, which it makes the session's at one instant or    *)
(* not at all; a refused, interrupted or failed ask leaves the list alone. *)
THEOREM AsksImplementCatalog == Spec => Catalog!Spec
<1>1. Init => Catalog!Init
  <2> SUFFICES ASSUME Init PROVE Catalog!Init
    OBVIOUS
  <2>1. \A key \in Keys : Told(key) = {}
    BY DEF Init, Told, SavedAs
  <2> QED
    BY <2>1 DEF Init, list, Catalog!Init
<1>2. ASSUME AllInv, ToldInv, [Next]_vars
      PROVE  [Catalog!Next]_<<list, asks>>
  <2>1. ASSUME NEW root \in Roots, Save(root) PROVE Catalog!Next
    BY <1>2, <2>1, SaveSaves, SavePublishes DEF AllInv
  <2>2. CASE StartsAsk
    BY <2>2, ListStays DEF StartsAsk, Catalog!Next, Catalog!Issue
  <2>3. CASE SavesNothing
    BY <2>3, ListStays DEF SavesNothing
  <2> QED
    BY <1>2, <2>1, <2>2, <2>3, StepsOfSaving
<1>3. AllInv /\ ToldInv /\ [Next]_vars => [Catalog!Next]_<<list, asks>>
  BY <1>2
<1> QED
  BY Invariance, ToldInvariance, <1>1, <1>3, PTL DEF Spec, Catalog!Spec

=============================================================================
