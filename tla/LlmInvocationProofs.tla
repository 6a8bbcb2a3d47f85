------------------------ MODULE LlmInvocationProofs ------------------------
(* Proofs about LlmInvocation.                                             *)
EXTENDS LlmInvocation, SequenceTheorems, TLAPS

(* What an invocation knows at each of its steps: it calls only what       *)
(* governance allowed, the first completion with nothing heard, the repair *)
(* with one poor output heard.                                             *)
LlmPhases ==
    /\ llm \in {"route", "call"} =>
           /\ request.decision = "allowed"
           /\ completions = 0 /\ heard = <<>>
    /\ llm = "retry" =>
           /\ request.decision = "allowed"
           /\ completions = 1 /\ Len(heard) = 1
           /\ RepairNeeded(heard[1])

LlmInv == LlmTypeOK /\ LlmPhases /\ ResultIsTruthful /\ FineOutputIsKept

LEMMA NotCalledResults ==
    \A why \in Failures, allowed \in BOOLEAN : NotCalled(why, allowed) \in Results
  BY DEF NotCalled, Unanswered, Results, Texts, Failures

LEMMA CalledResults ==
    \A why \in Failures : /\ Called(why) \in Results
                         /\ \A text \in Texts : [Called(why) EXCEPT !.text = text] \in Results
  BY DEF Called, Results, Texts

LEMMA LlmInvInit == LlmInit => LlmInv
<1> SUFFICES ASSUME LlmInit PROVE LlmInv
  OBVIOUS
<1>1. LlmTypeOK
  BY DEF LlmInit, LlmTypeOK, NoRequest, Requests, Unanswered, Results, Texts, Failures
<1>2. LlmPhases /\ ResultIsTruthful /\ FineOutputIsKept
  BY DEF LlmInit, LlmPhases, ResultIsTruthful, FineOutputIsKept, NoRequest, Unanswered
<1> QED
  BY <1>1, <1>2 DEF LlmInv

(* Nothing is said of a request that was refused, or failed before a call. *)
LEMMA NotCalledIsTruthful ==
    ASSUME NEW why \in Failures \ {"none"}, NEW allowed \in BOOLEAN,
           Fail(NotCalled(why, allowed)),
           LlmTypeOK', completions' = 0,
           allowed => request'.decision = "allowed"
    PROVE  LlmInv'
<1>1. /\ result'.performed = FALSE /\ result'.attempted = FALSE
      /\ result'.allowed = allowed /\ result'.failure = why
      /\ llm' = "idle"
  BY DEF Fail, NotCalled, Unanswered
<1> QED
  BY <1>1 DEF LlmInv, LlmPhases, ResultIsTruthful, FineOutputIsKept

LEMMA InvokeKeepsLlmInv ==
    ASSUME LlmInv, NEW r \in Requests, NEW on \in BOOLEAN, Invoke(r, on)
    PROVE  LlmInv'
<1> DEFINE refusal == Refusal(r, on)
           governed == r.decision = "allowed" /\ r.routed
<1>1. refusal \in Failures /\ governed \in BOOLEAN
  BY DEF Refusal, Failures
<1>2. request' = r /\ completions' = 0 /\ heard' = <<>>
  BY DEF Invoke
<1>3. CASE refusal = "none"
  <2>1. llm' = "route" /\ result' = Unanswered
    BY <1>3 DEF Invoke
  <2>2. r.decision = "allowed"
    BY <1>3 DEF Refusal, Requests
  <2>3. LlmTypeOK'
    BY <1>2, <2>1 DEF LlmTypeOK, Unanswered, Results, Texts, Failures
  <2> QED
    BY <1>2, <2>1, <2>2, <2>3 DEF LlmInv, LlmPhases, ResultIsTruthful, FineOutputIsKept
<1>4. CASE refusal # "none"
  <2>1. Fail(NotCalled(refusal, governed))
    BY <1>4 DEF Invoke
  <2> HIDE DEF refusal, governed
  <2>2. LlmTypeOK'
    BY <1>1, <1>2, <2>1, NotCalledResults DEF LlmInv, LlmTypeOK, Fail
  <2>3. governed => request'.decision = "allowed"
    BY <1>2 DEF governed
  <2> QED
    BY <1>1, <1>2, <1>4, <2>1, <2>2, <2>3, NotCalledIsTruthful
<1> QED
  BY <1>3, <1>4

LEMMA BuildRouteKeepsLlmInv == ASSUME LlmInv, BuildRoute PROVE LlmInv'
<1>1. /\ llm = "route" /\ request.decision = "allowed" /\ completions = 0
      /\ heard = <<>>
      /\ UNCHANGED <<request, completions, heard>>
  BY DEF BuildRoute, LlmInv, LlmPhases
<1>2. CASE llm' = "call" /\ UNCHANGED result
  BY <1>1, <1>2 DEF LlmInv, LlmTypeOK, LlmPhases, ResultIsTruthful, FineOutputIsKept
<1>3. ASSUME NEW why \in {"dependency_failure", "route_construction_failure"},
             Fail(NotCalled(why, TRUE))
      PROVE  LlmInv'
  <2>1. LlmTypeOK'
    BY <1>1, <1>3, NotCalledResults DEF LlmInv, LlmTypeOK, Fail, Failures
  <2> QED
    BY <1>1, <1>3, <2>1, NotCalledIsTruthful DEF Failures
<1> QED
  BY <1>2, <1>3 DEF BuildRoute

LEMMA ClientMissingKeepsLlmInv == ASSUME LlmInv, ClientMissing PROVE LlmInv'
<1>1. /\ request.decision = "allowed" /\ completions = 0
      /\ UNCHANGED <<request, completions, heard>>
      /\ Fail(NotCalled("dependency_failure", TRUE))
  BY DEF ClientMissing, LlmInv, LlmPhases
<1>2. LlmTypeOK'
  BY <1>1, NotCalledResults DEF LlmInv, LlmTypeOK, Fail, Failures
<1> QED
  BY <1>1, <1>2, NotCalledIsTruthful DEF Failures

LEMMA CallFailsKeepsLlmInv == ASSUME LlmInv, CallFails PROVE LlmInv'
<1>1. PICK why \in {"timeout_failure", "live_call_failure"} : Fail(Called(why))
  BY DEF CallFails
<1>2. /\ request.decision = "allowed" /\ completions' = 1 /\ heard = <<>>
      /\ UNCHANGED <<request, heard>>
  BY DEF CallFails, LlmInv, LlmPhases
<1>3. LlmTypeOK'
  BY <1>1, <1>2, CalledResults DEF LlmInv, LlmTypeOK, Fail, Failures
<1>4. /\ llm' = "idle"
      /\ result'.performed /\ result'.attempted /\ result'.allowed
      /\ result'.failure # "none"
  BY <1>1 DEF Fail, Called
<1> QED
  BY <1>2, <1>3, <1>4 DEF LlmInv, LlmPhases, ResultIsTruthful, FineOutputIsKept

(* What a success that has made its calls has to show. *)
LEMMA SuccessIsTruthful ==
    ASSUME LlmTypeOK', NEW output \in Texts, Succeed(output),
           completions' > 0, request' = request, request.decision = "allowed",
           Len(heard') > 0,
           \A i \in 1 .. Len(heard') :
               /\ heard'[i] = "fine" => output = "fine"
               /\ Shown(output) = "stock" =>
                      heard'[i] = "empty" \/ RepairNeeded(heard'[i])
    PROVE  LlmInv'
<1>1. /\ llm' = "idle" /\ result'.failure = "none" /\ result'.text = Shown(output)
      /\ result'.performed /\ result'.attempted /\ result'.allowed
  BY DEF Succeed, Called
<1>2. ResultIsTruthful'
  BY <1>1 DEF ResultIsTruthful
<1>3. \A other : RepairNeeded(other)' <=> RepairNeeded(other)
  BY DEF RepairNeeded
<1>4. FineOutputIsKept'
  BY <1>1, <1>3 DEF FineOutputIsKept, Shown, RepairNeeded
<1> QED
  BY <1>1, <1>2, <1>4 DEF LlmInv, LlmPhases

LEMMA SucceedKeepsType ==
    ASSUME LlmTypeOK, NEW output \in Texts, Succeed(output), request' = request,
           completions' \in 0 .. 2, heard' \in Seq(Outputs), Len(heard') <= completions'
    PROVE  LlmTypeOK'
<1>1. Shown(output) \in Texts
  BY DEF Shown, Texts
<1>2. result' \in Results
  BY <1>1, CalledResults DEF Succeed, Failures
<1> QED
  BY <1>2 DEF LlmTypeOK, Succeed

LEMMA CallAnswersKeepsLlmInv == ASSUME LlmInv, CallAnswers PROVE LlmInv'
<1>1. PICK output \in Outputs :
          /\ heard' = <<output>>
          /\ IF RepairNeeded(output)
             THEN llm' = "retry" /\ UNCHANGED result
             ELSE Succeed(output)
  BY DEF CallAnswers
<1>2. /\ request.decision = "allowed" /\ completions' = 1 /\ UNCHANGED request
  BY DEF CallAnswers, LlmInv, LlmPhases
<1>3. heard' \in Seq(Outputs) /\ Len(heard') = 1 /\ heard'[1] = output
  BY <1>1
<1>4. output \in Texts
  BY DEF Texts
<1>5. CASE RepairNeeded(output)
  <2>1. LlmTypeOK'
    BY <1>1, <1>2, <1>3, <1>5 DEF LlmInv, LlmTypeOK
  <2>2. RepairNeeded(heard[1])'
    BY <1>2, <1>3, <1>5 DEF RepairNeeded
  <2> QED
    BY <1>1, <1>2, <1>3, <1>5, <2>1, <2>2
    DEF LlmInv, LlmPhases, ResultIsTruthful, FineOutputIsKept
<1>6. CASE ~RepairNeeded(output)
  <2>1. Succeed(output)
    BY <1>1, <1>6
  <2>2. LlmTypeOK'
    BY <1>2, <1>3, <1>4, <2>1, SucceedKeepsType DEF LlmInv
  <2>3. \A i \in 1 .. Len(heard') : heard'[i] = output
    BY <1>3
  <2>4. Shown(output) # "stock"
    BY <1>6 DEF Shown, RepairNeeded, Outputs
  <2> QED
    BY <1>2, <1>3, <1>4, <2>1, <2>2, <2>3, <2>4, SuccessIsTruthful
<1> QED
  BY <1>5, <1>6

LEMMA Repaired ==
    ASSUME NEW S, NEW s \in Seq(S), Len(s) = 1, NEW e \in S
    PROVE  /\ Append(s, e) \in Seq(S) /\ Len(Append(s, e)) = 2
           /\ Append(s, e)[1] = s[1] /\ Append(s, e)[2] = e
<1>1. Append(s, e) \in Seq(S) /\ Len(Append(s, e)) = Len(s) + 1
  BY AppendProperties
<1>2. 1 \in 1 .. Len(s) /\ Len(s) + 1 = 2
  OBVIOUS
<1>3. Append(s, e)[1] = s[1]
  OBVIOUS
<1>4. Append(s, e)[Len(s) + 1] = e
  BY AppendProperties
<1> QED
  BY <1>1, <1>2, <1>3, <1>4, Zenon

(* The repair: one output was heard, and it was poor. *)
LEMMA RetryFacts ==
    ASSUME LlmInv, llm = "retry"
    PROVE  /\ request.decision = "allowed" /\ completions = 1
           /\ heard \in Seq(Outputs) /\ Len(heard) = 1
           /\ heard[1] \in Outputs /\ heard[1] \in Texts
           /\ RepairNeeded(heard[1]) /\ heard[1] # "fine"
           /\ request.chat
<1>1. /\ request.decision = "allowed" /\ completions = 1
      /\ heard \in Seq(Outputs) /\ Len(heard) = 1
      /\ RepairNeeded(heard[1])
  BY DEF LlmInv, LlmPhases, LlmTypeOK
<1>2. heard[1] \in Outputs
  BY <1>1
<1>3. heard[1] # "fine" /\ request.chat
  BY <1>1 DEF RepairNeeded
<1> QED
  BY <1>1, <1>2, <1>3 DEF Texts

LEMMA RetryFailsKeepsLlmInv == ASSUME LlmInv, RetryFails PROVE LlmInv'
<1>1. PICK output \in {"none", "empty"} :
          heard' = IF output = "none" THEN heard ELSE Append(heard, output)
  BY DEF RetryFails
<1>2. llm = "retry" /\ completions' = completions + 1 /\ UNCHANGED request
      /\ Succeed(heard[1])
  BY DEF RetryFails
<1>3. /\ heard \in Seq(Outputs) /\ Len(heard) = 1
      /\ heard[1] \in Texts /\ RepairNeeded(heard[1]) /\ heard[1] # "fine"
      /\ request.decision = "allowed" /\ completions' = 2
  BY <1>2, RetryFacts
<1>4. CASE output = "none"
  <2>1. heard' = heard
    BY <1>1, <1>4
  <2>2. Len(heard') = 1 /\ heard' \in Seq(Outputs)
    BY <1>3, <2>1
  <2>3. LlmTypeOK'
    <3>1. LlmTypeOK /\ completions' \in 0 .. 2 /\ Len(heard') <= completions'
      BY <1>3, <2>2 DEF LlmInv
    <3> QED
      BY <1>2, <1>3, <2>2, <3>1, SucceedKeepsType
  <2>4. \A i \in 1 .. Len(heard') : heard'[i] # "fine" /\ RepairNeeded(heard'[i])
    <3>1. \A i \in 1 .. Len(heard') : i = 1
      BY <2>2
    <3> QED
      BY <1>3, <2>1, <3>1
  <2> QED
    BY <1>2, <1>3, <2>2, <2>3, <2>4, SuccessIsTruthful
<1>5. CASE output = "empty"
  <2>1. "empty" \in Outputs /\ heard' = Append(heard, "empty")
    BY <1>1, <1>5 DEF Outputs
  <2>2. Len(heard') = 2 /\ heard' \in Seq(Outputs)
    BY <1>3, <2>1, Repaired
  <2>3. heard'[1] = heard[1] /\ heard'[2] = "empty"
    BY <1>3, <2>1, Repaired
  <2>4. LlmTypeOK'
    BY <1>2, <1>3, <2>2, SucceedKeepsType DEF LlmInv
  <2>5. \A i \in 1 .. Len(heard') :
            heard'[i] # "fine" /\ (heard'[i] = "empty" \/ RepairNeeded(heard'[i]))
    BY <1>3, <2>2, <2>3
  <2> QED
    BY <1>2, <1>3, <2>2, <2>4, <2>5, SuccessIsTruthful
<1> QED
  BY <1>4, <1>5

LEMMA RetryAnswersKeepsLlmInv == ASSUME LlmInv, RetryAnswers PROVE LlmInv'
<1>1. PICK output \in Outputs \ {"empty"} :
          /\ heard' = Append(heard, output)
          /\ Succeed(IF RepairNeeded(output) THEN "stock" ELSE output)
  BY DEF RetryAnswers
<1>2. llm = "retry" /\ completions' = completions + 1 /\ UNCHANGED request
  BY DEF RetryAnswers
<1> DEFINE shows == IF RepairNeeded(output) THEN "stock" ELSE output
<1>3. /\ heard \in Seq(Outputs) /\ Len(heard) = 1
      /\ RepairNeeded(heard[1]) /\ heard[1] # "fine"
      /\ request.chat /\ request.decision = "allowed" /\ completions' = 2
  BY <1>2, RetryFacts
<1>4. /\ heard' \in Seq(Outputs) /\ Len(heard') = 2
      /\ heard'[1] = heard[1] /\ heard'[2] = output
  BY <1>1, <1>3, Repaired
<1>5. shows \in Texts
  BY DEF Texts
<1>6. LlmTypeOK'
  <2>1. Len(heard') <= completions' /\ completions' \in 0 .. 2
    BY <1>3, <1>4
  <2> HIDE DEF shows
  <2>2. Succeed(shows)
    BY <1>1 DEF shows
  <2> QED
    BY <1>2, <1>4, <1>5, <2>1, <2>2, SucceedKeepsType DEF LlmInv
<1>7. output = "fine" => shows = "fine"
  BY DEF RepairNeeded
<1>8. Shown(shows) = "stock" => RepairNeeded(output)
  BY DEF Shown, RepairNeeded, Outputs
<1>9. Len(heard') > 0 /\ completions' > 0
  BY <1>3, <1>4
<1> HIDE DEF shows
<1>10. \A i \in 1 .. Len(heard') :
           /\ heard'[i] = "fine" => shows = "fine"
           /\ Shown(shows) = "stock" => RepairNeeded(heard'[i])
  BY <1>3, <1>4, <1>7, <1>8
<1> QED
  BY <1>1, <1>2, <1>3, <1>5, <1>6, <1>9, <1>10, SuccessIsTruthful DEF shows

LEMMA LlmStepKeepsLlmInv == ASSUME LlmInv, LlmStep PROVE LlmInv'
  BY BuildRouteKeepsLlmInv, ClientMissingKeepsLlmInv, CallFailsKeepsLlmInv,
     CallAnswersKeepsLlmInv, RetryFailsKeepsLlmInv, RetryAnswersKeepsLlmInv DEF LlmStep

LEMMA LlmStutterKeepsLlmInv == ASSUME LlmInv, UNCHANGED llmVars PROVE LlmInv'
  BY DEF llmVars, LlmInv, LlmTypeOK, LlmPhases, ResultIsTruthful, FineOutputIsKept,
     RepairNeeded

THEOREM LlmInvariant == LlmSpec => []LlmInv
<1>1. LlmInv /\ [LlmNext]_llmVars => LlmInv'
  BY InvokeKeepsLlmInv, LlmStepKeepsLlmInv, LlmStutterKeepsLlmInv DEF LlmNext
<1> QED
  BY LlmInvInit, <1>1, PTL DEF LlmSpec

(* Every invocation reports exactly the calls it made of the client. *)
THEOREM ResultsAreTruthful == LlmSpec => []ResultIsTruthful
  BY LlmInvariant, PTL DEF LlmInv

(* No repair loses a fine output. *)
THEOREM FineOutputsAreKept == LlmSpec => []FineOutputIsKept
  BY LlmInvariant, PTL DEF LlmInv

=============================================================================
