---------------------------- MODULE EvidenceFetch ----------------------------
(***************************************************************************)
(* How evidence comes in from outside: the fetch of a page behind three    *)
(* layers of checks (the network gate that a channel builds, the product   *)
(* gateway, url_fetch), and the command `external-readonly fetch`, which   *)
(* keeps what it fetched in an evidence archive for a later ask.           *)
(*                                                                         *)
(* Data.  A request is the set of controls that are in order.  Of a page   *)
(* only matters whether governed facts can be made of it; of an archive,   *)
(* what its governed_summary_facts say.  Sanitizing is left out.           *)
(***************************************************************************)
CONSTANTS
    Files,      \* evidence archives, by path
    Commands,   \* runs of `external-readonly fetch`, one request each
    Console,    \* the guided ask, which fetches for itself
    None

ASSUME ConsoleAssumption == Console \notin Commands
ASSUME NoneAssumption == None \notin Files

VARIABLES
    job,        \* [Commands and Console -> the request it works on]
    archives    \* [Files -> what is in the archive]

fetchVars == <<job, archives>>

(* What a request has to bring along.  The first is the sentence by which  *)
(* the user agrees, the last an external https URL within the limits.      *)
Controls == {"confirmation", "allow_runtime_fetch", "use_live_transport",
             "operator_approved", "approval_ref", "runtime_fetch_approval_ref",
             "network_gate_open", "controlled_output_ref", "audit_ref",
             "sanitized_evidence_ref", "fetchable_url"}

(* Bound: of a command's controls at most one is missing.                  *)
Grants == {Controls} \union {Controls \ {c} : c \in Controls}

(* Governed facts.  Unreadable: absent, or a file that is being written.   *)
Facts == {"ready", "blocked", "empty"}
Contents == Facts \union {"absent", "torn"}

(* Evidence: what there is, and (history) whether it was fetched by a      *)
(* request that had all controls.                                          *)
Archives == [facts : Contents, consented : BOOLEAN]
NoArchive == [facts |-> "absent", consented |-> FALSE]
TornArchive == [facts |-> "torn", consented |-> FALSE]

(* The result of a fetch, as it is reported: runtime_fetch_performed,      *)
(* external_network_call_performed.                                        *)
Outcomes == [facts : Facts, performed : BOOLEAN, network : BOOLEAN,
             consented : BOOLEAN]

Refused == [facts |-> "empty", performed |-> FALSE, network |-> FALSE,
            consented |-> FALSE]

Jobs == [at : {"off", "calling", "fetched", "writing", "gone"},
         granted : SUBSET Controls, file : Files \union {None},
         overwrite : BOOLEAN, reached : BOOLEAN, outcome : Outcomes]

NoJob == [at |-> "off", granted |-> {}, file |-> None, overwrite |-> FALSE,
          reached |-> FALSE, outcome |-> Refused]

Earlier == {NoArchive, TornArchive, [facts |-> "ready", consented |-> TRUE],
            [facts |-> "empty", consented |-> FALSE],
            [facts |-> "blocked", consented |-> FALSE]}

(* The archives are those that earlier commands left.                      *)
FetchInit ==
    /\ job = [a \in Commands \union {Console} |-> NoJob]
    /\ archives \in [Files -> Earlier]

-----------------------------------------------------------------------------
(* The layers of a fetch.                                                  *)

(* The network gate, as the ask entry and the fetch command build it.      *)
OperatorApproved(granted) ==
    {"operator_approved", "approval_ref", "runtime_fetch_approval_ref"} \subseteq granted

OutputControlled(granted) ==
    {"controlled_output_ref", "audit_ref", "sanitized_evidence_ref"} \subseteq granted

GatePassed(granted) ==
    /\ "network_gate_open" \in granted
    /\ OperatorApproved(granted)
    /\ OutputControlled(granted)

(* Mutant: the gateway leaves it to the gate to say what is allowed.       *)
GatewayTrustsGate(granted) == "use_live_transport" \in granted

(* The preflight of the product gateway.                                   *)
GatewayAllows(granted) ==
    {"allow_runtime_fetch", "use_live_transport", "operator_approved",
     "approval_ref", "runtime_fetch_approval_ref"} \subseteq granted

(* Gate and request, as url_fetch looks at them.                           *)
UrlFetchAllows(granted) == GatePassed(granted) /\ "fetchable_url" \in granted

(* What is left to do once there is a result: to archive it.               *)
Returned(j, outcome) ==
    [NoJob EXCEPT !.at = "fetched", !.file = j.file, !.overwrite = j.overwrite,
                  !.outcome = outcome]

(* execute_external_readonly_fetch_gateway_request up to the transport.    *)
Called(j) ==
    IF GatewayAllows(j.granted) /\ UrlFetchAllows(j.granted)
    THEN [j EXCEPT !.at = "calling"]
    ELSE Returned(j, Refused)

(* Mutant: no response, so nothing was performed.                         *)
RaisedAsRefused == Refused

(* The transport raises: a fetch was performed, a network call not.        *)
Raised == [Refused EXCEPT !.performed = TRUE]

(* A response that the review or the sanitizer rejects, or an error of     *)
(* HTTP or of the connection.                                              *)
Rejected == [Raised EXCEPT !.network = TRUE]

(* A page; no facts if they exceed what a governed fact may be.            *)
Page(j, facts) ==
    [Rejected EXCEPT !.facts = facts,
                     !.consented = facts = "ready" /\ j.granted = Controls]

(* The host may have been reached when the transport fails, or may not.    *)
Respond(a, reached) ==
    /\ job[a].at = "calling"
    /\ \E outcome \in {Raised, Rejected}
            \union {Page(job[a], f) : f \in IF reached THEN {"ready", "blocked"} ELSE {}} :
         job' = [job EXCEPT ![a].at = "fetched", ![a].reached = reached,
                            ![a].outcome = outcome]
    /\ UNCHANGED archives

-----------------------------------------------------------------------------
(* `cognition external-readonly fetch`.                                    *)

Request(c, file, overwrite, granted) ==
    [NoJob EXCEPT !.file = file, !.overwrite = overwrite, !.granted = granted]

(* evidence_output_exists                                                  *)
Taken(j) == j.file # None /\ archives[j.file].facts # "absent" /\ ~j.overwrite

Ended == [NoJob EXCEPT !.at = "gone"]

Begin(c, j) ==
    /\ job[c].at = "off"
    /\ job' = [job EXCEPT ![c] = j]
    /\ UNCHANGED archives

(* Without the user's sentence nothing is fetched, but the refusal is      *)
(* archived.                                                               *)
FetchUnconfirmed(c, j) ==
    /\ "confirmation" \notin j.granted
    /\ Begin(c, Returned(j, Refused))

FetchWithoutOutput(c, j) ==
    /\ "confirmation" \in j.granted
    /\ Taken(j)
    /\ Begin(c, Ended)

Fetch(c, j) ==
    /\ "confirmation" \in j.granted
    /\ ~Taken(j)
    /\ Begin(c, Called(j))

(* The output is shown without being archived: none was wanted, or there   *)
(* is one by now.                                                          *)
ShowOnly(c) ==
    /\ job[c].at = "fetched"
    /\ job[c].file = None \/ Taken(job[c])
    /\ job' = [job EXCEPT ![c] = Ended]
    /\ UNCHANGED archives

(* write_text truncates the file before it writes.                         *)
OpenArchive(c) ==
    /\ job[c].at = "fetched"
    /\ job[c].file # None /\ ~Taken(job[c])
    /\ archives' = [archives EXCEPT ![job[c].file] = TornArchive]
    /\ job' = [job EXCEPT ![c].at = "writing"]

WriteArchive(c) ==
    /\ job[c].at = "writing"
    /\ archives' = [archives EXCEPT ![job[c].file] =
                       [facts |-> job[c].outcome.facts,
                        consented |-> job[c].outcome.consented]]
    /\ job' = [job EXCEPT ![c] = Ended]

(* The command is interrupted, or ends by an error: of a request that is   *)
(* not well-formed, or of the write.                                       *)
Abort(c) ==
    /\ job[c].at \in {"calling", "fetched", "writing"}
    /\ job' = [job EXCEPT ![c] = Ended]
    /\ UNCHANGED archives

FetchCommand(c) ==
    \/ /\ job[c].at = "off"
       /\ \E file \in Files \union {None}, overwrite \in BOOLEAN, granted \in Grants :
            LET j == Request(c, file, overwrite, granted) IN
            FetchUnconfirmed(c, j) \/ FetchWithoutOutput(c, j) \/ Fetch(c, j)
    \/ \E reached \in BOOLEAN : Respond(c, reached)
    \/ ShowOnly(c)
    \/ OpenArchive(c)
    \/ WriteArchive(c)
    \/ Abort(c)

-----------------------------------------------------------------------------
FetchTypeOK ==
    /\ job \in [Commands \union {Console} -> Jobs]
    /\ archives \in [Files -> Archives]

(* What the three layers and the channel's sentence are for: no host is    *)
(* reached for a request that lacks one of the controls.                   *)
ReachedWithAllControls ==
    \A a \in Commands \union {Console} : job[a].reached => job[a].granted = Controls

(* The result of a fetch that has reached the host says that a fetch was   *)
(* performed, in whatever way the response failed afterwards; and none     *)
(* claims a network call without a fetch.                                  *)
FetchesAreReported ==
    \A a \in Commands \union {Console} :
        job[a].reached \/ job[a].outcome.network => job[a].outcome.performed
=============================================================================
