---------------------------- MODULE RunWorkspace ----------------------------
(***************************************************************************)
(* The directories that operation-flow runs write to, and the chats whose  *)
(* turns write and audit them.  A turn of `cognition chat` runs a plan, a  *)
(* review of references, an explanation of the configuration or an audit   *)
(* of another run's directory; each run creates its directory, works,      *)
(* writes its files, writes the final manifest and cleans up as its policy *)
(* says.  `/status` adds a summary to the directory of the latest plan.    *)
(* The path of a directory is made of the workflow, the chat session id    *)
(* and the number of the turn, so a chat that is started again with its    *)
(* session id meets its old directories.  A chat may end at any instant;   *)
(* two chats with the same session id at the same time are not modelled.   *)
(*                                                                         *)
(* Data.  A file is what an auditor tells apart: torn (opened and still    *)
(* empty) or written, by whom, and whether its contents are fine, cut      *)
(* (JSON longer than the limit, and no JSON any more) or suspect: whole,   *)
(* but with a key or a word that the audit forbids, or longer than the     *)
(* audit reads.  A ref is the path it names.  Who wrote a file or a        *)
(* manifest is recorded for the properties only.                           *)
(***************************************************************************)
EXTENDS Naturals, Sequences

CONSTANTS
    Sessions,   \* the chat session ids
    None,
    Torn,       \* the contents of a file that was opened and not yet written
    Policies,   \* the cleanup policies that the chats are started with
    Tasks,      \* the workflows, audits apart, that the chats run
    Long,       \* the files whose JSON may be longer than the limit
    Marked,     \* the files, the summary apart, that may come out suspect
    MaxTurns,   \* bound: turns of a chat
    MaxRuns     \* bound: runs of all chats together

ASSUME TasksAssumption == Tasks \subseteq {"plan", "review", "explain"}
ASSUME PoliciesAssumption ==    \* "manual" is the default
    /\ "manual" \in Policies
    /\ Policies \subseteq {"manual", "delete_on_success", "delete_always"}
ASSUME LongAssumption == Long \subseteq {"evidence", "result", "summary"}
ASSUME MarkedAssumption == Marked \subseteq {"evidence", "display", "result"}
ASSUME MaxTurnsAssumption == MaxTurns \in Nat \ {0}
ASSUME MaxRunsAssumption == MaxRuns \in Nat

VARIABLES
    disk,       \* [Workspaces -> the run's directory, or None]
    chats,      \* [Sessions -> the chat]
    runs        \* runs begun so far

vars == <<disk, chats, runs>>

Workflows == Tasks \union {"audit"}
Workspaces == Workflows \X Sessions \X (1 .. MaxTurns)

Paths == {"evidence", "display", "result", "summary"}
Json == Paths \ {"display"}

Empty == [subdirs |-> FALSE, manifest |-> None, files |-> [p \in Paths |-> None]]

(* A chat: what it does (pc), its cleanup policy, the turns so far, the    *)
(* work of its turn, and the snapshot of the latest plan.                  *)
NoWork == [workspace |-> None, run |-> 0, target |-> None, seen |-> None,
           verdict |-> None, status |-> None, live |-> FALSE, todo |-> <<>>,
           refs |-> {}, asked |-> FALSE]    \* asked: /status, not a turn

Off == [pc |-> "off", policy |-> "manual", turn |-> 0, work |-> NoWork, plan |-> None]

Init ==
    /\ disk = [w \in Workspaces |-> None]
    /\ chats = [s \in Sessions |-> Off]
    /\ runs = 0

Work(s) == chats[s].work
Directory(s) == disk[Work(s).workspace]

At(s, label) == chats[s].pc = label
GoTo(s, label) == chats' = [chats EXCEPT ![s].pc = label]
GoWith(s, label, work) == chats' = [chats EXCEPT ![s].pc = label, ![s].work = work]

(* The chat goes on to its next turn. *)
Return(s, plan) ==
    chats' = [chats EXCEPT ![s].pc = "idle", ![s].work = NoWork, ![s].plan = plan]

-----------------------------------------------------------------------------
(* The chat.                                                               *)

StartChat(s, policy) ==
    /\ At(s, "off")
    /\ chats' = [chats EXCEPT ![s] = [Off EXCEPT !.pc = "idle", !.policy = policy]]
    /\ UNCHANGED <<disk, runs>>

BeginTurn(s) ==
    /\ At(s, "idle")
    /\ chats[s].turn < MaxTurns
    /\ runs < MaxRuns
    /\ runs' = runs + 1

(* Mutant: the turn is named before it is counted. *)
NextWorkUncounted(s, workflow) ==
    [NoWork EXCEPT !.workspace = <<workflow, s, chats[s].turn>>, !.run = runs + 1]

NextWork(s, workflow) ==
    [NoWork EXCEPT !.workspace = <<workflow, s, chats[s].turn + 1>>,
                   !.run = runs + 1]

(* The preflight refuses the turn: no workspace; the latest plan is this   *)
(* one, with nothing in it.                                                *)
Refused(s, workflow) ==
    /\ BeginTurn(s)
    /\ chats' = [chats EXCEPT ![s].turn = @ + 1,
                              ![s].plan = IF workflow = "plan" THEN None ELSE @]
    /\ UNCHANGED disk

BeginTask(s, workflow) ==
    /\ BeginTurn(s)
    /\ chats' = [chats EXCEPT ![s].turn = @ + 1, ![s].pc = "create",
                              ![s].work = NextWork(s, workflow)]
    /\ UNCHANGED disk

BeginAudit(s, target) ==
    /\ BeginTurn(s)
    /\ chats' = [chats EXCEPT ![s].turn = @ + 1, ![s].pc = "resolve",
                              ![s].work = [NextWork(s, "audit") EXCEPT
                                             !.target = target]]
    /\ UNCHANGED disk

(* The end of the input or /exit; an interrupt, an exception or a kill.    *)
EndChat(s) ==
    /\ ~At(s, "off")
    /\ chats' = [chats EXCEPT ![s] = Off]
    /\ UNCHANGED <<disk, runs>>

-----------------------------------------------------------------------------
(* The audit reads its target before it creates its own directory.         *)

Manifests == [status : {"created", "blocked", "failed", "no_live_boundary", "succeeded"},
              policy : Policies, refs : SUBSET Paths, run : 1 .. MaxRuns]

Readable(manifest) == manifest \notin {None, Torn}

ResolveTarget(s) ==
    LET target == disk[Work(s).target] IN
    /\ At(s, "resolve")
    /\ IF target # None /\ Readable(target.manifest)
       THEN GoWith(s, "inspect", [Work(s) EXCEPT !.seen = target.manifest])
       ELSE GoWith(s, "create", [Work(s) EXCEPT !.verdict = "blocked"])
    /\ UNCHANGED <<disk, runs>>

(* Files that the audit looks for without being told. *)
Standard == {"evidence", "display", "result"}

Audited(target, refs) == refs \union {p \in Standard : target.files[p] # None}

(* The audit finds fault with what is in the file: it is no JSON, it holds *)
(* a forbidden key or word, or it is longer than the audit reads.  A text  *)
(* may be empty.                                                           *)
Alarming(p, file) == IF file = Torn THEN p \in Json ELSE file.contents # "fine"

(* Mutant: a file that no ref names is a finding. *)
PassesIfReferenced(target, refs) ==
    /\ target.subdirs
    /\ "result" \in Audited(target, refs)
    /\ Audited(target, refs) = refs
    /\ \A p \in Audited(target, refs) :
           target.files[p] # None /\ ~Alarming(p, target.files[p])

(* No finding in the files, the structure, the references and the          *)
(* boundaries.  The status in the manifest is not looked at.               *)
Passes(target, refs) ==
    /\ target.subdirs
    /\ "result" \in Audited(target, refs)
    /\ \A p \in Audited(target, refs) :
           target.files[p] # None /\ ~Alarming(p, target.files[p])

Inspect(s) ==
    LET target == disk[Work(s).target] IN
    /\ At(s, "inspect")
    /\ GoWith(s, "create",
              [Work(s) EXCEPT !.verdict =
                 IF target # None /\ Passes(target, Work(s).seen.refs)
                 THEN "passed" ELSE "attention_required"])
    /\ UNCHANGED <<disk, runs>>

-----------------------------------------------------------------------------
(* create_operation_flow_run_workspace: what is there already is kept.     *)

MakeWorkspace(s) ==
    /\ At(s, "create")
    /\ disk' = [disk EXCEPT ![Work(s).workspace] = IF @ = None THEN Empty ELSE @]
    /\ GoTo(s, "subdirs")
    /\ UNCHANGED runs

(* Mutant: a directory that has a manifest is as good as created. *)
MakeSubdirsIfNew(s) ==
    /\ At(s, "subdirs")
    /\ disk' = [disk EXCEPT ![Work(s).workspace].subdirs = TRUE]
    /\ GoTo(s, IF Directory(s).manifest = None THEN "created" ELSE "work")
    /\ UNCHANGED runs

MakeSubdirs(s) ==
    /\ At(s, "subdirs")
    /\ disk' = [disk EXCEPT ![Work(s).workspace].subdirs = TRUE]
    /\ GoTo(s, "created")
    /\ UNCHANGED runs

(* _write_manifest: the file is opened, and empty, before it is written.   *)
OpenManifest(s, from, to) ==
    /\ At(s, from)
    /\ disk' = [disk EXCEPT ![Work(s).workspace].manifest = Torn]
    /\ GoTo(s, to)
    /\ UNCHANGED runs

WriteManifest(s, status) ==
    disk' = [disk EXCEPT ![Work(s).workspace].manifest =
               [status |-> status, policy |-> chats[s].policy,
                refs |-> Work(s).refs, run |-> Work(s).run]]

OpenCreated(s) == OpenManifest(s, "created", "creating")

WriteCreated(s) ==
    /\ At(s, "creating")
    /\ WriteManifest(s, "created")
    /\ GoTo(s, "work")
    /\ UNCHANGED runs

-----------------------------------------------------------------------------
(* The work of a run gives its status, whether it was live, and what there *)
(* is to write before its display and its result: the reference context    *)
(* (its excerpts, texts that are written like the display, are left out).  *)
Referenced == {<<>>, <<"evidence">>}    \* whether references were asked for

PlanOutcomes ==
    ({"blocked"} \X BOOLEAN \X {<<"evidence">>})
      \union ({"no_live_boundary"} \X {FALSE} \X Referenced)
      \union ({"failed", "succeeded"} \X {TRUE} \X Referenced)

(* A review cannot do without references.  One whose model fails falls     *)
(* back to the local rules and succeeds.                                   *)
ReviewOutcomes == {"blocked", "succeeded"} \X BOOLEAN \X {<<"evidence">>}

ExplainOutcomes == {"succeeded"} \X {FALSE} \X {<<"evidence">>}

(* An audit succeeds whatever it found. *)
AuditOutcomes == {"succeeded"} \X {FALSE} \X {<<"evidence">>}

Outcomes(workflow) ==
    CASE workflow = "plan" -> PlanOutcomes
      [] workflow = "review" -> ReviewOutcomes
      [] workflow = "explain" -> ExplainOutcomes
      [] workflow = "audit" -> AuditOutcomes

Do(s) ==
    /\ At(s, "work")
    /\ \E outcome \in Outcomes(Work(s).workspace[1]) :
         GoWith(s, "write",
                [Work(s) EXCEPT !.status = outcome[1], !.live = outcome[2],
                                !.todo = outcome[3] \o <<"display", "result">>])
    /\ UNCHANGED <<disk, runs>>

(* write_operation_flow_run_workspace_text: make the directories that are  *)
(* missing, open and empty the file, write it, attach its ref.             *)
OpenFile(s) ==
    /\ At(s, "write")
    /\ Work(s).todo # <<>>
    /\ disk' = [disk EXCEPT ![Work(s).workspace] =
                   [(IF @ = None THEN Empty ELSE @)
                      EXCEPT !.files[Head(Work(s).todo)] = Torn]]
    /\ GoTo(s, "fill")
    /\ UNCHANGED runs

(* What comes out.  The summary always has the key                         *)
(* "prompt_context_enabled", and keys that contain "prompt" are forbidden. *)
(* The evidence of a review of external sources has one too; a display     *)
(* shows words of the user and of the model; and the limit may be set      *)
(* above what the audit reads.                                             *)
Contents(p) ==
    (IF p = "summary" THEN {"suspect"} ELSE {"fine"})
      \union (IF p \in Marked THEN {"suspect"} ELSE {})
      \union (IF p \in Long THEN {"cut"} ELSE {})

FillFile(s) ==
    /\ At(s, "fill")
    /\ \E contents \in Contents(Head(Work(s).todo)) :
         disk' = [disk EXCEPT ![Work(s).workspace].files[Head(Work(s).todo)] =
                    [contents |-> contents, run |-> Work(s).run,
                     status |-> IF Head(Work(s).todo) = "result"
                                THEN Work(s).status ELSE None]]
    /\ GoWith(s, "write", [Work(s) EXCEPT !.todo = Tail(@),
                                          !.refs = @ \union {Head(Work(s).todo)}])
    /\ UNCHANGED runs

(* finalize_operation_flow_run_workspace *)
OpenFinal(s) ==
    /\ Work(s).todo = <<>>
    /\ OpenManifest(s, "write", "finalize")

(* Mutant: a plan that was reviewed is one that succeeded. *)
SnapshotOfReviewed(s, cleaned) ==
    [workspace |-> Work(s).workspace, run |-> Work(s).run, refs |-> Work(s).refs,
     cleaned |-> cleaned,
     status |-> IF Work(s).status = "failed" THEN "succeeded" ELSE Work(s).status]

(* What the chat keeps of a plan.  A plan that failed safe is "failed"     *)
(* there if it was live, also when reading its references was blocked.     *)
Snapshot(s, cleaned) ==
    [workspace |-> Work(s).workspace, run |-> Work(s).run, refs |-> Work(s).refs,
     cleaned |-> cleaned,
     status |-> IF Work(s).status = "blocked" /\ Work(s).live
                THEN "failed" ELSE Work(s).status]

PlanAfter(s, cleaned) ==
    IF Work(s).workspace[1] = "plan" THEN Snapshot(s, cleaned) ELSE chats[s].plan

(* cleanup_operation_flow_run_workspace: the final manifest was written,   *)
(* then the policy is applied.                                             *)
Deletes(policy, status) ==
    \/ policy = "delete_always"
    \/ policy = "delete_on_success" /\ status = "succeeded"

WriteFinal(s) ==
    /\ At(s, "finalize")
    /\ WriteManifest(s, Work(s).status)
    /\ IF Work(s).asked THEN Return(s, Snapshot(s, FALSE)) ELSE GoTo(s, "clean")
    /\ UNCHANGED runs

Keep(s) ==
    /\ At(s, "clean")
    /\ ~Deletes(chats[s].policy, Work(s).status)
    /\ Return(s, PlanAfter(s, FALSE))
    /\ UNCHANGED <<disk, runs>>

(* shutil.rmtree takes the entries in any order, one at a time. *)
Entries(directory) ==
    {p \in Paths : directory.files[p] # None}
      \union (IF directory.manifest # None THEN {"manifest"} ELSE {})

Without(directory, entry) ==
    [subdirs |-> FALSE,
     manifest |-> IF entry = "manifest" THEN None ELSE directory.manifest,
     files |-> [p \in Paths |-> IF p = entry THEN None ELSE directory.files[p]]]

RemoveEntry(s) ==
    /\ At(s, "clean")
    /\ Deletes(chats[s].policy, Work(s).status)
    /\ \E entry \in Entries(Directory(s)) :
         disk' = [disk EXCEPT ![Work(s).workspace] = Without(@, entry)]
    /\ UNCHANGED <<chats, runs>>

(* Mutant: the state returned is the one from before the removal. *)
RemoveWorkspaceUntold(s) ==
    /\ At(s, "clean")
    /\ Deletes(chats[s].policy, Work(s).status)
    /\ Entries(Directory(s)) = {}
    /\ disk' = [disk EXCEPT ![Work(s).workspace] = None]
    /\ Return(s, PlanAfter(s, FALSE))
    /\ UNCHANGED runs

RemoveWorkspace(s) ==
    /\ At(s, "clean")
    /\ Deletes(chats[s].policy, Work(s).status)
    /\ Entries(Directory(s)) = {}
    /\ disk' = [disk EXCEPT ![Work(s).workspace] = None]
    /\ Return(s, PlanAfter(s, TRUE))
    /\ UNCHANGED runs

-----------------------------------------------------------------------------
(* persist_cli_operation_flow_status_summary: the summary is written into  *)
(* the directory of the latest plan, written again with its own ref in it, *)
(* and the directory is finalized again, with the status of the snapshot.  *)
ResumePlan(s) ==
    LET plan == chats[s].plan IN
    /\ GoWith(s, "write", [NoWork EXCEPT !.workspace = plan.workspace,
                                         !.run = plan.run, !.refs = plan.refs,
                                         !.status = plan.status, !.asked = TRUE,
                                         !.todo = <<"summary", "summary">>])
    /\ UNCHANGED <<disk, runs>>

(* Mutant: whether the directory was cleaned up is not asked. *)
ShowStatusOfAny(s) ==
    /\ At(s, "idle")
    /\ chats[s].plan # None
    /\ ResumePlan(s)

(* Without a plan that has a directory, /status writes nothing. *)
ShowStatus(s) ==
    /\ At(s, "idle")
    /\ chats[s].plan # None
    /\ ~chats[s].plan.cleaned
    /\ ResumePlan(s)

-----------------------------------------------------------------------------
Turn(s) ==
    \/ \E workflow \in Workflows : Refused(s, workflow)
    \/ \E task \in Tasks : BeginTask(s, task)
    \/ \E target \in Workspaces : BeginAudit(s, target)
    \/ ShowStatus(s)

Run(s) ==
    \/ ResolveTarget(s) \/ Inspect(s)
    \/ MakeWorkspace(s) \/ MakeSubdirs(s) \/ OpenCreated(s) \/ WriteCreated(s)
    \/ Do(s) \/ OpenFile(s) \/ FillFile(s)
    \/ OpenFinal(s) \/ WriteFinal(s)
    \/ Keep(s) \/ RemoveEntry(s) \/ RemoveWorkspace(s)

Next ==
    \E s \in Sessions :
        \/ \E policy \in Policies : StartChat(s, policy)
        \/ Turn(s)
        \/ Run(s)
        \/ EndChat(s)

Spec == Init /\ [][Next]_vars

-----------------------------------------------------------------------------
(* Properties.                                                             *)

Statuses == {"blocked", "failed", "no_live_boundary", "succeeded"}

Files == [contents : {"fine", "suspect", "cut"}, run : 1 .. MaxRuns,
          status : Statuses \union {None}]

Directories == [subdirs : BOOLEAN, manifest : Manifests \union {None, Torn},
                files : [Paths -> Files \union {None, Torn}]]

Snapshots == [workspace : Workspaces, run : 1 .. MaxRuns, refs : SUBSET Paths,
              cleaned : BOOLEAN, status : Statuses]

Works == [workspace : Workspaces \union {None}, run : 0 .. MaxRuns,
          target : Workspaces \union {None}, seen : Manifests \union {None},
          verdict : {None, "passed", "attention_required", "blocked"},
          status : Statuses \union {None}, live : BOOLEAN, todo : Seq(Paths),
          refs : SUBSET Paths, asked : BOOLEAN]

Labels == {"off", "idle", "resolve", "inspect", "create", "subdirs", "created",
           "creating", "work", "write", "fill", "finalize", "clean"}

Chats == [pc : Labels, policy : Policies, turn : 0 .. MaxTurns, work : Works,
          plan : Snapshots \union {None}]

ASSUME NoneAssumption ==
    /\ None \notin Directories \union Snapshots
    /\ None \notin Manifests \union Files /\ Torn \notin Manifests \union Files
    /\ None # Torn

(* The type of every variable. *)
TypeOK ==
    /\ disk \in [Workspaces -> Directories \union {None}]
    /\ chats \in [Sessions -> Chats]
    /\ runs \in 0 .. MaxRuns

Final(manifest) == Readable(manifest) /\ manifest.status # "created"

(* The file is there and the run wrote it, or is at writing it again. *)
IsOf(file, run) == file # None /\ (file = Torn \/ file.run = run)

(* The manifest of a finished run names only files that are there and that *)
(* the same run wrote, also when the directory was used before by a run of *)
(* the same id, that may have died anywhere; unless its own policy is to   *)
(* remove them.                                                            *)
ManifestIsTruthful ==
    \A w \in Workspaces :
        LET manifest == disk[w].manifest IN
        disk[w] # None /\ Final(manifest)
                       /\ ~Deletes(manifest.policy, manifest.status) =>
            \A p \in manifest.refs : IsOf(disk[w].files[p], manifest.run)

(* The latest plan's snapshot, from which the chat reports refs and which  *)
(* it writes to when asked for the status: if it does not say that the     *)
(* directory was cleaned up, all its refs name files of that plan.         *)
SnapshotRefsExist ==
    \A s \in Sessions :
        LET plan == chats[s].plan IN
        plan # None /\ ~plan.cleaned =>
            /\ disk[plan.workspace] # None
            /\ \A p \in plan.refs : IsOf(disk[plan.workspace].files[p], plan.run)

(* A directory that was cleaned up does not come back while its chat goes  *)
(* on, whatever the chat is asked for later: the writer makes what         *)
(* directories are missing.                                                *)
CleanedStaysGone ==
    \A s \in Sessions :
        chats[s].plan # None /\ chats[s].plan.cleaned =>
            disk[chats[s].plan.workspace] = None

(* The manifest of a finished run says that it succeeded if and only if    *)
(* the result that the same run wrote does: the status that /status writes *)
(* to the manifest is derived a second time, from the plan's flags.        *)
FinalStatusesAgree ==
    \A w \in Workspaces :
        LET manifest == disk[w].manifest
            result == disk[w].files["result"]
        IN disk[w] # None /\ Final(manifest)
             /\ result \notin {None, Torn} /\ result.run = manifest.run =>
               (manifest.status = "succeeded" <=> result.status = "succeeded")

Settled(w) ==
    /\ \A s \in Sessions : Work(s).workspace # w
    /\ disk[w] # None
    /\ Final(disk[w].manifest)
    /\ ~Deletes(disk[w].manifest.policy, disk[w].manifest.status)

(* An audit of the directory of a finished run, that nothing happens to,   *)
(* raises an alarm only about what is in a file that it reads.  It never   *)
(* does for a file or a directory that is missing, nor because of files    *)
(* that earlier runs of the same id left behind and that no ref names,     *)
(* wherever those runs died.                                               *)
AlarmsAreAboutContents ==
    [][\A s \in Sessions :
         LET target == disk[Work(s).target] IN
         Inspect(s) /\ Settled(Work(s).target)
           /\ target.manifest = Work(s).seen
           /\ chats'[s].work.verdict = "attention_required" =>
             \E p \in Audited(target, Work(s).seen.refs) :
                target.files[p] # None /\ Alarming(p, target.files[p])]_vars

(* What the evidence and the report of every audit say of it               *)
(* ("does_not_modify_audited_workspace"): no step of an audit changes the  *)
(* directory that it has looked at.  The code does not keep it.            *)
AuditLeavesTarget ==
    [][\A s \in Sessions :
         Run(s) /\ Work(s).seen # None =>
             disk'[Work(s).target] = disk[Work(s).target]]_vars
=============================================================================
