# Formal models of the Cognition System

TLA+ modules about the code in this repository, the TLC configurations that
check them on small instances, and theorems that TLAPS proves for every value of
the constants. The code is the reference: each definition that models code is
mapped to the lines it models in `PROJECT.json`.

    tlc -config store_one_writer.cfg MCSessionStore     # a run
    tlapm SessionStoreSafety.tla                        # a module of proofs

## 1. The system

The repository is a Python monorepo of 19 packages under `src/packages`. Its
product is a console that reads a page or an evidence file with the user's
consent, lets a model answer a question about it, takes follow-ups, and saves the
conversation as a *continuable evidence session* in local files.

| Part (package) | State it keeps | Operations | Talks to | What is hard | Correct when | Here |
|---|---|---|---|---|---|---|
| Session store (`product_runtime_assembly`, `..._session_store.py`) | `index.json`, one directory of JSON documents per session, deletion receipts | save, list, load, delete, expire | every `cognition-console` process, without a lock | crash between two files, overlapping processes, partial `rmtree` | a saved session is listed and complete; a deleted one is gone; list and manifest agree | `SessionStore`, `SessionCatalog` |
| Atomic documents (same file) | one file, one temporary name | `_atomic_write_json`, `_read_json` | the file system | crash while writing, reads during a write | the path always holds one whole document | `AtomicFile`, `AtomicDocument` |
| Session entry, state root (same package) | none; session ids derived from refs | save handler; list, delete, expire, resume-preview | console -> store | ids that coincide; three separate reads of a preview | a preview is not older than the list it looked at | `SessionStore`, `ConsoleAsk` |
| Product console (`product_console`) | the consents, the turns shown, the exit code | `ask --guided`, `session ...` | ask entry (call), entry (callback) | long dialogues with refusals and interrupts | nothing is contacted unasked; only successes are saved | `ConsoleAsk` |
| Ask entry, ask action (`product_application_assembly`) | interaction state: evidence, seed, service, follow-up number | initial ask, follow-up, transformation, summary | gateway, model service | state handed from turn to turn | every prompt has evidence behind it; run refs differ | `ConsoleAsk` |
| Provider key setup, credentials (same, `product_runtime_assembly`) | keychain entry | stored key, prompt, store | console, keychain | key stored before the ask has run | no silent read or save | `ConsoleAsk` |
| Run workspace (`operation_flows/_core`) | a directory and a manifest per run | create, write, finalize, clean up | workflows, gateway | re-runs under one id, non-atomic manifest, truncation | a finished manifest describes what is there; what was cleaned up stays gone | `RunWorkspace` |
| Workflows and plans (`operation_flows`) | the state of one run | plan, reference review, configuration explanation, audit of a run directory | run workspace, model service | an audit of a directory that is used again | results refer to what was written; an audit of a finished run alarms only about what is in its files and leaves its target alone | `RunWorkspace` |
| URL fetch and evidence archives (`external_readonly`, `product_gateway`, `cli/external_readonly`) | evidence archives (files) | gate, one HTTPS GET, sanitising; `external-readonly fetch` | transport (external); asks read the archives | each layer checks part of the controls; failures before and after contact; an archive written in place while it is read | contact only with every control; reports say what happened; an answer rests on evidence that was fetched with consent | `EvidenceFetch`, composed into `ConsoleAsk` |
| LLM invocation (`adk_adapter`) | none between calls | one call, one repair retry | provider (external) | timeouts, retry of a poor output | at most one retry, a fine output is never lost, the report is true | `LlmInvocation` |
| Controlled ADK run (`runtime_container`) | one run: controls, service, what has run | preflight, workflow, agent shell, invocation, tool | LLM invocation; ADK (external) | four places decide for themselves whether a run is live; anything may raise | nothing runs without its approvals; the summary is true | `ControlledRun` |
| Compatibility CLI and chat (`cli`) | evidence and reference lists, a path to be confirmed, the pending ask, the session and answer of the last ask; the snapshot of the latest plan | one line at a time: confirmation, ask bridge, follow-ups, hints, flows, ordinary turns, `/reference`, `/status` | controlled runs, ask service, workflows | a "yes" meant for something else; state that outlives what it was about; recognisers that overlap | consents belong to their ask; "the answer above" is the answer above | `ChatSession`; plans and `/status` in `RunWorkspace` |
| Gateway, orchestrator, composition (`product_gateway`, `runtime`, `composition`) | none (makes and restores the plan's snapshot) | forward | all of the above | a status derived twice | | the run request in `ControlledRun`, the snapshot in `RunWorkspace`; else sequences of calls, not modelled |
| Schemas, contracts, configuration (`schemas`, `behavior_contracts`, `contract_core`, `config_*`) | none | validate one document | all | | | not modelled: pure |
| Output governance (`adk_adapter`, `product_application_assembly`) | none between calls | attempt, check of the output, one repair, the result and what the ask makes of it | ask action; the model through ADK (external) | a repair that raises or is poor again; two checks that differ | only fit answers are shown, calls are reported, a good output is not lost | `OutputGovernance`, composed into `ConsoleAsk` |
| Network gate candidates, observability, evaluation, governance (`behavior_contracts`, `observability_hub`, `cognition_*`) | none | judge one candidate, build summaries | ask action | | | not modelled: pure; their verdicts are inputs of the models |

Nothing in the core runs threads; concurrency is between operating-system
processes that share a state root. All hazards found are listed with their lines
in `PROJECT.json`.

## 2. Modules

### SessionStore

One step is one file operation of one process.

| Variable | Code |
|---|---|
| `index` | `index.json`: for each session id no entry, or the record and its status |
| `dirs`, `file` | `sessions/<id>/` and its documents: `manifest`, `body` (six documents nobody reads, one step), `runtime` (`summaries/runtime-visible.json`), the turn files |
| `receipts` | `receipts/deletion/<id>.json` |
| `nsaves`, `shapeOf` | saves begun so far, and the documents that each record consists of |
| `job` | the command each process is in: program counter, session, what it has read |
| `view` | a resume-preview in progress |
| `kept`, `begun`, `gone` | history, for the properties |

Save is `BeginSave`, a `WriteFile` per document in the order of `payloads`
(`Rank`), `ReadIndexForSave`, `WriteIndexForSave`. Delete is `BeginDelete`,
`Unlink` of what `rmtree` listed, `RemoveDir` or `RemoveDirFails`,
`ReadIndexForDelete`, `WriteIndexForDelete`, `WriteReceipt`. Expire reads the
index once (`BeginExpire`), marks each due manifest (`SkipManifest`,
`ReadManifest`, `MarkManifest`) and writes what it had read
(`WriteIndexForExpire`). `Abort` is death of the process or an exception, at any
point. A preview makes three reads.

A record is abstracted to its number in the order of the saves, which also stands
for its expiry date: every save takes the date from its clock, so the dates are
ordered as the saves are, and `now` of an expire is any instant between them.
Stale documents of an earlier record stay where they are, as in the code.

### SessionCatalog

What the list promises: a map that `Publish`, `Remove` and `ExpireAt` change at
one instant. `SessionStore` implements it with `catalog <- index`,
`issued <- nsaves`. So does `ConsoleAsk`, one level up, with `catalog <- list`, for each
state root and session id the newest ask that was told it saved there, and
`issued <- asks`: the store does to its index and the asks do to their sessions the
same few things.

### AtomicFile

`SessionStore` takes the replacement of a document as one step. `AtomicFile`
justifies that: names, inodes, descriptors and blocks, with the fixed temporary
name that all writers of a document share, writers that die at any block and
readers that read block by block. Of the operating system it assumes what POSIX
says of `open`, `write` and `rename`. Loss of power is left out: the code calls
no `fsync`.

### AtomicDocument

What a document promises to those who write and read it: a register whose writes and
reads take effect at one instant. `AtomicFile` implements it: a write takes effect when
the name is moved, a read when the file is opened, since what the reader will get is
settled then. So taking a replacement or a read as one step, as `SessionStore` does,
loses nothing.

### EvidenceFetch

How evidence comes in. `job` is the request that each fetch command, and the
console's own fetch, works on (`run_external_readonly_fetch_command`,
`execute_external_readonly_fetch_gateway_request`, `url_fetch`); `archives` are the
evidence files. A request is the set of its `Controls`: the sentence of consent,
the two flags, the approvals and refs, an open gate, a URL that may be fetched. No
layer looks at all of them: the command checks the sentence, `GatewayAllows` five,
`UrlFetchAllows` the gate and the URL. `Called` is the call up to the transport;
`Respond` is what comes back, with the history variable part `reached` for whether
the host was contacted when the transport fails. A command then shows its output
(`ShowOnly`), or truncates and writes the archive (`OpenArchive`, `WriteArchive`),
unless the file exists by now and `--overwrite` was not given; it may end between
any two of these (`Abort`).

### OutputGovernance

The ADK-native probe that generates the answers of an ask. `call` is the call under
way: `first` attempt, `repair`, `returned`, with the result's `success`,
`performed` and text, and in `reached` and `fine` the history of whether the model
was contacted and whether one of its outputs was good. `Attempt` is one run of the agent
with the check of its output: a poor first output leads to the one repair
(`NeedsRepair`), anything else is returned as a success, the repair's output even if
it is poor again. `Fail` is an attempt that raises, in the first or in the repair.
The two checks are not the same: the probe judges the whole text, the ask a
shortened one, by the question; so an output has two verdicts, `passes` and `text`.

### ConsoleAsk

`cognition-console ask --guided`, run several times by one user, beside the fetch
commands of `EvidenceFetch` and with the probe of `OutputGovernance`, both of which it
extends. `pc` is what the console does or
waits for:

    off -> fetch -> llm -> provider -> key -> secret -> persist   (consents, key)
        -> run (-> fetching) -> answer (-> answering)        (evidence, model)
        -> prompt (-> following, transforming) ... prompt    (follow-ups)
        -> save -> off

`request` is what was answered, `state` the interaction state (has it an
allowed seed, has it a service, its follow-up number), `turns` what was shown,
`contacted` whom the ask contacted, `code` the exit code, `keychain` whether a key is
stored, `sessions` what is saved in each state root (one step: `SessionStore` has
the detail), `grounded` and `told` the history of where the evidence came from and
of what the user was told was saved. In `run` the entry checks the consents again
(`Preflighted`) and gets the evidence: `ReadArchive` reads a file as it is at that
moment, torn if a command is writing it; `BeginFetch`, `FetchPage` and `TakePage`
are the layers of `EvidenceFetch` with the controls that the console's consents and
the entry's own refs amount to (`AskControls`). `answering`, `following` and `transforming` wait for the
model (`Wait`); `TakeAnswer`, `TakeFollowUp` and `TakeTransformation` judge what the
probe of `OutputGovernance` returned (`Accepted`), for a failed turn drop its text,
and report the call (`Said`). The questions before the first
consent change nothing and are one step. Evidence refs are abstracted to their
slug, answer runs to their follow-up number: that is what the session id is
derived from.

### LlmInvocation

One `invoke` of the governed LLM invocation of the ADK adapter: `llm` says where it
is (`route`, `call`, `retry`), `request` what it was asked, `result` is the
`LlmInvocationResult`; `completions` and `heard` record the calls of the client and
what came back. `Invoke` has the five refusals in their order, `BuildRoute`,
`ClientMissing`, `CallFails` and `CallAnswers` the exits of the live call,
`RetryFails` and `RetryAnswers` the repair retry of a chat. An output is `fine`, a
`stall` that is poor only if the user asked for something at once, an `object` (a
JSON object with nothing to display, or what begins like JSON and does not decode), an
`array` (JSON that decodes to something else and is no plan and no format), or
`empty`: what the recognisers of poor output tell apart. An array whose text defers is
a `stall`, one whose text serves is `fine`. The
prompts, the routes and the texts of the stock answers are left out.

### ControlledRun

One controlled ADK run, from the request the gateway passes on to the summary. It
extends `LlmInvocation`.

    resolve -> preflight -> workflow -> shell -> invoke -> llm -> tool -> reported

The request is the set of `controls` given. Four places decide on their own whether
it is live: the chooser of the service (`LiveArgsSatisfied`), the builder of the
request (`NoLivePromise`), the entry (`LiveRequested`) and the gate (`GateReady`);
each is translated from its own code. What raises is caught in the places where the
code catches it: `ResolvingRaises`, `WorkflowRaises` and `SummaryRaises` end the run,
in `RunShell` and `ToolRaises` it goes on, with the deed done or not. `done` records
what has run. `InvokeDirectly` stands for the other users of the LLM service, which
bring their own consents.

### ChatSession

`cognition chat`: what becomes of each line. It extends `ControlledRun`, whose steps
are those of an ordinary turn. A line is the URL and the path in it and the groups
of keywords that the recognisers look for (`Utterances`), and the recognisers are
tried in the code's order:

| Code | Actions |
|---|---|
| references: confirmation of a path that was named | `NamePath`, `HoldPath`; `GoesOn` applies a confirmed path and puts its task in the line's place |
| summary of the session | `SummariseSession` |
| the bridge, an ask pending | `TakeQuestion`, `TakeModel`, `TakeConsent`, `Decline`, `ExecuteAsk` |
| the bridge, nothing pending | `RefuseOnSnapshot`, `TransformLocally`, `TransformByService`, `TransformFails`, `FollowUp`, `OpenAsk` |
| hints, operation flows, ordinary turns | `Hint`, `OperationFlow`, `OrdinaryTurn`, `FinishTurn` |
| `/reference clear`; `/exit`, end of input, interrupt | `Clear`; `Leave` |

`bridge` is `ChatExternalReadonlyBridgeState`, `evidence` and `refs` the two lists of
references, `pendingRef` the path to be confirmed with the task it came with.
`shown`, `consents`, `missing` and `named` are history. The ask service and the
flows are external here: an ask has the outcomes that `ConsoleAsk` derives, and
answers are told apart only as far as one of them is stored. `front = "other"` are
the users of the runtime outside a chat, `cognition run` among them.

### RunWorkspace

The directories of operation-flow runs, one file operation per step, and the chats
whose turns use them.

| Variable | Code |
|---|---|
| `disk` | for each directory (workflow, chat session id, turn: `build_operation_flow_run_id`) nothing, or whether its standard subdirectories are there, its `manifest.json`, its files |
| `chats` | the chat of each session id: what it does (`pc`), cleanup policy, turns so far, the run or `/status` under way (`work`), the snapshot of the latest plan (`plan`) |
| `runs` | runs begun so far, numbers them for the properties |

A turn goes

    idle -> (resolve -> inspect ->)             an audit reads its target first
         create -> subdirs -> created -> creating -> work
         -> write -> fill -> ... -> write       one round per file
         -> finalize -> clean -> idle

and `EndChat` (end of input, interrupt, exception, kill) may happen between any two
steps; `StartChat` with the same session id then meets the old directories.
`work` is the workflow itself, one step with every outcome it can have
(`PlanOutcomes`, `ReviewOutcomes`, `ExplainOutcomes`, `AuditOutcomes`): the status it
will report, whether it was live, and whether references were asked for, so
which files it writes. `/status` enters at `write` with the snapshot and leaves after
`finalize`. A file and a manifest are `Torn` between `open` with truncation and the
write. Files are the reference context (`evidence`), the terminal display, the
result and the status summary. What is in a file is chosen when it is written
(`Contents`): `fine`, `cut` (JSON longer than `max_write_bytes`; the files of the
constant `Long`), or `suspect`: what an audit objects to though the file is whole,
which is a key or a word that it forbids, or more JSON than its 65536 bytes. The
summary is never fine, since it always has the key `prompt_context_enabled`; the
constant `Marked` says which other files may be suspect (the evidence of a review of
external sources has `prompt_injection_enabled`, a display shows words of the user and
of the model, and `max_write_bytes` may be above what an audit reads). An audit fails
(`Passes`) by a standard subdirectory, the result or a referenced file that is missing,
or by a file it reads that is `Alarming`. Which workflows the chats run besides audits
is `Tasks`.
The excerpts of references, which are written like the display, are left out, and
so are a manifest that is longer than an audit reads, session ids and output roots
with a forbidden word in them, the validation of policies and paths, and two chats
with one session id at the same time.

### Constants and proofs

Modules `MC...` hold the constants of the runs. The theorems are in
`SessionStoreProofs` and `SessionStoreSafety`, `AtomicFileProofs`,
`LlmInvocationProofs`, `ControlledRunProofs`, `ChatSessionProofs`, `ConsoleAskProofs`
and `RunWorkspaceProofs`.

## 3. Runs

| Run | Instance | Shows |
|---|---|---|
| `store_one_writer` | 2 sessions, 2 saves, 1 process, 2 shapes of record; 1.7 million states | the safety properties, the action properties and the refinement of `SessionCatalog`, with a death of the process at every point |
| `store_previews` | 1 session, 2 saves, 1 process and 1 preview; 357,640 states | previews during commands: what they show is current |
| `store_commands_end` | 1 session, 2 processes, 1 preview; 151,596 states | every command ends, also when commands overlap |
| `atomic_one_writer` | 2 documents of different length, 1 writer, 2 readers, 4 inodes | whole documents only, changed at one instant |
| `ask_console` | 1 page, 1 file, 1 fetch command, 1 ask of up to 3 turns, a key stored or not, archives as earlier commands left them; at most one repair; 738,335 states | consents, reports of fetches and of calls of the model, evidence behind an answer, fit answers that repairs do not lose, prompt state, run numbers, saved turns, exit code |
| `chat_session` | 1 URL, 2 evidence files, 1 local file, 22 lines, 4 sets of controls; 341,655 states | approvals, truthful reports, consents, evidence in use, the answer a transformation works on, turns that end |
| `run_workspace` | 1 session id, 1 turn per chat, 3 runs, plans and audits, policies `manual` and `delete_on_success`; evidence that may be cut or suspect; 4.8 million states | truthful manifests, snapshots whose refs exist, clean-up that lasts, agreeing statuses, audits that alarm about the contents of files only |
| `run_workspace_audit_target` | all workflows, 2 runs | violation, see findings |
| `store_two_writers_deleted` | 2 processes, the smallest record | violation, see findings |
| `ask_follow_ups_served`, `ask_saved_sources_stay` | 1 ask; 2 pages and 2 asks | violations, see findings |
| `chat_named_source` | 1 evidence file | violation, see findings |

Why the bounds suffice.
- *Store.* Two sessions: one is the command's and one is another. Two saves: a
  re-save, or a save after a delete, with shapes of different size so that stale
  documents occur. A preview compares one entry with one manifest, so one session
  does.
- *Atomic documents.* Four inodes: the two names' and a descriptor of each reader; a
  longer and a shorter document so that truncation shows.
- *Ask.* Three turns: a first answer and two more, so that a grounded follow-up comes
  before or after a transformation or a summary. One ask: it finds a key, sessions
  and archives in every state an earlier one can leave of them; what two asks do to
  each other's sessions is `ask_saved_sources_stay`. One fetch command beside it,
  with at most one control missing: a layer that forgets a control shows with that
  one missing. `MaxRepairs` is 1: the code asks only whether it is positive, and 0 is
  the part of the behaviours without a repair.
- *Chat.* Two evidence files, so that the evidence listed can differ from the
  evidence of a session. There is a line for each way the recognisers tell lines
  apart, confirmations and answers to prompts included (`MCLines`); the controls are all, those of a run without a model, those
  with one approval missing, and an option of a live run without the rest.
- *Run directories.* Each belongs to one session id and one turn, and a directory is
  shared only by runs of chats with that id that reach that turn, so one id and one
  turn, with chats started again, give every reuse; an audit of another directory has
  the plan's as its target. Three runs: one that dies, one that uses its directory
  again, and an audit of the result. A plan's evidence may be fine, cut or suspect and
  its summary is suspect, so an audit meets every kind of contents. `delete_always` changes nothing but `Deletes`.
  `Tasks` has only the plan in `run_workspace`: with the other two workflows and three
  runs the instance is out of reach (with two runs it is 1 million states, without an
  error), and the theorems cover them.

`MaxSaves`, `MaxAsks`, `MaxTurns` and `MaxRuns` are the only caps; the code has none
(a chat has `--max-turns` if the user asks for it).

Fairness is assumed in two runs. `store_commands_end`: weak fairness of the steps of a
command and of a preview; a command is straight-line code that waits for nothing,
so a process that began one and does not die goes on. `chat_session`: weak fairness
of the steps of a turn's run; they are the program's own, and a call of the model
ends within the client's timeout. Which command or line the user gives, and whether
he gives one, is not fair, and neither is `Abort`.

Deadlock is checked except in the `ask_*` and `chat_*` runs, where the system stops
after `MaxAsks` asks, or when the chat has ended.

### Findings

1. **Overlapping commands bring back deleted sessions**
   (`store_two_writers_deleted`), against v0.8.4-release-note.md:13.
2. **An offered follow-up is refused** (`ask_follow_ups_served`). A first answer
   formed without a model (the evidence is too short for what was asked) offers
   follow-ups, but its state has no service: any grounded follow-up is blocked and
   ends the console without an offer to save.
3. **Sessions about different pages share an id** (`ask_saved_sources_stay`). The
   id is derived from refs that do not depend on the page, so the second save
   replaces the first.
4. **An audit can write to what it audits** (`run_workspace_audit_target`). An
   audit run in a chat that was started again with its session id gets the
   directory of the earlier audit of the same turn; if it audits that directory, it
   overwrites the manifest and the evidence it has just judged, while stating
   `does_not_modify_audited_workspace`. The overlap check looks at the output root
   only.
5. **A URL with a question is refused for want of an answer** (`chat_named_source`).
   The recogniser of transformations comes before the one of URLs, so a first line
   with a URL and 写个摘要 ("write a summary") is taken for a request to transform the
   answer above: 摘要 is both a word for an answer and a word of change. (总结, "sum
   up", is only the latter, and such a line does open an ask.) The model's line is the
   URL with the word `transform`;
   the refusal then advises the user to enter the URL with a question, which he did.

Observed, and promised nowhere. *Store:* two overlapping saves can leave one session
unlisted; a re-save leaves stale turn files and a stale runtime summary, which the
preview shows. *Ask:* a failed save leaves the exit code 0; a failed follow-up
discards the answers before it; a key is stored before the ask runs and stays
stored if the ask fails; a repair that raises fails the turn and loses the first
output, which the ask might have accepted; an output that passes the probe's check but
not the ask's gets no repair. *Chat:* JSON that decodes to an array is no reason
for a repair and is shown as it came, while an object with nothing to display is
repaired or replaced. *Fetch:* a transport that raises is reported with
`external_network_call_performed` false though the host may have been reached; with
`--overwrite` a fetch that was refused replaces good evidence by a refusal. *Runs:* a
written JSON file that was cut counts as succeeded and only an audit finds it; an
audit passes a directory whose last run never finished if an earlier run left its
files; once `/status` has written its summary, every audit of the plan's directory
raises an alarm though nothing is damaged, for the key `prompt_context_enabled`, and so
does every audit of a review of external sources, for `prompt_injection_enabled`; after a live plan whose references were blocked `/status` changes the
manifest's status from `blocked` to `failed`; a reference review whose model failed
is reported as succeeded with a note, since the branch of `reference_review.py` for a
failed draft compares with a source that no draft has.

## 4. Proofs

Every theorem holds for all values of the constants that satisfy the modules' named
assumptions: the caps are natural numbers, the sets of sources, files, commands and
workflows are disjoint where the code keeps them apart, `None` and `Torn` are no
values of the data (`NoneIsNoEntry`, `NoneAssumption` among them), and an answer to a prompt is a line of its own
(`LinesAssumption`: the code compares the whole line).

**Store and atomic documents.** `SessionStoreProofs` proves, for any number of
processes and however their commands overlap:
- `TypeOK`;
- `OverlapKeepsRecordsApart`: no record is ever held for two sessions, in the index,
  the documents, what a command or a preview has read, or what it is about to write;
  and a document on disk is one that its record has and lies in a directory that
  exists. `Holds(s, v)` names every place in which record `v` can be for session `s`;
  each step copies only between places of one session (`HoldsStep`), and a record is
  new to all of them when its save begins (`OneIsNew`);
- `CommandsMoveOn`: each step of a command takes it strictly forward, through the
  sessions it has to mark, its stages and the documents it has to write or unlink, all
  settled when it begins. It is the variant that makes `EveryCommandEnds` true.

The safety properties about the list, the deletions and the previews, and those of
`AtomicFile`, hold of commands that do not overlap: the theorems have the form
`Spec /\ []NoOverlap => ...`, for any number of processes. The code does not enforce
`NoOverlap` (finding 1 is what happens otherwise); it is the condition under which one
user with one console works. In the runs that check them it holds because there is
one writer. Any number of previews, aborts, sessions and saves is covered. The safety
properties are not inductive; `StoreInv` adds why they hold:
- `SnapIsCurrent`: what a command read from the index is what it still says;
- `SaveIsNewest`, `Numbering`, `ManifestIsNewest`: only the last record can be
  unfinished, so "this record or a later one" is well founded;
- `SaveProgress`: the documents a save no longer has to write are there, at its
  record, so the entry written last names a complete record;
- `DeleteProgress`, `DirsHoldFiles`: once the directory is gone nothing is left of
  the session, so only its own save can bring a document back;
- `ExpireProgress`: a due session that is done with has no resumable manifest of
  the listed record.

`ViewInv` says the same of what a preview remembers between its reads. The
refinement follows from `SnapIsCurrent`: replacing the index by a changed copy of
what was read is then a change of the index itself. For `AtomicFile` the argument
is that the temporary name's inode is apart from the one the path names and from
those that readers hold (`TempIsApart`, `WriterOwnsTemp`, `ReadersHoldWhole`).
`FileImplementsDocument` adds the refinement of `AtomicDocument` and that what a
reader has got is what the register gave it (`DocumentsAreShown`); a writer that dies
before it moves the name has written nothing.

**Invocation and run.** `LlmInv` says for each phase of an invocation how many
completions there have been and what was heard (`LlmPhases`), from which the truth of
the result and that a fine output is kept follow. `RunInv` says for each step of a
run which deeds can have been done and that the preflight has passed (`RunPhases`).
What it needs of the four deciders are two lemmas: a request that passes its preflight
has every approval (`PreflightApproves`), and the entry takes a request for live exactly
if it has the live arguments by which the chooser goes (`LiveIsLive`). No step of the code checks
this; the lemmas are where it would show if one decider were changed alone.
`RunsMoveOn` gives the number of steps that a run has left at most, ten when it begins,
and that each of its steps lowers it: no exception and no answer of the model leads
back.

**Chat.** `ChatRunsAreRuns` is the refinement: every step of a chat is a step of
`RunSpec` or leaves a run alone, so `NothingWithoutApproval` and `ReportIsTruthful`
hold of chats by the theorems about runs. `ChatInv` adds to the properties of the chat
that the stage of a pending ask tells which consents have been given
(`ConsentsOfStage`), and that the task held with a path is never itself an answer to a
prompt (`TaskIsNoAnswer`), so that confirming a path confirms nothing else.

**Ask.** `AllInv` is `FetchInv`, `CallInv` and `AskInv`. `CallInv` says that
there is no call unless the console waits for one, so that the result of one is never
taken for that of the next, and that a result fits what was reached and heard
(`GoodCalls`); `MaxRepairs` is any natural number. `FetchInv`: a job that is past the layers
has had all controls, and an archive with facts that a command wrote was fetched with
consent. `AskInv` relates the request to `pc` (`RequestType`, `ConsentInv`: which
consents have been given by then), the interaction state to the last turn
(`TalkType`, `TalkInv` with `PromptInv`: the state's follow-up number is the number
of follow-up runs among the turns and bounds theirs, so the next number is new), and the saved sessions to what was
told (`SavedInv`). Two theorems say how far the findings about the ask reach:
`RefusedAfterBrief`, that a follow-up over the same evidence is refused if and only if
the first answer was a brief one (`ServiceInv`: nothing else decides whether the state
has a service), and `OnlyPagesAreReplaced`, that a session the user was told of is
still there, about its own source, unless both are pages and a later ask was told of
the same name.
`AsksImplementCatalog` is the refinement of `SessionCatalog`; it rests on `ToldInv`,
that what was told is what is listed.

**Run directories.** `IInv` is `RunsInv`, `DiskInv` and `ChatInv`. `DiskInv` says of every
directory, whoever left it, that it is `Numbered` (what is in it was written by runs that
have begun) and `Truthful` (a final manifest names files of its run, with a status
that its result agrees with). `ChatInv` ties each chat to its own directories:
`PlanOf` and `PlanNumbered` for the snapshot, `WorkOf` for the run under way: what is on
the disk before it writes (`Early`), while it does (`Late`), and when it has
`Finished`. A step of one chat
changes only directories with its session id, and the directory of a turn is `Apart`
from the one the latest plan named, since the turns of a chat are numbered; only
`/status` goes back to that directory (`Continues`). From it follows `WritesStay`: a
step of a run changes no directory but its own, which narrows finding 4 to the one case
where an audit's own directory is the one it audits.

`AlarmsAreAboutContents` needs a second invariant, `MadeInv`, about the history of a directory
an audit meets: a final manifest of a directory that is kept goes with all standard
subdirectories and names the result (`Complete`), at every label of the run that made it
(`WorkMade`) and after `/status` has gone through the directory again (`PlanMade`). Then
an audit finds every file it asks for, and what fails it can only be the contents of
one (`FailsOnlyByContents`).

**Only model-checked.** `EveryCommandEnds` and `TurnsEnd` (liveness under fairness,
and ENABLED, are out of the prover's reach; `CommandsMoveOn` and `RunsMoveOn` are what of
them is no matter of fairness), and what the violating runs refute. Not provable with the provers at hand are facts about
recursive definitions over data; the modules have none, and no RECURSIVE operators.

## 5. Not modelled

- Pure code, whose results are inputs of the models: the contents of documents and
  messages, the guards over them (`schemas`, `behavior_contracts`, `contract_core`),
  the recognisers' keyword lists and the checks of texts, rendering, the builders of
  summaries and refs, configuration, observability, and the evaluation and
  governance candidates, the network gate's among them. They judge one value at a
  time and keep nothing; there is no order of steps in which they could go wrong, and
  what they compute over strings is tested by examples in the repository.
- Backends: the keychain, the state root's choice, the transport, the model client
  and ADK itself are external.
- One-shot commands other than `run`, `fetch`, `ask --guided` and `session ...`: each is
  one call of a modelled or a pure part.
- Two chats with one session id at the same time, and the documents of a save inside
  `ConsoleAsk` (one step there; `SessionStore` has them).
- The sequence of planned follow-ups of the compatibility CLI.

## 6. What is left

1. The sequence of planned follow-ups of the compatibility CLI.
2. Two chats with one session id at once in `RunWorkspace`: the properties would be
   violated, so what is wanted first is a statement of which should still hold.
