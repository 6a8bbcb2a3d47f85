---------------------------- MODULE SessionStore ----------------------------
(***************************************************************************)
(* The local store of continuable evidence sessions: a state root with     *)
(* one index.json, one directory per session and one deletion receipt per  *)
(* deleted session, used by several OS processes (each runs one            *)
(* `cognition-console` command at a time) without any lock.                *)
(*                                                                         *)
(* A step of this module is one file operation of a command.  Replacing a  *)
(* JSON document (_atomic_write_json) is one step here; module AtomicFile  *)
(* shows when that is justified.  Between any two steps the process may    *)
(* die, or the operating system may make the operation raise: both leave   *)
(* the files as they are and end the command (action Abort).               *)
(*                                                                         *)
(* Data.  A saved record is its number in the order of the saves; the      *)
(* documents of a session directory are "manifest", "body" (session, seed, *)
(* resume policy, artifact index, trajectory and latest summary: six       *)
(* documents that are written one after the other and that no command      *)
(* reads), "runtime" (summaries/runtime-visible.json) and the turn files.  *)
(* A save takes its expiry date from its own clock, so the expiry dates    *)
(* are ordered as the saves are and the save's number stands for it.       *)
(***************************************************************************)
EXTENDS Naturals

CONSTANTS
    Sessions,    \* the session ids
    Writers,     \* processes that run save, delete and expire
    Readers,     \* processes that run resume-preview
    TurnFiles,   \* names of the turn documents, turns/0001-....json
    Shapes,      \* the sets of documents a record can consist of
    MaxSaves,    \* bound: number of saves ever started
    Absent       \* no document, no index entry

FileNames == {"manifest", "body", "runtime"} \union TurnFiles

ASSUME TurnFilesAssumption ==
    TurnFiles \intersect {"manifest", "body", "runtime"} = {}
ASSUME ShapesAssumption ==
    \A shape \in Shapes : shape \subseteq FileNames /\ "manifest" \in shape
ASSUME MaxSavesAssumption == MaxSaves \in Nat

Versions == 1 .. MaxSaves

(* A document, or an index entry, carries the record it belongs to and the *)
(* status it shows (record_status in a manifest, session_status in an      *)
(* index entry; resumable is TRUE exactly with "resumable").               *)
Docs == [ver : Versions, status : {"resumable", "expired"}]

ASSUME AbsentAssumption == Absent \notin Docs

MaybeDoc == Docs \union {Absent}

VARIABLES
    index,     \* [Sessions -> MaybeDoc]: index.json
    dirs,      \* the session directories that exist
    file,      \* [Sessions -> [FileNames -> MaybeDoc]]: their documents
    receipts,  \* sessions with receipts/deletion/<id>.json
    nsaves,    \* saves started so far
    shapeOf,   \* [Versions -> SUBSET FileNames]: logical_file_names by record
    job,       \* [Writers -> the command the process runs]
    view       \* [Readers -> the preview the process runs or has printed]

(* History, read by the properties only. *)
VARIABLES
    kept,      \* [Sessions -> 0 or the record a finished save left, until a
               \*  delete of that session begins]
    begun,     \* [Sessions -> 0 or the last record a save of it began]
    gone       \* sessions whose delete finished, with no save begun (and none
               \*  still running) since the delete began

store == <<index, dirs, file, receipts, nsaves, shapeOf>>
history == <<kept, begun, gone>>
vars == <<store, job, view, history>>

Idle == [pc |-> "idle", sid |-> Absent, ver |-> 0, now |-> 0,
         pend |-> {}, due |-> {}, snap |-> [s \in Sessions |-> Absent],
         read |-> Absent]

NoView == [pc |-> "idle", sid |-> Absent, entry |-> Absent,
           manifest |-> Absent, result |-> "none"]

Init ==
    /\ index = [s \in Sessions |-> Absent]
    /\ dirs = {}
    /\ file = [s \in Sessions |-> [f \in FileNames |-> Absent]]
    /\ receipts = {}
    /\ nsaves = 0
    /\ shapeOf = [v \in Versions |-> {}]
    /\ job = [w \in Writers |-> Idle]
    /\ view = [r \in Readers |-> NoView]
    /\ kept = [s \in Sessions |-> 0]
    /\ begun = [s \in Sessions |-> 0]
    /\ gone = {}

Running(w, pc) == job[w].pc = pc

Saving(w, s) == job[w].pc \in {"save_files", "save_index"} /\ job[w].sid = s
Deleting(w, s) ==
    /\ job[w].pc \in {"del_files", "del_read", "del_index", "del_receipt"}
    /\ job[w].sid = s

(* job[w] finishes: the process exits. *)
Finish(w) == job' = [job EXCEPT ![w] = Idle]

-----------------------------------------------------------------------------
(* save_continuable_evidence_session_record.  Validation precedes every    *)
(* effect, so a rejected record is a step that changes nothing.            *)

(* The order of `payloads`: the manifest first, the turns last. *)
Rank(f) ==
    IF f = "manifest" THEN 1
    ELSE IF f = "body" THEN 2
    ELSE IF f = "runtime" THEN 3
    ELSE 4

BeginSave(w, s, shape) ==
    /\ Running(w, "idle")
    /\ nsaves < MaxSaves
    /\ nsaves' = nsaves + 1
    /\ shapeOf' = [shapeOf EXCEPT ![nsaves + 1] = shape]
    /\ dirs' = dirs \union {s}
    /\ job' = [job EXCEPT ![w] = [Idle EXCEPT !.pc = "save_files", !.sid = s,
                                              !.ver = nsaves + 1, !.pend = shape]]
    /\ begun' = [begun EXCEPT ![s] = nsaves + 1]
    /\ gone' = gone \ {s}
    /\ UNCHANGED <<index, file, receipts, view, kept>>

WriteFile(w, f) ==
    LET s == job[w].sid IN
    /\ Running(w, "save_files")
    /\ f \in job[w].pend
    /\ \A g \in job[w].pend : Rank(f) <= Rank(g)
    /\ file' = [file EXCEPT ![s][f] = [ver |-> job[w].ver, status |-> "resumable"]]
    /\ dirs' = dirs \union {s}
    /\ job' = [job EXCEPT ![w].pend = @ \ {f}]
    /\ UNCHANGED <<index, receipts, nsaves, shapeOf, view, history>>

(* Mutant: the index entry is written before the documents. *)
ReadIndexFirst(w) ==
    /\ Running(w, "save_files")
    /\ job' = [job EXCEPT ![w].pc = "save_index", ![w].snap = index]
    /\ UNCHANGED <<store, view, history>>

ReadIndexForSave(w) ==
    /\ Running(w, "save_files")
    /\ job[w].pend = {}
    /\ job' = [job EXCEPT ![w].pc = "save_index", ![w].snap = index]
    /\ UNCHANGED <<store, view, history>>

(* Mutant: the filter of the entries keeps none but the session's own. *)
WriteOnlyOwnEntry(w) ==
    LET s == job[w].sid IN
    /\ Running(w, "save_index")
    /\ index' = [u \in Sessions |-> IF u = s THEN [ver |-> job[w].ver,
                                                   status |-> "resumable"]
                                     ELSE Absent]
    /\ Finish(w)
    /\ kept' = [kept EXCEPT ![s] = job[w].ver]
    /\ UNCHANGED <<dirs, file, receipts, nsaves, shapeOf, view, begun, gone>>

WriteIndexForSave(w) ==
    LET s == job[w].sid IN
    /\ Running(w, "save_index")
    /\ index' = [job[w].snap EXCEPT ![s] = [ver |-> job[w].ver,
                                            status |-> "resumable"]]
    /\ Finish(w)
    /\ kept' = IF \E u \in Writers \ {w} : Saving(u, s) \/ Deleting(u, s)
               THEN kept
               ELSE [kept EXCEPT ![s] = job[w].ver]
    /\ UNCHANGED <<dirs, file, receipts, nsaves, shapeOf, view, begun, gone>>

-----------------------------------------------------------------------------
(* delete_continuable_evidence_session_record; the id need not be known.   *)
(* shutil.rmtree lists the directory, unlinks what it listed (what has     *)
(* vanished meanwhile is skipped) and removes the directory, which raises  *)
(* when another process has put a document there since, or removed it.     *)
(* (A delete's ver is for the history: no save of the session began after  *)
(* that one.)                                                              *)

(* Mutant: the directory is removed only when the session is listed. *)
BeginDeleteIfListed(w, s) ==
    /\ Running(w, "idle")
    /\ job' = [job EXCEPT ![w] =
                 [Idle EXCEPT !.pc = IF index[s] # Absent THEN "del_files" ELSE "del_read",
                              !.sid = s,
                              !.ver = nsaves,
                              !.pend = {f \in FileNames : file[s][f] # Absent}]]
    /\ kept' = [kept EXCEPT ![s] = 0]
    /\ UNCHANGED <<store, view, begun, gone>>

BeginDelete(w, s) ==
    /\ Running(w, "idle")
    /\ job' = [job EXCEPT ![w] =
                 [Idle EXCEPT !.pc = IF s \in dirs THEN "del_files" ELSE "del_read",
                              !.sid = s,
                              !.ver = IF \E u \in Writers : Saving(u, s)
                                      THEN 0 ELSE nsaves,
                              !.pend = {f \in FileNames : file[s][f] # Absent}]]
    /\ kept' = [kept EXCEPT ![s] = 0]
    /\ UNCHANGED <<store, view, begun, gone>>

Unlink(w, f) ==
    LET s == job[w].sid IN
    /\ Running(w, "del_files")
    /\ f \in job[w].pend
    /\ file' = [file EXCEPT ![s][f] = Absent]
    /\ job' = [job EXCEPT ![w].pend = @ \ {f}]
    /\ UNCHANGED <<index, dirs, receipts, nsaves, shapeOf, view, history>>

RemoveDir(w) ==
    LET s == job[w].sid IN
    /\ Running(w, "del_files")
    /\ job[w].pend = {}
    /\ s \in dirs
    /\ \A f \in FileNames : file[s][f] = Absent
    /\ dirs' = dirs \ {s}
    /\ job' = [job EXCEPT ![w].pc = "del_read"]
    /\ UNCHANGED <<index, file, receipts, nsaves, shapeOf, view, history>>

(* Mutant: the delete polls until the directory can be removed. *)
RemoveDirWaits(w) ==
    /\ Running(w, "del_files")
    /\ job[w].pend = {}
    /\ \E f \in FileNames : file[job[w].sid][f] # Absent
    /\ UNCHANGED vars

RemoveDirFails(w) ==
    LET s == job[w].sid IN
    /\ Running(w, "del_files")
    /\ job[w].pend = {}
    /\ s \notin dirs \/ \E f \in FileNames : file[s][f] # Absent
    /\ Finish(w)
    /\ UNCHANGED <<store, view, history>>

ReadIndexForDelete(w) ==
    /\ Running(w, "del_read")
    /\ job' = [job EXCEPT ![w].pc = "del_index", ![w].snap = index]
    /\ UNCHANGED <<store, view, history>>

WriteIndexForDelete(w) ==
    /\ Running(w, "del_index")
    /\ index' = [job[w].snap EXCEPT ![job[w].sid] = Absent]
    /\ job' = [job EXCEPT ![w].pc = "del_receipt"]
    /\ UNCHANGED <<dirs, file, receipts, nsaves, shapeOf, view, history>>

(* Mutant: the receipt is written before the index. *)
WriteReceiptFirst(w) ==
    LET s == job[w].sid IN
    /\ job[w].pc \in {"del_index", "del_receipt"}
    /\ receipts' = receipts \union {s}
    /\ IF Running(w, "del_index") THEN UNCHANGED job ELSE Finish(w)
    /\ UNCHANGED <<index, dirs, file, nsaves, shapeOf, view, history>>

WriteReceipt(w) ==
    LET s == job[w].sid IN
    /\ Running(w, "del_receipt")
    /\ receipts' = receipts \union {s}
    /\ Finish(w)
    /\ gone' = IF begun[s] <= job[w].ver THEN gone \union {s} ELSE gone
    /\ UNCHANGED <<index, dirs, file, nsaves, shapeOf, view, kept, begun>>

-----------------------------------------------------------------------------
(* expire_continuable_evidence_session_records: `now` is the caller's      *)
(* --now, an arbitrary instant.  The index is read once; each due entry's  *)
(* manifest is marked, then the index is written from what was read.       *)

Due(idx, now) == {s \in Sessions : idx[s] # Absent /\ idx[s].ver <= now}

(* Mutants: the entries that are not due are not copied to the new index;  *)
(* the due ones are marked with a status the index does not know.          *)
ExpiredOnlyDue(idx, now) ==
    [s \in Sessions |-> IF s \in Due(idx, now)
                        THEN [ver |-> idx[s].ver, status |-> "expired"]
                        ELSE Absent]

ExpiredAsDeleted(idx, now) ==
    [s \in Sessions |-> IF s \in Due(idx, now)
                        THEN [ver |-> idx[s].ver, status |-> "deleted"]
                        ELSE idx[s]]

Expired(idx, now) ==
    [s \in Sessions |-> IF s \in Due(idx, now)
                        THEN [ver |-> idx[s].ver, status |-> "expired"]
                        ELSE idx[s]]

BeginExpire(w, now) ==
    /\ Running(w, "idle")
    /\ job' = [job EXCEPT ![w] = [Idle EXCEPT !.pc = "exp_marks", !.now = now,
                                              !.due = Due(index, now),
                                              !.snap = index]]
    /\ UNCHANGED <<store, view, history>>

(* _mark_manifest_expired returns at once when there is no manifest. *)
SkipManifest(w, s) ==
    /\ Running(w, "exp_marks")
    /\ s \in job[w].due
    /\ file[s]["manifest"] = Absent
    /\ job' = [job EXCEPT ![w].due = @ \ {s}]
    /\ UNCHANGED <<store, view, history>>

ReadManifest(w, s) ==
    /\ Running(w, "exp_marks")
    /\ s \in job[w].due
    /\ file[s]["manifest"] # Absent
    /\ job' = [job EXCEPT ![w].pc = "exp_write", ![w].sid = s,
                          ![w].read = file[s]["manifest"]]
    /\ UNCHANGED <<store, view, history>>

(* Mutant: the entry is written to the index in the same loop. *)
MarkManifestAndEntry(w) ==
    LET s == job[w].sid IN
    /\ Running(w, "exp_write")
    /\ file' = [file EXCEPT ![s]["manifest"] = [ver |-> job[w].read.ver,
                                                status |-> "expired"]]
    /\ index' = [index EXCEPT ![s] = [ver |-> job[w].snap[s].ver,
                                      status |-> "expired"]]
    /\ job' = [job EXCEPT ![w].pc = "exp_marks", ![w].sid = Absent,
                          ![w].read = Absent, ![w].due = @ \ {s}]
    /\ UNCHANGED <<dirs, receipts, nsaves, shapeOf, view, history>>

(* Writing the manifest creates the directory when it is missing. *)
MarkManifest(w) ==
    LET s == job[w].sid IN
    /\ Running(w, "exp_write")
    /\ file' = [file EXCEPT ![s]["manifest"] = [ver |-> job[w].read.ver,
                                                status |-> "expired"]]
    /\ dirs' = dirs \union {s}
    /\ job' = [job EXCEPT ![w].pc = "exp_marks", ![w].sid = Absent,
                          ![w].read = Absent, ![w].due = @ \ {s}]
    /\ UNCHANGED <<index, receipts, nsaves, shapeOf, view, history>>

(* Mutant: the index is written before the manifests are marked. *)
WriteIndexBeforeMarks(w) ==
    /\ Running(w, "exp_marks")
    /\ index' = Expired(job[w].snap, job[w].now)
    /\ IF job[w].due = {} THEN Finish(w) ELSE UNCHANGED job
    /\ UNCHANGED <<dirs, file, receipts, nsaves, shapeOf, view, history>>

WriteIndexForExpire(w) ==
    /\ Running(w, "exp_marks")
    /\ job[w].due = {}
    /\ index' = Expired(job[w].snap, job[w].now)
    /\ Finish(w)
    /\ UNCHANGED <<dirs, file, receipts, nsaves, shapeOf, view, history>>

-----------------------------------------------------------------------------
(* The process dies, or an operation raises, between two steps. *)
Abort(w) ==
    /\ ~Running(w, "idle")
    /\ Finish(w)
    /\ UNCHANGED <<store, view, history>>

-----------------------------------------------------------------------------
(* The "resume-preview" action: three separate reads.                      *)

PreviewIndex(r, s) ==
    /\ view[r].pc = "idle"
    /\ view' = [view EXCEPT ![r] = [NoView EXCEPT !.pc = "manifest", !.sid = s,
                                                  !.entry = index[s]]]
    /\ UNCHANGED <<store, job, history>>

PreviewNothing(r) ==
    /\ view[r].pc = "manifest"
    /\ file[view[r].sid]["manifest"] = Absent
    /\ view' = [view EXCEPT ![r] = [NoView EXCEPT
                    !.result = IF view[r].entry = Absent
                               THEN "session_not_found"
                               ELSE "session_record_unavailable"]]
    /\ UNCHANGED <<store, job, history>>

PreviewManifest(r) ==
    /\ view[r].pc = "manifest"
    /\ file[view[r].sid]["manifest"] # Absent
    /\ view' = [view EXCEPT ![r].pc = "runtime",
                            ![r].manifest = file[view[r].sid]["manifest"]]
    /\ UNCHANGED <<store, job, history>>

PreviewRuntime(r) ==
    /\ view[r].pc = "runtime"
    /\ view' = [view EXCEPT ![r] = [NoView EXCEPT
                    !.result = IF file[view[r].sid]["runtime"] = Absent
                               THEN "success"
                               ELSE "success_with_runtime_summary"]]
    /\ UNCHANGED <<store, job, history>>

-----------------------------------------------------------------------------
SaveStep(w) ==
    \/ \E f \in FileNames : WriteFile(w, f)
    \/ ReadIndexForSave(w)
    \/ WriteIndexForSave(w)

DeleteStep(w) ==
    \/ \E f \in FileNames : Unlink(w, f)
    \/ RemoveDir(w)
    \/ RemoveDirFails(w)
    \/ ReadIndexForDelete(w)
    \/ WriteIndexForDelete(w)
    \/ WriteReceipt(w)

ExpireStep(w) ==
    \/ \E s \in Sessions : SkipManifest(w, s) \/ ReadManifest(w, s)
    \/ MarkManifest(w)
    \/ WriteIndexForExpire(w)

PreviewStep(r) == PreviewNothing(r) \/ PreviewManifest(r) \/ PreviewRuntime(r)

(* The user gives a command. *)
Begin(w) ==
    \/ \E s \in Sessions, shape \in Shapes : BeginSave(w, s, shape)
    \/ \E s \in Sessions : BeginDelete(w, s)
    \/ \E now \in 0 .. MaxSaves : BeginExpire(w, now)

Next ==
    \/ \E w \in Writers :
        Begin(w) \/ SaveStep(w) \/ DeleteStep(w) \/ ExpireStep(w) \/ Abort(w)
    \/ \E r \in Readers :
        (\E s \in Sessions : PreviewIndex(r, s)) \/ PreviewStep(r)

Spec == Init /\ [][Next]_vars

(* A command is straight-line code that waits for nothing, so a process    *)
(* that has begun one keeps running it; what the user types is not fair.   *)
FairSpec ==
    /\ Spec
    /\ \A w \in Writers : WF_vars(SaveStep(w) \/ DeleteStep(w) \/ ExpireStep(w))
    /\ \A r \in Readers : WF_vars(PreviewStep(r))

-----------------------------------------------------------------------------
(* Properties.  When no two commands that change the store overlap all of  *)
(* them hold, whatever aborts and whatever previews run meanwhile; which   *)
(* of them two writers break is shown by the runs named store_two_*.       *)

JobPcs == {"idle", "save_files", "save_index",
           "del_files", "del_read", "del_index", "del_receipt",
           "exp_marks", "exp_write"}

Jobs == [pc : JobPcs, sid : Sessions \union {Absent}, ver : 0 .. MaxSaves,
         now : 0 .. MaxSaves, pend : SUBSET FileNames, due : SUBSET Sessions,
         snap : [Sessions -> MaybeDoc], read : MaybeDoc]

Views == [pc : {"idle", "manifest", "runtime"}, sid : Sessions \union {Absent},
          entry : MaybeDoc, manifest : MaybeDoc,
          result : {"none", "success", "success_with_runtime_summary",
                    "session_not_found", "session_record_unavailable"}]

(* What a command has before it goes on: save, delete, the marking of a    *)
(* manifest and a preview their session, a save its record, a marking the  *)
(* manifest it read.                                                       *)
CommandKnows(j) ==
    /\ j.pc \notin {"idle", "exp_marks"} => j.sid \in Sessions
    /\ j.pc \in {"save_files", "save_index"} => j.ver \in Versions
    /\ j.pc = "exp_write" => j.read # Absent

(* The type of every variable. *)
TypeOK ==
    /\ index \in [Sessions -> MaybeDoc]
    /\ dirs \in SUBSET Sessions
    /\ file \in [Sessions -> [FileNames -> MaybeDoc]]
    /\ receipts \in SUBSET Sessions
    /\ nsaves \in 0 .. MaxSaves
    /\ shapeOf \in [Versions -> SUBSET FileNames]
    /\ job \in [Writers -> {j \in Jobs : CommandKnows(j)}]
    /\ view \in [Readers -> {v \in Views : v.pc # "idle" => v.sid \in Sessions}]
    /\ kept \in [Sessions -> 0 .. MaxSaves]
    /\ begun \in [Sessions -> 0 .. MaxSaves]
    /\ gone \in SUBSET Sessions

(* README.md: a session that was explicitly saved can be listed.  Once a   *)
(* save has finished, its session stays in the index, at this record or a  *)
(* later one, until a delete of it begins; an aborted re-save, an expire   *)
(* and the saves and deletes of other sessions do not take it out.         *)
SavedIsListed ==
    \A s \in Sessions :
        kept[s] # 0 => index[s] # Absent /\ index[s].ver >= kept[s]

(* The index entry is written last: a session listed by a finished save    *)
(* has every document of its record on disk, at this record or at a later  *)
(* one whose save did not finish.                                          *)
ListedIsComplete ==
    \A s \in Sessions :
        kept[s] # 0 /\ index[s] # Absent =>
            \A f \in shapeOf[index[s].ver] :
                file[s][f] # Absent /\ file[s][f].ver >= index[s].ver

(* v0.8.4-release-note.md: deleted sessions return session_not_found.  A   *)
(* session whose delete finished has no entry and no document left, until  *)
(* a save of it begins; in particular nothing brings either of them back.  *)
DeletedIsGone ==
    \A s \in gone :
        /\ index[s] = Absent
        /\ s \notin dirs
        /\ \A f \in FileNames : file[s][f] = Absent

(* expire marks the manifests before the index, so wherever it is cut off, *)
(* no session listed as expired has a manifest of that record that still   *)
(* says resumable.                                                         *)
ExpiredInManifestFirst ==
    \A s \in Sessions :
        /\ index[s] # Absent
        /\ index[s].status = "expired"
        /\ file[s]["manifest"] # Absent
        /\ file[s]["manifest"].ver <= index[s].ver
        => file[s]["manifest"].status = "expired"

(* A preview reads the index, then the manifest, then the runtime summary, *)
(* while a command runs.  What it prints is never older than the entry it  *)
(* matched, and never calls resumable the very record the list calls       *)
(* expired.                                                                *)
PreviewIsCurrent ==
    \A r \in Readers :
        view[r].entry # Absent /\ view[r].manifest # Absent =>
            /\ view[r].manifest.ver >= view[r].entry.ver
            /\ view[r].entry.status = "expired"
               /\ view[r].manifest.ver = view[r].entry.ver
               => view[r].manifest.status = "expired"

(* A deletion receipt is written only when the session is off the list and *)
(* its directory removed, not while either is still to be done.            *)
ReceiptAfterRemoval ==
    [][\A s \in receipts' \ receipts : index[s] = Absent /\ s \notin dirs]_vars

(* No command changes what the list says of a session it was not given,    *)
(* and expire lists no session that was off the list: an entry appears or  *)
(* gets a new record only by the save of that session, and disappears only *)
(* by its delete.                                                          *)
EntriesChangeByOwnCommand ==
    [][\A s \in Sessions :
        /\ (index[s] = Absent /\ index'[s] # Absent)
              => \E w \in Writers : Saving(w, s)
        /\ (index[s] # Absent /\ index'[s] = Absent)
              => \E w \in Writers : Deleting(w, s)
        /\ (index[s] # Absent /\ index'[s] # Absent
              /\ index[s].status = "expired" /\ index'[s].status = "resumable")
              => \E w \in Writers : Saving(w, s)]_vars

(* No command waits for another: every command that begins ends.           *)
EveryCommandEnds ==
    /\ \A w \in Writers : job[w].pc # "idle" ~> job[w].pc = "idle"
    /\ \A r \in Readers : view[r].pc # "idle" ~> view[r].pc = "idle"

(* The index alone, abstractly: a map in which every command takes effect  *)
(* at one instant, the replacement of index.json.                          *)
Catalog == INSTANCE SessionCatalog WITH catalog <- index, issued <- nsaves

(* Commands that do not overlap implement it, aborts included: a command   *)
(* that is cut off has changed the list completely or not at all.          *)
ImplementsCatalog == Catalog!Spec

(* The commands that change the store do not overlap, whichever processes  *)
(* run them.                                                               *)
NoOverlap ==
    \A u, w \in Writers : job[u].pc # "idle" /\ job[w].pc # "idle" => u = w

-----------------------------------------------------------------------------
(* Why they hold: the inductive invariant of commands that do not overlap. *)

(* What a command read from the index is what it still says. *)
SnapIsCurrent(w) ==
    job[w].pc \in {"save_index", "del_index", "exp_marks", "exp_write"}
        => job[w].snap = index

(* Records are numbered as their saves began, and only the last can be     *)
(* unfinished.                                                             *)
Numbering ==
    \A s \in Sessions :
        /\ index[s] # Absent => index[s].ver <= nsaves
        /\ \A f \in FileNames : file[s][f] # Absent => file[s][f].ver <= nsaves

SaveIsNewest(w) ==
    job[w].pc \in {"save_files", "save_index"} =>
        /\ job[w].ver = nsaves
        /\ \A s \in Sessions : index[s] # Absent => index[s].ver < nsaves

SaveProgress(w) ==
    job[w].pc \in {"save_files", "save_index"} =>
        /\ job[w].sid \notin gone
        /\ "manifest" \in shapeOf[job[w].ver]
        /\ job[w].pc = "save_index" => job[w].pend = {}
        /\ \A f \in shapeOf[job[w].ver] \ job[w].pend :
             /\ file[job[w].sid][f] # Absent
             /\ file[job[w].sid][f].ver = job[w].ver

DeleteProgress(w) ==
    /\ job[w].pc \in {"del_files", "del_read", "del_index", "del_receipt"} =>
        kept[job[w].sid] = 0
    /\ job[w].pc \in {"del_read", "del_index", "del_receipt"} =>
        /\ job[w].sid \notin dirs
        /\ \A f \in FileNames : file[job[w].sid][f] = Absent
    /\ job[w].pc = "del_receipt" => index[job[w].sid] = Absent

(* A due session that is done with has no manifest left that is of this    *)
(* record, or an older one, and says resumable.                            *)
ExpireProgress(w) ==
    job[w].pc \in {"exp_marks", "exp_write"} =>
        /\ job[w].due \subseteq Due(index, job[w].now)
        /\ \A s \in Due(index, job[w].now) \ job[w].due :
            file[s]["manifest"] # Absent =>
                \/ file[s]["manifest"].ver > index[s].ver
                \/ file[s]["manifest"].status = "expired"
        /\ job[w].pc = "exp_write" =>
            /\ job[w].sid \in job[w].due
            /\ job[w].read = file[job[w].sid]["manifest"]

WriterInv ==
    \A w \in Writers :
        /\ SnapIsCurrent(w)
        /\ SaveIsNewest(w)
        /\ SaveProgress(w)
        /\ DeleteProgress(w)
        /\ ExpireProgress(w)

DirsHoldFiles ==
    \A s \in Sessions \ dirs : \A f \in FileNames : file[s][f] = Absent

ManifestIsNewest ==
    \A s \in Sessions : index[s] # Absent /\ file[s]["manifest"] # Absent
                        => file[s]["manifest"].ver >= index[s].ver

StoreInv ==
    /\ WriterInv
    /\ Numbering
    /\ DirsHoldFiles
    /\ ManifestIsNewest
    /\ SavedIsListed
    /\ ListedIsComplete
    /\ DeletedIsGone
    /\ ExpiredInManifestFirst

(* A preview that has read the index only. *)
ViewInv ==
    /\ \A r \in Readers : view[r].pc = "manifest" =>
        /\ view[r].manifest = Absent
        /\ view[r].entry # Absent =>
            /\ view[r].entry.ver <= nsaves
            /\ \A w \in Writers : job[w].pc \in {"save_files", "save_index"}
                                  => view[r].entry.ver < nsaves
            /\ LET manifest == file[view[r].sid]["manifest"] IN
               manifest # Absent =>
                 /\ manifest.ver >= view[r].entry.ver
                 /\ view[r].entry.status = "expired"
                    /\ manifest.ver = view[r].entry.ver
                    => manifest.status = "expired"
    /\ PreviewIsCurrent

=============================================================================
