------------------------- MODULE SessionStoreProofs -------------------------
(* Proofs about SessionStore, for every set of sessions, turn documents    *)
(* and readers, every set of record shapes and every number of saves: the  *)
(* types, and what holds of any number of commands that overlap.           *)
EXTENDS SessionStore, TLAPS

LEMMA Constants ==
    /\ MaxSaves \in Nat
    /\ Absent \notin Docs
    /\ Absent \in MaybeDoc
    /\ \A d \in MaybeDoc : d # Absent => /\ d \in Docs
                                         /\ d.ver \in Versions
                                         /\ d.status \in {"resumable", "expired"}
    /\ \A v \in Versions : /\ v \in Nat \ {0}
                           /\ v <= MaxSaves
                           /\ v \in 0 .. MaxSaves
                           /\ [ver |-> v, status |-> "resumable"] \in Docs
                           /\ [ver |-> v, status |-> "expired"] \in Docs
    /\ "manifest" \in FileNames /\ "runtime" \in FileNames
    /\ \A shape \in Shapes : shape \in SUBSET FileNames /\ "manifest" \in shape
  BY MaxSavesAssumption, AbsentAssumption, ShapesAssumption
     DEF MaybeDoc, Docs, Versions, FileNames

JobStates == {j \in Jobs : CommandKnows(j)}

LEMMA IdleType ==
    /\ Idle \in JobStates
    /\ NoView \in {v \in Views : v.pc # "idle" => v.sid \in Sessions}
  BY Constants DEF Idle, Jobs, JobPcs, JobStates, CommandKnows, NoView, Views

LEMMA ExpiredType ==
    ASSUME NEW idx \in [Sessions -> MaybeDoc], NEW now \in 0 .. MaxSaves
    PROVE  /\ Expired(idx, now) \in [Sessions -> MaybeDoc]
           /\ Due(idx, now) \in SUBSET Sessions
           /\ \A s \in Sessions :
                /\ Expired(idx, now)[s] = Absent <=> idx[s] = Absent
                /\ idx[s] # Absent => Expired(idx, now)[s].ver = idx[s].ver
                /\ s \notin Due(idx, now) => Expired(idx, now)[s] = idx[s]
                /\ s \in Due(idx, now) => idx[s] # Absent
<1>1. ASSUME NEW s \in Sessions, s \in Due(idx, now)
      PROVE  /\ idx[s] # Absent
             /\ [ver |-> idx[s].ver, status |-> "expired"] \in Docs
  BY <1>1, Constants DEF Due
<1> QED
  BY <1>1, Constants DEF Expired, Due, MaybeDoc

-----------------------------------------------------------------------------
(* The record of a process. *)
LEMMA JobType ==
    ASSUME TypeOK, NEW w \in Writers
    PROVE  /\ job[w] \in JobStates
           /\ job[w] \in Jobs
           /\ job[w].pc \in JobPcs
           /\ job[w].sid \in Sessions \union {Absent}
           /\ job[w].ver \in 0 .. MaxSaves
           /\ job[w].now \in 0 .. MaxSaves
           /\ job[w].pend \in SUBSET FileNames
           /\ job[w].due \in SUBSET Sessions
           /\ job[w].snap \in [Sessions -> MaybeDoc]
           /\ job[w].read \in MaybeDoc
           /\ job[w].pc \notin {"idle", "exp_marks"} => job[w].sid \in Sessions
           /\ job[w].pc \in {"save_files", "save_index"} => job[w].ver \in Versions
           /\ job[w].pc = "exp_write" => job[w].read # Absent
<1>1. job[w] \in JobStates
  BY DEF TypeOK, JobStates
<1>2. job[w] \in Jobs /\ CommandKnows(job[w])
  BY <1>1 DEF JobStates
<1> QED
  BY <1>1, <1>2 DEF Jobs, CommandKnows

(* A step that leaves the types of the other variables alone. *)
LEMMA JobChange ==
    ASSUME TypeOK, NEW w \in Writers, NEW j \in JobStates,
           job' = [job EXCEPT ![w] = j]
    PROVE  job' \in [Writers -> {k \in Jobs : CommandKnows(k)}]
  BY DEF TypeOK, JobStates

LEMMA FileChange ==
    ASSUME TypeOK, NEW s \in Sessions, NEW f \in FileNames, NEW d \in MaybeDoc,
           file' = [file EXCEPT ![s][f] = d]
    PROVE  file' \in [Sessions -> [FileNames -> MaybeDoc]]
  BY DEF TypeOK

-----------------------------------------------------------------------------
LEMMA TypeInit == Init => TypeOK
  BY Constants, IdleType DEF Init, TypeOK, JobStates

LEMMA BeginSaveType ==
    ASSUME TypeOK, NEW w \in Writers, NEW s \in Sessions, NEW shape \in Shapes,
           BeginSave(w, s, shape)
    PROVE  TypeOK'
<1>1. nsaves + 1 \in Versions /\ nsaves + 1 \in 0 .. MaxSaves
  BY MaxSavesAssumption DEF BeginSave, Versions, TypeOK
<1>2. [Idle EXCEPT !.pc = "save_files", !.sid = s, !.ver = nsaves + 1,
                   !.pend = shape] \in JobStates
  BY <1>1, IdleType, Constants DEF JobStates, CommandKnows, Jobs, JobPcs
<1>3. job' \in [Writers -> {k \in Jobs : CommandKnows(k)}]
  BY <1>2, JobChange DEF BeginSave
<1>4. /\ shapeOf' \in [Versions -> SUBSET FileNames]
      /\ begun' \in [Sessions -> 0 .. MaxSaves]
      /\ nsaves' \in 0 .. MaxSaves
  BY <1>1, Constants DEF BeginSave, TypeOK
<1> QED
  BY <1>3, <1>4 DEF BeginSave, TypeOK

LEMMA WriteFileType ==
    ASSUME TypeOK, NEW w \in Writers, NEW f \in FileNames, WriteFile(w, f)
    PROVE  TypeOK'
<1>1. [job[w] EXCEPT !.pend = @ \ {f}] \in JobStates
  BY JobType DEF WriteFile, Running, JobStates, CommandKnows, Jobs
<1>2. job' \in [Writers -> {k \in Jobs : CommandKnows(k)}]
  BY <1>1, JobChange DEF WriteFile
<1>3. file' \in [Sessions -> [FileNames -> MaybeDoc]]
  BY JobType, FileChange, Constants DEF WriteFile, Running, MaybeDoc
<1>4. dirs' \in SUBSET Sessions
  BY JobType DEF WriteFile, Running, TypeOK
<1> QED
  BY <1>2, <1>3, <1>4 DEF WriteFile, TypeOK, history

LEMMA ReadIndexForSaveType ==
    ASSUME TypeOK, NEW w \in Writers, ReadIndexForSave(w)
    PROVE  TypeOK'
<1> DEFINE j == [job[w] EXCEPT !.pc = "save_index", !.snap = index]
<1>1. job' = [job EXCEPT ![w] = j]
  BY DEF ReadIndexForSave
<1>2. /\ j \in Jobs
      /\ j.pc = "save_index" /\ j.sid = job[w].sid /\ j.ver = job[w].ver
  <2>1. index \in [Sessions -> MaybeDoc]
    BY DEF TypeOK
  <2> QED
    BY <2>1, JobType DEF Jobs, JobPcs
<1>3. j.sid \in Sessions /\ j.ver \in Versions
  BY <1>2, JobType DEF ReadIndexForSave, Running
<1> HIDE DEF j
<1>4. j \in JobStates
  BY <1>2, <1>3 DEF JobStates, CommandKnows
<1>5. job' \in [Writers -> {k \in Jobs : CommandKnows(k)}]
  BY <1>1, <1>4, JobChange
<1> QED
  BY <1>5 DEF ReadIndexForSave, TypeOK, store, history

LEMMA WriteIndexForSaveType ==
    ASSUME TypeOK, NEW w \in Writers, WriteIndexForSave(w)
    PROVE  TypeOK'
<1>1. job' \in [Writers -> {k \in Jobs : CommandKnows(k)}]
  BY IdleType, JobChange DEF WriteIndexForSave, Finish
<1>2. index' \in [Sessions -> MaybeDoc]
  BY JobType, Constants DEF WriteIndexForSave, Running, MaybeDoc
<1>3. kept' \in [Sessions -> 0 .. MaxSaves]
  BY JobType DEF WriteIndexForSave, TypeOK
<1> QED
  BY <1>1, <1>2, <1>3 DEF WriteIndexForSave, TypeOK

LEMMA BeginDeleteType ==
    ASSUME TypeOK, NEW w \in Writers, NEW s \in Sessions, BeginDelete(w, s)
    PROVE  TypeOK'
<1> DEFINE pc0 == IF s \in dirs THEN "del_files" ELSE "del_read"
           ver0 == IF \E u \in Writers : Saving(u, s) THEN 0 ELSE nsaves
           pend0 == {f \in FileNames : file[s][f] # Absent}
<1>1. pc0 \in {"del_files", "del_read"} /\ ver0 \in 0 .. MaxSaves
      /\ pend0 \in SUBSET FileNames
  BY MaxSavesAssumption DEF TypeOK
<1>2. [Idle EXCEPT !.pc = pc0, !.sid = s, !.ver = ver0, !.pend = pend0] \in JobStates
  <2> HIDE DEF pc0, ver0, pend0
  <2> QED
    BY <1>1, IdleType DEF JobStates, CommandKnows, Jobs, JobPcs
<1>3. job' \in [Writers -> {k \in Jobs : CommandKnows(k)}]
  BY <1>2, JobChange DEF BeginDelete
<1>4. kept' \in [Sessions -> 0 .. MaxSaves]
  BY MaxSavesAssumption DEF BeginDelete, TypeOK
<1> QED
  BY <1>3, <1>4 DEF BeginDelete, TypeOK, store

LEMMA UnlinkType ==
    ASSUME TypeOK, NEW w \in Writers, NEW f \in FileNames, Unlink(w, f)
    PROVE  TypeOK'
<1>1. [job[w] EXCEPT !.pend = @ \ {f}] \in JobStates
  BY JobType DEF Unlink, Running, JobStates, CommandKnows, Jobs
<1>2. job' \in [Writers -> {k \in Jobs : CommandKnows(k)}]
  BY <1>1, JobChange DEF Unlink
<1>3. file' \in [Sessions -> [FileNames -> MaybeDoc]]
  BY JobType, FileChange, Constants DEF Unlink, Running
<1> QED
  BY <1>2, <1>3 DEF Unlink, TypeOK, history

LEMMA RemoveDirType ==
    ASSUME TypeOK, NEW w \in Writers, RemoveDir(w)
    PROVE  TypeOK'
<1>1. [job[w] EXCEPT !.pc = "del_read"] \in JobStates
  BY JobType DEF RemoveDir, Running, JobStates, CommandKnows, Jobs, JobPcs
<1>2. job' \in [Writers -> {k \in Jobs : CommandKnows(k)}]
  BY <1>1, JobChange DEF RemoveDir
<1> QED
  BY <1>2 DEF RemoveDir, TypeOK, history

LEMMA ReadIndexForDeleteType ==
    ASSUME TypeOK, NEW w \in Writers, ReadIndexForDelete(w)
    PROVE  TypeOK'
<1> DEFINE j == [job[w] EXCEPT !.pc = "del_index", !.snap = index]
<1>1. job' = [job EXCEPT ![w] = j]
  BY DEF ReadIndexForDelete
<1>2. /\ j \in Jobs
      /\ j.pc = "del_index" /\ j.sid = job[w].sid /\ j.ver = job[w].ver
  <2>1. index \in [Sessions -> MaybeDoc]
    BY DEF TypeOK
  <2> QED
    BY <2>1, JobType DEF Jobs, JobPcs
<1>3. j.sid \in Sessions
  BY <1>2, JobType DEF ReadIndexForDelete, Running
<1> HIDE DEF j
<1>4. j \in JobStates
  BY <1>2, <1>3 DEF JobStates, CommandKnows
<1>5. job' \in [Writers -> {k \in Jobs : CommandKnows(k)}]
  BY <1>1, <1>4, JobChange
<1> QED
  BY <1>5 DEF ReadIndexForDelete, TypeOK, store, history

LEMMA WriteIndexForDeleteType ==
    ASSUME TypeOK, NEW w \in Writers, WriteIndexForDelete(w)
    PROVE  TypeOK'
<1>1. [job[w] EXCEPT !.pc = "del_receipt"] \in JobStates
  BY JobType DEF WriteIndexForDelete, Running, JobStates, CommandKnows, Jobs, JobPcs
<1>2. job' \in [Writers -> {k \in Jobs : CommandKnows(k)}]
  BY <1>1, JobChange DEF WriteIndexForDelete
<1>3. index' \in [Sessions -> MaybeDoc]
  BY JobType, Constants DEF WriteIndexForDelete
<1> QED
  BY <1>2, <1>3 DEF WriteIndexForDelete, TypeOK, history

LEMMA WriteReceiptType ==
    ASSUME TypeOK, NEW w \in Writers, WriteReceipt(w)
    PROVE  TypeOK'
<1>1. job' \in [Writers -> {k \in Jobs : CommandKnows(k)}]
  BY IdleType, JobChange DEF WriteReceipt, Finish
<1>2. receipts' \in SUBSET Sessions /\ gone' \in SUBSET Sessions
  BY JobType DEF WriteReceipt, Running, TypeOK
<1> QED
  BY <1>1, <1>2 DEF WriteReceipt, TypeOK

LEMMA BeginExpireType ==
    ASSUME TypeOK, NEW w \in Writers, NEW now \in 0 .. MaxSaves, BeginExpire(w, now)
    PROVE  TypeOK'
<1>1. Due(index, now) \in SUBSET Sessions /\ index \in [Sessions -> MaybeDoc]
  BY DEF TypeOK, Due
<1>2. [Idle EXCEPT !.pc = "exp_marks", !.now = now, !.due = Due(index, now),
                   !.snap = index] \in JobStates
  BY <1>1, IdleType DEF JobStates, CommandKnows, Jobs, JobPcs
<1>3. job' \in [Writers -> {k \in Jobs : CommandKnows(k)}]
  BY <1>2, JobChange DEF BeginExpire
<1> QED
  BY <1>3 DEF BeginExpire, TypeOK, store, history

LEMMA SkipManifestType ==
    ASSUME TypeOK, NEW w \in Writers, NEW s \in Sessions, SkipManifest(w, s)
    PROVE  TypeOK'
<1>1. [job[w] EXCEPT !.due = @ \ {s}] \in JobStates
  BY JobType DEF SkipManifest, Running, JobStates, CommandKnows, Jobs
<1>2. job' \in [Writers -> {k \in Jobs : CommandKnows(k)}]
  BY <1>1, JobChange DEF SkipManifest
<1> QED
  BY <1>2 DEF SkipManifest, TypeOK, store, history

LEMMA ReadManifestType ==
    ASSUME TypeOK, NEW w \in Writers, NEW s \in Sessions, ReadManifest(w, s)
    PROVE  TypeOK'
<1>1. file[s]["manifest"] \in MaybeDoc /\ file[s]["manifest"] # Absent
  BY Constants DEF ReadManifest, TypeOK
<1>2. [job[w] EXCEPT !.pc = "exp_write", !.sid = s, !.read = file[s]["manifest"]]
        \in JobStates
  <2> DEFINE j == [job[w] EXCEPT !.pc = "exp_write", !.sid = s,
                                 !.read = file[s]["manifest"]]
  <2>1. /\ j \in Jobs
        /\ j.pc = "exp_write" /\ j.sid = s /\ j.read = file[s]["manifest"]
    BY <1>1, JobType DEF Jobs, JobPcs
  <2> HIDE DEF j
  <2>2. j \in JobStates
    BY <1>1, <2>1 DEF JobStates, CommandKnows
  <2> QED
    BY <2>2 DEF j
<1>3. job' = [job EXCEPT ![w] =
                [job[w] EXCEPT !.pc = "exp_write", !.sid = s,
                               !.read = file[s]["manifest"]]]
  BY DEF ReadManifest
<1>4. job' \in [Writers -> {k \in Jobs : CommandKnows(k)}]
  BY <1>2, <1>3, JobChange
<1> QED
  BY <1>4 DEF ReadManifest, TypeOK, store, history

LEMMA MarkManifestType ==
    ASSUME TypeOK, NEW w \in Writers, MarkManifest(w)
    PROVE  TypeOK'
<1>1. [job[w] EXCEPT !.pc = "exp_marks", !.sid = Absent, !.read = Absent,
                     !.due = @ \ {job[w].sid}] \in JobStates
  <2> DEFINE j == [job[w] EXCEPT !.pc = "exp_marks", !.sid = Absent,
                                 !.read = Absent, !.due = @ \ {job[w].sid}]
  <2>1. j \in Jobs
    <3>1. /\ job[w] \in Jobs
          /\ Absent \in MaybeDoc
          /\ job[w].due \ {job[w].sid} \in SUBSET Sessions
      BY JobType, Constants
    <3> QED
      BY <3>1 DEF Jobs, JobPcs
  <2>2. j.pc = "exp_marks"
    BY JobType DEF Jobs
  <2> QED
    BY <2>1, <2>2 DEF JobStates, CommandKnows
<1>2. job' = [job EXCEPT ![w] =
                [job[w] EXCEPT !.pc = "exp_marks", !.sid = Absent, !.read = Absent,
                               !.due = @ \ {job[w].sid}]]
  BY DEF MarkManifest
<1>3. job' \in [Writers -> {k \in Jobs : CommandKnows(k)}]
  BY <1>1, <1>2, JobChange
<1>4. file' \in [Sessions -> [FileNames -> MaybeDoc]]
  BY JobType, FileChange, Constants DEF MarkManifest, Running, MaybeDoc
<1>5. dirs' \in SUBSET Sessions
  BY JobType DEF MarkManifest, Running, TypeOK
<1> QED
  BY <1>3, <1>4, <1>5 DEF MarkManifest, TypeOK, history

LEMMA WriteIndexForExpireType ==
    ASSUME TypeOK, NEW w \in Writers, WriteIndexForExpire(w)
    PROVE  TypeOK'
<1>1. job' \in [Writers -> {k \in Jobs : CommandKnows(k)}]
  BY IdleType, JobChange DEF WriteIndexForExpire, Finish
<1>2. index' \in [Sessions -> MaybeDoc]
  BY JobType, ExpiredType DEF WriteIndexForExpire
<1> QED
  BY <1>1, <1>2 DEF WriteIndexForExpire, TypeOK, history

(* RemoveDirFails and Abort: the process ends, nothing else happens. *)
LEMMA EndType ==
    ASSUME TypeOK, NEW w \in Writers, Finish(w), UNCHANGED <<store, view, history>>
    PROVE  TypeOK'
<1>1. job' \in [Writers -> {k \in Jobs : CommandKnows(k)}]
  BY IdleType, JobChange DEF Finish
<1> QED
  BY <1>1 DEF TypeOK, store, history

LEMMA PreviewType ==
    ASSUME TypeOK, NEW r \in Readers,
           (\E s \in Sessions : PreviewIndex(r, s)) \/ PreviewStep(r)
    PROVE  TypeOK'
<1> DEFINE ViewStates == {v \in Views : v.pc # "idle" => v.sid \in Sessions}
<1>1. view[r] \in ViewStates /\ UNCHANGED <<store, job, history>>
  BY DEF TypeOK, PreviewIndex, PreviewStep, PreviewNothing, PreviewManifest, PreviewRuntime
<1>2. \E v \in ViewStates : view' = [view EXCEPT ![r] = v]
  <2>1. ASSUME NEW s \in Sessions, PreviewIndex(r, s)
        PROVE  view' = [view EXCEPT ![r] = [NoView EXCEPT !.pc = "manifest", !.sid = s,
                                                          !.entry = index[s]]]
               /\ [NoView EXCEPT !.pc = "manifest", !.sid = s, !.entry = index[s]]
                     \in ViewStates
    BY <2>1, IdleType, Constants DEF PreviewIndex, Views, TypeOK
  <2>2. \A x \in {"success", "success_with_runtime_summary", "session_not_found",
                  "session_record_unavailable"} :
            [NoView EXCEPT !.result = x] \in ViewStates
    BY IdleType DEF Views, NoView
  <2>3. CASE PreviewManifest(r)
    <3>1. view[r].sid \in Sessions
      BY <1>1, <2>3 DEF PreviewManifest
    <3>2. file[view[r].sid]["manifest"] \in MaybeDoc
      BY <3>1, Constants DEF TypeOK
    <3>3. [view[r] EXCEPT !.pc = "runtime", !.manifest = file[view[r].sid]["manifest"]]
            \in ViewStates
      BY <1>1, <3>1, <3>2 DEF Views
    <3> QED
      BY <2>3, <3>3 DEF PreviewManifest
  <2>4. CASE PreviewNothing(r)
    BY <2>2, <2>4 DEF PreviewNothing
  <2>5. CASE PreviewRuntime(r)
    BY <2>2, <2>5 DEF PreviewRuntime
  <2> QED
    BY <2>1, <2>3, <2>4, <2>5 DEF PreviewStep
<1>3. view' \in [Readers -> ViewStates]
  BY <1>2 DEF TypeOK
<1> QED
  BY <1>1, <1>3 DEF TypeOK, store, history

LEMMA TypeStep == TypeOK /\ [Next]_vars => TypeOK'
<1> SUFFICES ASSUME TypeOK, [Next]_vars PROVE TypeOK'
  OBVIOUS
<1>1. ASSUME NEW w \in Writers, Begin(w) PROVE TypeOK'
  BY <1>1, BeginSaveType, BeginDeleteType, BeginExpireType DEF Begin
<1>2. ASSUME NEW w \in Writers, SaveStep(w) PROVE TypeOK'
  BY <1>2, WriteFileType, ReadIndexForSaveType, WriteIndexForSaveType DEF SaveStep
<1>3. ASSUME NEW w \in Writers, DeleteStep(w) PROVE TypeOK'
  BY <1>3, UnlinkType, RemoveDirType, EndType, ReadIndexForDeleteType,
     WriteIndexForDeleteType, WriteReceiptType DEF DeleteStep, RemoveDirFails
<1>4. ASSUME NEW w \in Writers, ExpireStep(w) PROVE TypeOK'
  BY <1>4, SkipManifestType, ReadManifestType, MarkManifestType,
     WriteIndexForExpireType DEF ExpireStep
<1>5. ASSUME NEW w \in Writers, Abort(w) PROVE TypeOK'
  BY <1>5, EndType DEF Abort
<1>6. ASSUME NEW r \in Readers,
             (\E s \in Sessions : PreviewIndex(r, s)) \/ PreviewStep(r)
      PROVE  TypeOK'
  BY <1>6, PreviewType
<1>7. CASE UNCHANGED vars
  BY <1>7 DEF vars, store, history, TypeOK
<1> QED
  BY <1>1, <1>2, <1>3, <1>4, <1>5, <1>6, <1>7 DEF Next

(* The types hold whatever the number of writers and however their         *)
(* commands interleave: no command goes on without the session, record or  *)
(* manifest that it works on.                                              *)
THEOREM Typing == Spec => []TypeOK
BY TypeInit, TypeStep, PTL DEF Spec

-----------------------------------------------------------------------------
(* What remains when commands overlap, with any number of writers.  A      *)
(* record, the work of one save, is known by its number: here is every     *)
(* place that the record numbered v of session s can be in, on the disk,   *)
(* in a command's hands or in a preview's.                                 *)
IsOf(d, v) == d # Absent /\ d.ver = v

JobHolds(j, s, v) ==
    \/ j.pc \in {"save_files", "save_index"} /\ j.sid = s /\ j.ver = v
    \/ IsOf(j.snap[s], v)
    \/ j.pc = "exp_write" /\ j.sid = s /\ IsOf(j.read, v)

ViewHolds(x, s, v) == x.sid = s /\ (IsOf(x.entry, v) \/ IsOf(x.manifest, v))

Holds(s, v) ==
    \/ IsOf(index[s], v)
    \/ \E f \in FileNames : IsOf(file[s][f], v)
    \/ \E w \in Writers : JobHolds(job[w], s, v)
    \/ \E r \in Readers : ViewHolds(view[r], s, v)

(* However commands overlap: no record is ever held for two sessions, a    *)
(* document on disk is one that its record has, and it is in a directory.  *)
RecordsStayApart ==
    /\ \A s, t \in Sessions, v \in Versions : Holds(s, v) /\ Holds(t, v) => s = t
    /\ \A s \in Sessions, f \in FileNames :
         file[s][f] # Absent => f \in shapeOf[file[s][f].ver] /\ s \in dirs

(* A command writes documents of its own record only. *)
WritesOwn(j) ==
    /\ j.pc \in {"save_files", "save_index"} => j.pend \subseteq shapeOf[j.ver]
    /\ j.pc = "exp_write" => "manifest" \in shapeOf[j.read.ver]

ApartInv ==
    /\ RecordsStayApart
    /\ \A s \in Sessions, v \in Versions : Holds(s, v) => v <= nsaves
    /\ \A w \in Writers : WritesOwn(job[w])

LEMMA WriterKeeps ==
    ASSUME TypeOK, NEW w \in Writers, NEW j, job' = [job EXCEPT ![w] = j],
           UNCHANGED view, NEW s \in Sessions, NEW v \in Versions,
           JobHolds(j, s, v) => Holds(s, v),
           IsOf(index'[s], v) => Holds(s, v),
           \A f \in FileNames : IsOf(file'[s][f], v) => Holds(s, v)
    PROVE  Holds(s, v)' => Holds(s, v)
<1>1. \A u \in Writers : job'[u] = IF u = w THEN j ELSE job[u]
  BY DEF TypeOK
<1>2. ASSUME NEW u \in Writers, JobHolds(job'[u], s, v) PROVE Holds(s, v)
  BY <1>1, <1>2 DEF Holds
<1>3. ASSUME NEW r \in Readers, ViewHolds(view'[r], s, v) PROVE Holds(s, v)
  BY <1>3 DEF Holds
<1> QED
  BY <1>2, <1>3 DEF Holds

(* Finish(w): a process that exits holds nothing. *)
LEMMA IdleHoldsNothing == \A s \in Sessions, v \in Versions : ~JobHolds(Idle, s, v)
  BY DEF Idle, JobHolds, IsOf

LEMMA SaveKeeps ==
    ASSUME TypeOK, NEW w \in Writers, SaveStep(w), NEW s \in Sessions, NEW v \in Versions
    PROVE  Holds(s, v)' => Holds(s, v)
<1>0. JobHolds(job[w], s, v) => Holds(s, v)
  BY DEF Holds
<1>1. ASSUME NEW f \in FileNames, WriteFile(w, f) PROVE Holds(s, v)' => Holds(s, v)
  <2> DEFINE j == [job[w] EXCEPT !.pend = @ \ {f}]
  <2>1. /\ job' = [job EXCEPT ![w] = j] /\ UNCHANGED <<view, index>>
        /\ job[w].pc = "save_files" /\ job[w].sid \in Sessions
    BY <1>1, JobType DEF WriteFile, Running
  <2>2. JobHolds(j, s, v) => JobHolds(job[w], s, v)
    BY JobType DEF JobHolds, Jobs
  <2>3. ASSUME NEW g \in FileNames, IsOf(file'[s][g], v) PROVE Holds(s, v)
    <3>1. file'[s][g] = IF s = job[w].sid /\ g = f
                        THEN [ver |-> job[w].ver, status |-> "resumable"]
                        ELSE file[s][g]
      BY <1>1, <2>1 DEF WriteFile, TypeOK
    <3>2. CASE s = job[w].sid /\ g = f
      BY <1>0, <2>1, <2>3, <3>1, <3>2 DEF JobHolds, IsOf
    <3>3. CASE ~(s = job[w].sid /\ g = f)
      BY <2>3, <3>1, <3>3 DEF Holds
    <3> QED
      BY <3>2, <3>3
  <2>4. IsOf(index'[s], v) => Holds(s, v)
    BY <2>1 DEF Holds
  <2> HIDE DEF j
  <2> QED
    BY <1>0, <2>1, <2>2, <2>3, <2>4, WriterKeeps
<1>2. CASE ReadIndexForSave(w)
  <2> DEFINE j == [job[w] EXCEPT !.pc = "save_index", !.snap = index]
  <2>1. job' = [job EXCEPT ![w] = j]
    BY <1>2 DEF ReadIndexForSave
  <2>2. UNCHANGED <<view, index, file>> /\ job[w].pc = "save_files"
    BY <1>2 DEF ReadIndexForSave, Running, store
  <2>3. /\ j.pc = "save_index" /\ j.sid = job[w].sid /\ j.ver = job[w].ver
        /\ j.snap = index
    BY JobType DEF Jobs
  <2> HIDE DEF j
  <2>4. JobHolds(j, s, v) => Holds(s, v)
    BY <1>0, <2>2, <2>3 DEF JobHolds, Holds
  <2> QED
    BY <2>1, <2>2, <2>4, WriterKeeps DEF Holds
<1>3. CASE WriteIndexForSave(w)
  <2>1. /\ job' = [job EXCEPT ![w] = Idle] /\ UNCHANGED <<view, file>>
        /\ job[w].pc = "save_index" /\ job[w].sid \in Sessions
        /\ job[w].snap \in [Sessions -> MaybeDoc]
        /\ index' = [job[w].snap EXCEPT ![job[w].sid] =
                       [ver |-> job[w].ver, status |-> "resumable"]]
    BY <1>3, JobType DEF WriteIndexForSave, Running, Finish
  <2>2. IsOf(index'[s], v) => JobHolds(job[w], s, v)
    BY <2>1 DEF IsOf, JobHolds
  <2> QED
    BY <1>0, <2>1, <2>2, WriterKeeps, IdleHoldsNothing DEF Holds
<1> QED
  BY <1>1, <1>2, <1>3 DEF SaveStep

LEMMA EndKeeps ==
    ASSUME TypeOK, NEW w \in Writers, Finish(w), UNCHANGED <<index, file, view>>,
           NEW s \in Sessions, NEW v \in Versions
    PROVE  Holds(s, v)' => Holds(s, v)
  BY WriterKeeps, IdleHoldsNothing DEF Finish, Holds

LEMMA DeleteKeeps ==
    ASSUME TypeOK, NEW w \in Writers, DeleteStep(w), NEW s \in Sessions, NEW v \in Versions
    PROVE  Holds(s, v)' => Holds(s, v)
<1>0. JobHolds(job[w], s, v) => Holds(s, v)
  BY DEF Holds
<1>1. ASSUME NEW f \in FileNames, Unlink(w, f) PROVE Holds(s, v)' => Holds(s, v)
  <2> DEFINE j == [job[w] EXCEPT !.pend = @ \ {f}]
  <2>1. /\ job' = [job EXCEPT ![w] = j] /\ UNCHANGED <<view, index>>
        /\ job[w].sid \in Sessions
    BY <1>1, JobType DEF Unlink, Running
  <2>2. JobHolds(j, s, v) => JobHolds(job[w], s, v)
    BY JobType DEF JobHolds, Jobs
  <2>3. \A g \in FileNames : IsOf(file'[s][g], v) => IsOf(file[s][g], v)
    BY <1>1, <2>1 DEF Unlink, TypeOK, IsOf
  <2> HIDE DEF j
  <2> QED
    BY <1>0, <2>1, <2>2, <2>3, WriterKeeps DEF Holds
<1>2. CASE RemoveDir(w)
  <2> DEFINE j == [job[w] EXCEPT !.pc = "del_read"]
  <2>1. job' = [job EXCEPT ![w] = j] /\ UNCHANGED <<view, index, file>>
    BY <1>2 DEF RemoveDir
  <2>2. JobHolds(j, s, v) => JobHolds(job[w], s, v)
    BY JobType DEF JobHolds, Jobs
  <2> HIDE DEF j
  <2> QED
    BY <1>0, <2>1, <2>2, WriterKeeps DEF Holds
<1>3. CASE ReadIndexForDelete(w)
  <2> DEFINE j == [job[w] EXCEPT !.pc = "del_index", !.snap = index]
  <2>1. job' = [job EXCEPT ![w] = j]
    BY <1>3 DEF ReadIndexForDelete
  <2>2. UNCHANGED <<view, index, file>>
    BY <1>3 DEF ReadIndexForDelete, store
  <2>3. j.pc = "del_index" /\ j.snap = index
    BY JobType DEF Jobs
  <2> HIDE DEF j
  <2>4. JobHolds(j, s, v) => Holds(s, v)
    BY <2>3 DEF JobHolds, Holds
  <2> QED
    BY <2>1, <2>2, <2>4, WriterKeeps DEF Holds
<1>4. CASE WriteIndexForDelete(w)
  <2> DEFINE j == [job[w] EXCEPT !.pc = "del_receipt"]
  <2>1. /\ job' = [job EXCEPT ![w] = j] /\ UNCHANGED <<view, file>>
        /\ job[w].sid \in Sessions /\ job[w].snap \in [Sessions -> MaybeDoc]
        /\ index' = [job[w].snap EXCEPT ![job[w].sid] = Absent]
    BY <1>4, JobType DEF WriteIndexForDelete, Running
  <2>2. JobHolds(j, s, v) => JobHolds(job[w], s, v)
    BY JobType DEF JobHolds, Jobs
  <2>3. IsOf(index'[s], v) => JobHolds(job[w], s, v)
    BY <2>1 DEF IsOf, JobHolds
  <2> HIDE DEF j
  <2> QED
    BY <1>0, <2>1, <2>2, <2>3, WriterKeeps DEF Holds
<1>5. CASE RemoveDirFails(w) \/ WriteReceipt(w)
  BY <1>5, EndKeeps DEF RemoveDirFails, WriteReceipt, store
<1> QED
  BY <1>1, <1>2, <1>3, <1>4, <1>5 DEF DeleteStep

LEMMA ExpireKeeps ==
    ASSUME TypeOK, NEW w \in Writers, ExpireStep(w), NEW s \in Sessions, NEW v \in Versions
    PROVE  Holds(s, v)' => Holds(s, v)
<1>0. JobHolds(job[w], s, v) => Holds(s, v)
  BY DEF Holds
<1>1. ASSUME NEW t \in Sessions, SkipManifest(w, t) PROVE Holds(s, v)' => Holds(s, v)
  <2> DEFINE j == [job[w] EXCEPT !.due = @ \ {t}]
  <2>1. job' = [job EXCEPT ![w] = j] /\ UNCHANGED <<view, index, file>>
    BY <1>1 DEF SkipManifest, store
  <2>2. JobHolds(j, s, v) => JobHolds(job[w], s, v)
    BY JobType DEF JobHolds, Jobs
  <2> HIDE DEF j
  <2> QED
    BY <1>0, <2>1, <2>2, WriterKeeps DEF Holds
<1>2. ASSUME NEW t \in Sessions, ReadManifest(w, t) PROVE Holds(s, v)' => Holds(s, v)
  <2> DEFINE j == [job[w] EXCEPT !.pc = "exp_write", !.sid = t,
                                 !.read = file[t]["manifest"]]
  <2>1. job' = [job EXCEPT ![w] = j]
    BY <1>2 DEF ReadManifest
  <2>2. UNCHANGED <<view, index, file>>
    BY <1>2 DEF ReadManifest, store
  <2>3. j.pc = "exp_write" /\ j.sid = t /\ j.snap = job[w].snap
        /\ j.read = file[t]["manifest"]
    BY JobType DEF Jobs
  <2> HIDE DEF j
  <2>4. JobHolds(j, s, v) => Holds(s, v)
    BY <1>0, <2>3, Constants DEF JobHolds, Holds
  <2> QED
    BY <2>1, <2>2, <2>4, WriterKeeps DEF Holds
<1>3. CASE MarkManifest(w)
  <2> DEFINE t == job[w].sid
             j == [job[w] EXCEPT !.pc = "exp_marks", !.sid = Absent,
                                 !.read = Absent, !.due = @ \ {t}]
  <2>1. job' = [job EXCEPT ![w] = j]
    BY <1>3 DEF MarkManifest
  <2>2. /\ UNCHANGED <<view, index>>
        /\ job[w].pc = "exp_write" /\ t \in Sessions /\ job[w].read # Absent
    BY <1>3, JobType DEF MarkManifest, Running
  <2>3. j.pc = "exp_marks" /\ j.snap = job[w].snap
    BY JobType DEF Jobs
  <2>4. ASSUME NEW g \in FileNames, IsOf(file'[s][g], v) PROVE Holds(s, v)
    <3>1. file'[s][g] = IF s = t /\ g = "manifest"
                        THEN [ver |-> job[w].read.ver, status |-> "expired"]
                        ELSE file[s][g]
      BY <1>3, <2>2 DEF MarkManifest, TypeOK
    <3>2. CASE s = t /\ g = "manifest"
      BY <1>0, <2>2, <2>4, <3>1, <3>2 DEF JobHolds, IsOf
    <3>3. CASE ~(s = t /\ g = "manifest")
      BY <2>4, <3>1, <3>3 DEF Holds
    <3> QED
      BY <3>2, <3>3
  <2> HIDE DEF j
  <2>5. JobHolds(j, s, v) => Holds(s, v)
    BY <1>0, <2>3 DEF JobHolds
  <2>6. IsOf(index'[s], v) => Holds(s, v)
    BY <2>2 DEF Holds
  <2> QED
    BY <2>1, <2>2, <2>4, <2>5, <2>6, WriterKeeps
<1>4. CASE WriteIndexForExpire(w)
  <2>1. /\ job' = [job EXCEPT ![w] = Idle] /\ UNCHANGED <<view, file>>
        /\ index' = Expired(job[w].snap, job[w].now)
    BY <1>4 DEF WriteIndexForExpire, Finish
  <2>2. IsOf(index'[s], v) => IsOf(job[w].snap[s], v)
    BY <2>1, JobType, ExpiredType DEF IsOf
  <2> QED
    BY <1>0, <2>1, <2>2, WriterKeeps, IdleHoldsNothing DEF Holds, JobHolds
<1> QED
  BY <1>1, <1>2, <1>3, <1>4 DEF ExpireStep

LEMMA PreviewKeeps ==
    ASSUME TypeOK, NEW r \in Readers,
           (\E t \in Sessions : PreviewIndex(r, t)) \/ PreviewStep(r),
           NEW s \in Sessions, NEW v \in Versions
    PROVE  Holds(s, v)' => Holds(s, v)
<1>1. UNCHANGED <<index, file, job>>
  BY DEF PreviewIndex, PreviewStep, PreviewNothing, PreviewManifest, PreviewRuntime, store
<1>2. \A q \in Readers \ {r} : view'[q] = view[q]
  BY DEF PreviewIndex, PreviewStep, PreviewNothing, PreviewManifest, PreviewRuntime, TypeOK
<1>3. ViewHolds(view'[r], s, v) => Holds(s, v)
  <2>1. ASSUME NEW t \in Sessions, PreviewIndex(r, t), ViewHolds(view'[r], s, v)
        PROVE  Holds(s, v)
    <3>1. view'[r].sid = t /\ view'[r].entry = index[t] /\ view'[r].manifest = Absent
      BY <2>1 DEF PreviewIndex, TypeOK, NoView
    <3> QED
      BY <2>1, <3>1 DEF ViewHolds, IsOf, Holds
  <2>2. ASSUME PreviewNothing(r) \/ PreviewRuntime(r), ViewHolds(view'[r], s, v)
        PROVE  Holds(s, v)
    <3>1. view'[r].entry = Absent /\ view'[r].manifest = Absent
      BY <2>2 DEF PreviewNothing, PreviewRuntime, TypeOK, NoView
    <3> QED
      BY <2>2, <3>1 DEF ViewHolds, IsOf
  <2>3. ASSUME PreviewManifest(r), ViewHolds(view'[r], s, v) PROVE Holds(s, v)
    <3>1. view' = [view EXCEPT ![r] = [view[r] EXCEPT !.pc = "runtime",
                                       !.manifest = file[view[r].sid]["manifest"]]]
      BY <2>3 DEF PreviewManifest
    <3>2. /\ view'[r].sid = view[r].sid /\ view'[r].entry = view[r].entry
          /\ view'[r].manifest = file[view[r].sid]["manifest"]
      BY <3>1 DEF TypeOK, Views
    <3> QED
      BY <2>3, <3>2, Constants DEF ViewHolds, Holds
  <2> QED
    BY <2>1, <2>2, <2>3 DEF PreviewStep
<1> QED
  BY <1>1, <1>2, <1>3 DEF Holds

(* A record is new when its save begins, and no command begins with        *)
(* another.                                                                *)
LEMMA BeginKeeps ==
    ASSUME TypeOK, NEW w \in Writers, Begin(w), NEW s \in Sessions, NEW v \in Versions
    PROVE  Holds(s, v)' => \/ Holds(s, v)
                           \/ /\ v = nsaves + 1
                              /\ \E shape \in Shapes : BeginSave(w, s, shape)
<1>1. ASSUME NEW t \in Sessions, NEW shape \in Shapes, BeginSave(w, t, shape),
             ~(t = s /\ v = nsaves + 1)
      PROVE  Holds(s, v)' => Holds(s, v)
  <2> DEFINE j == [Idle EXCEPT !.pc = "save_files", !.sid = t, !.ver = nsaves + 1,
                               !.pend = shape]
  <2>1. job' = [job EXCEPT ![w] = j] /\ UNCHANGED <<view, index, file>>
    BY <1>1 DEF BeginSave
  <2>2. ~JobHolds(j, s, v)
    BY <1>1 DEF Idle, JobHolds, IsOf
  <2> HIDE DEF j
  <2> QED
    BY <2>1, <2>2, WriterKeeps DEF Holds
<1>2. ASSUME NEW t \in Sessions, BeginDelete(w, t) PROVE Holds(s, v)' => Holds(s, v)
  <2> DEFINE j == [Idle EXCEPT !.pc = IF t \in dirs THEN "del_files" ELSE "del_read",
                               !.sid = t,
                               !.ver = IF \E u \in Writers : Saving(u, t)
                                       THEN 0 ELSE nsaves,
                               !.pend = {f \in FileNames : file[t][f] # Absent}]
  <2>1. job' = [job EXCEPT ![w] = j] /\ UNCHANGED <<view, index, file>>
    BY <1>2 DEF BeginDelete, store
  <2>2. ~JobHolds(j, s, v)
    BY DEF Idle, JobHolds, IsOf
  <2> HIDE DEF j
  <2> QED
    BY <2>1, <2>2, WriterKeeps DEF Holds
<1>3. ASSUME NEW now \in 0 .. MaxSaves, BeginExpire(w, now)
      PROVE  Holds(s, v)' => Holds(s, v)
  <2> DEFINE j == [Idle EXCEPT !.pc = "exp_marks", !.now = now,
                               !.due = Due(index, now), !.snap = index]
  <2>1. job' = [job EXCEPT ![w] = j] /\ UNCHANGED <<view, index, file>>
    BY <1>3 DEF BeginExpire, store
  <2>2. j.pc = "exp_marks" /\ j.snap = index
    BY DEF Idle
  <2> HIDE DEF j
  <2>3. JobHolds(j, s, v) => Holds(s, v)
    BY <2>2 DEF JobHolds, Holds
  <2> QED
    BY <2>1, <2>3, WriterKeeps DEF Holds
<1> QED
  BY <1>1, <1>2, <1>3 DEF Begin

LEMMA HoldsStep ==
    ASSUME TypeOK, Next, NEW s \in Sessions, NEW v \in Versions, Holds(s, v)'
    PROVE  \/ Holds(s, v)
           \/ v = nsaves + 1 /\ \E w \in Writers, shape \in Shapes : BeginSave(w, s, shape)
<1>1. ASSUME NEW w \in Writers, Abort(w) PROVE Holds(s, v)
  BY <1>1, EndKeeps DEF Abort, store
<1> QED
  BY <1>1, BeginKeeps, SaveKeeps, DeleteKeeps, ExpireKeeps, PreviewKeeps DEF Next

(* What records have is settled when they begin. *)
LEMMA ShapesStay ==
    ASSUME TypeOK, Next
    PROVE  /\ nsaves' >= nsaves
           /\ \A v \in Versions : v <= nsaves => shapeOf'[v] = shapeOf[v]
<1>0. nsaves \in Nat
  BY MaxSavesAssumption DEF TypeOK
<1>1. ASSUME NEW w \in Writers, Begin(w)
      PROVE  \/ UNCHANGED <<nsaves, shapeOf>>
             \/ /\ nsaves' = nsaves + 1
                /\ \E shape \in Shapes : shapeOf' = [shapeOf EXCEPT ![nsaves + 1] = shape]
  BY <1>1 DEF Begin, BeginSave, BeginDelete, BeginExpire, store
<1>2. ASSUME NEW w \in Writers, SaveStep(w) PROVE UNCHANGED <<nsaves, shapeOf>>
  BY <1>2 DEF SaveStep, WriteFile, ReadIndexForSave, WriteIndexForSave, store
<1>3. ASSUME NEW w \in Writers, DeleteStep(w) PROVE UNCHANGED <<nsaves, shapeOf>>
  BY <1>3 DEF DeleteStep, Unlink, RemoveDir, RemoveDirFails, ReadIndexForDelete,
     WriteIndexForDelete, WriteReceipt, store
<1>4. ASSUME NEW w \in Writers, ExpireStep(w) \/ Abort(w)
      PROVE  UNCHANGED <<nsaves, shapeOf>>
  BY <1>4 DEF ExpireStep, SkipManifest, ReadManifest, MarkManifest,
     WriteIndexForExpire, Abort, store
<1>5. ASSUME NEW r \in Readers,
             (\E s \in Sessions : PreviewIndex(r, s)) \/ PreviewStep(r)
      PROVE  UNCHANGED <<nsaves, shapeOf>>
  BY <1>5 DEF PreviewIndex, PreviewStep, PreviewNothing, PreviewManifest,
     PreviewRuntime, store
<1>6. \/ UNCHANGED <<nsaves, shapeOf>>
      \/ /\ nsaves' = nsaves + 1
         /\ \E shape \in Shapes : shapeOf' = [shapeOf EXCEPT ![nsaves + 1] = shape]
  BY <1>1, <1>2, <1>3, <1>4, <1>5 DEF Next
<1>7. \A v \in Versions : v \in Nat /\ v <= nsaves => v # nsaves + 1
  BY <1>0
<1> QED
  BY <1>0, <1>6, <1>7, Constants DEF TypeOK

(* A step of one writer: the documents that it wrote and what it has yet   *)
(* to write are of its own record, and the rest is as it was.              *)
Documented ==
    /\ \A s \in Sessions, f \in FileNames :
         file[s][f] # Absent => f \in shapeOf[file[s][f].ver] /\ s \in dirs
    /\ \A w \in Writers : WritesOwn(job[w])

LEMMA DocumentsMove ==
    ASSUME TypeOK, ApartInv, Next, NEW w \in Writers,
           \A u \in Writers \ {w} : job'[u] = job[u],
           WritesOwn(job[w])',
           \A s \in Sessions, f \in FileNames : file'[s][f] # Absent =>
              /\ s \in dirs'
              /\ \/ file'[s][f] = file[s][f]
                 \/ f \in shapeOf'[file'[s][f].ver]
    PROVE  Documented'
<1>1. ASSUME NEW s \in Sessions, NEW f \in FileNames, file[s][f] # Absent
      PROVE  f \in shapeOf'[file[s][f].ver]
  <2>1. file[s][f].ver \in Versions
    BY <1>1, Constants DEF TypeOK
  <2>2. Holds(s, file[s][f].ver)
    BY <1>1 DEF Holds, IsOf
  <2>3. file[s][f].ver <= nsaves /\ f \in shapeOf[file[s][f].ver]
    BY <1>1, <2>1, <2>2 DEF ApartInv, RecordsStayApart
  <2> QED
    BY <2>1, <2>3, ShapesStay
<1>2. ASSUME NEW u \in Writers \ {w} PROVE WritesOwn(job[u])'
  <2>1. CASE job[u].pc \in {"save_files", "save_index"}
    <3>1. job[u].ver \in Versions /\ job[u].sid \in Sessions
      BY <2>1, JobType
    <3>2. Holds(job[u].sid, job[u].ver)
      BY <2>1 DEF Holds, JobHolds
    <3>3. job[u].pend \subseteq shapeOf[job[u].ver] /\ job[u].ver <= nsaves
      BY <2>1, <3>1, <3>2 DEF ApartInv, WritesOwn
    <3>4. shapeOf'[job[u].ver] = shapeOf[job[u].ver]
      BY <3>1, <3>3, ShapesStay
    <3> QED
      BY <2>1, <3>3, <3>4 DEF WritesOwn
  <2>2. CASE job[u].pc = "exp_write"
    <3>1. job[u].sid \in Sessions /\ job[u].read # Absent /\ job[u].read.ver \in Versions
      BY <2>2, JobType, Constants
    <3>2. Holds(job[u].sid, job[u].read.ver)
      BY <2>2, <3>1 DEF Holds, JobHolds, IsOf
    <3>3. "manifest" \in shapeOf[job[u].read.ver] /\ job[u].read.ver <= nsaves
      BY <2>2, <3>1, <3>2 DEF ApartInv, WritesOwn
    <3>4. shapeOf'[job[u].read.ver] = shapeOf[job[u].read.ver]
      BY <3>1, <3>3, ShapesStay
    <3> QED
      BY <2>2, <3>3, <3>4 DEF WritesOwn
  <2>3. CASE job[u].pc \notin {"save_files", "save_index", "exp_write"}
    BY <2>3 DEF WritesOwn
  <2> QED
    BY <2>1, <2>2, <2>3
<1>3. ASSUME NEW s \in Sessions, NEW f \in FileNames, file'[s][f] # Absent
      PROVE  f \in shapeOf'[file'[s][f].ver] /\ s \in dirs'
  BY <1>1, <1>3
<1> QED
  BY <1>2, <1>3 DEF Documented

(* What is on disk for a session, as an action that writes none of it sees *)
(* it.                                                                     *)
LEMMA FilesKept ==
    ASSUME ApartInv, UNCHANGED <<file, dirs>> \/ (UNCHANGED file /\ dirs \subseteq dirs')
    PROVE  \A s \in Sessions, f \in FileNames : file'[s][f] # Absent =>
              s \in dirs' /\ file'[s][f] = file[s][f]
  BY DEF ApartInv, RecordsStayApart

LEMMA BeginDocuments ==
    ASSUME TypeOK, ApartInv, Next, NEW w \in Writers, Begin(w)
    PROVE  Documented'
<1>1. ASSUME NEW s \in Sessions, NEW shape \in Shapes, BeginSave(w, s, shape)
      PROVE  Documented'
  <2>1. /\ job'[w].pc = "save_files" /\ job'[w].ver = nsaves + 1
        /\ job'[w].pend = shape /\ \A u \in Writers \ {w} : job'[u] = job[u]
    BY <1>1 DEF BeginSave, TypeOK, Idle
  <2>2. nsaves + 1 \in Versions
    BY <1>1, MaxSavesAssumption DEF BeginSave, TypeOK, Versions
  <2>3. shapeOf'[nsaves + 1] = shape
    BY <1>1, <2>2 DEF BeginSave, TypeOK
  <2>4. UNCHANGED file /\ dirs \subseteq dirs'
    BY <1>1 DEF BeginSave
  <2>5. WritesOwn(job[w])'
    BY <2>1, <2>3 DEF WritesOwn
  <2> QED
    BY <2>1, <2>4, <2>5, FilesKept, DocumentsMove
<1>2. ASSUME NEW s \in Sessions, BeginDelete(w, s) PROVE Documented'
  <2>1. /\ job'[w].pc \in {"del_files", "del_read"} /\ UNCHANGED <<file, dirs>>
        /\ \A u \in Writers \ {w} : job'[u] = job[u]
    BY <1>2 DEF BeginDelete, TypeOK, Idle, store
  <2>2. WritesOwn(job[w])'
    BY <2>1 DEF WritesOwn
  <2> QED
    BY <2>1, <2>2, FilesKept, DocumentsMove
<1>3. ASSUME NEW now \in 0 .. MaxSaves, BeginExpire(w, now) PROVE Documented'
  <2>1. /\ job'[w].pc = "exp_marks" /\ UNCHANGED <<file, dirs>>
        /\ \A u \in Writers \ {w} : job'[u] = job[u]
    BY <1>3 DEF BeginExpire, TypeOK, Idle, store
  <2>2. WritesOwn(job[w])'
    BY <2>1 DEF WritesOwn
  <2> QED
    BY <2>1, <2>2, FilesKept, DocumentsMove
<1> QED
  BY <1>1, <1>2, <1>3 DEF Begin

LEMMA EndDocuments ==
    ASSUME TypeOK, ApartInv, Next, NEW w \in Writers, Finish(w), UNCHANGED <<file, dirs>>
    PROVE  Documented'
<1>1. job'[w].pc = "idle" /\ \A u \in Writers \ {w} : job'[u] = job[u]
  BY DEF Finish, Idle, TypeOK
<1>2. WritesOwn(job[w])'
  BY <1>1 DEF WritesOwn
<1> QED
  BY <1>1, <1>2, FilesKept, DocumentsMove

LEMMA SaveDocuments ==
    ASSUME TypeOK, ApartInv, Next, NEW w \in Writers, SaveStep(w)
    PROVE  Documented'
<1>1. ASSUME NEW f \in FileNames, WriteFile(w, f) PROVE Documented'
  <2> DEFINE j == [job[w] EXCEPT !.pend = @ \ {f}]
  <2>1. /\ job' = [job EXCEPT ![w] = j]
        /\ job[w].pc = "save_files" /\ job[w].sid \in Sessions
        /\ f \in job[w].pend /\ UNCHANGED shapeOf
    BY <1>1, JobType DEF WriteFile, Running
  <2>2. j.pc = "save_files" /\ j.ver = job[w].ver /\ j.pend = job[w].pend \ {f}
    BY <2>1, JobType DEF Jobs
  <2> HIDE DEF j
  <2>3. job'[w] = j /\ \A u \in Writers \ {w} : job'[u] = job[u]
    BY <2>1 DEF TypeOK
  <2>4. job[w].pend \subseteq shapeOf[job[w].ver]
    BY <2>1 DEF ApartInv, WritesOwn
  <2>5. WritesOwn(job[w])'
    BY <2>1, <2>2, <2>3, <2>4 DEF WritesOwn
  <2>6. \A s \in Sessions, g \in FileNames :
          file'[s][g] = IF s = job[w].sid /\ g = f
                        THEN [ver |-> job[w].ver, status |-> "resumable"]
                        ELSE file[s][g]
    BY <1>1, <2>1 DEF WriteFile, TypeOK
  <2>7. dirs' = dirs \union {job[w].sid}
    BY <1>1 DEF WriteFile
  <2>8. ASSUME NEW s \in Sessions, NEW g \in FileNames, file'[s][g] # Absent
        PROVE  /\ s \in dirs'
               /\ file'[s][g] = file[s][g] \/ g \in shapeOf'[file'[s][g].ver]
    BY <2>1, <2>4, <2>6, <2>7, <2>8 DEF ApartInv, RecordsStayApart
  <2> QED
    BY <2>3, <2>5, <2>8, DocumentsMove
<1>2. CASE ReadIndexForSave(w)
  <2> DEFINE j == [job[w] EXCEPT !.pc = "save_index", !.snap = index]
  <2>1. /\ job' = [job EXCEPT ![w] = j]
        /\ job[w].pc = "save_files" /\ UNCHANGED <<file, dirs, shapeOf>>
    BY <1>2 DEF ReadIndexForSave, Running, store
  <2>2. j.pc = "save_index" /\ j.ver = job[w].ver /\ j.pend = job[w].pend
    BY JobType DEF Jobs
  <2> HIDE DEF j
  <2>3. job'[w] = j /\ \A u \in Writers \ {w} : job'[u] = job[u]
    BY <2>1 DEF TypeOK
  <2>4. WritesOwn(job[w])'
    BY <2>1, <2>2, <2>3 DEF ApartInv, WritesOwn
  <2> QED
    BY <2>1, <2>3, <2>4, FilesKept, DocumentsMove
<1>3. CASE WriteIndexForSave(w)
  BY <1>3, EndDocuments DEF WriteIndexForSave
<1> QED
  BY <1>1, <1>2, <1>3 DEF SaveStep

LEMMA DeleteDocuments ==
    ASSUME TypeOK, ApartInv, Next, NEW w \in Writers, DeleteStep(w)
    PROVE  Documented'
<1>1. ASSUME NEW f \in FileNames, Unlink(w, f) PROVE Documented'
  <2> DEFINE j == [job[w] EXCEPT !.pend = @ \ {f}]
  <2>1. /\ job' = [job EXCEPT ![w] = j]
        /\ job[w].pc = "del_files" /\ job[w].sid \in Sessions /\ UNCHANGED dirs
    BY <1>1, JobType DEF Unlink, Running
  <2>2. j.pc = "del_files"
    BY <2>1, JobType DEF Jobs
  <2> HIDE DEF j
  <2>3. job'[w] = j /\ \A u \in Writers \ {w} : job'[u] = job[u]
    BY <2>1 DEF TypeOK
  <2>4. WritesOwn(job[w])'
    BY <2>2, <2>3 DEF WritesOwn
  <2>5. \A s \in Sessions, g \in FileNames : file'[s][g] \in {Absent, file[s][g]}
    BY <1>1, <2>1 DEF Unlink, TypeOK
  <2> QED
    BY <2>1, <2>3, <2>4, <2>5, DocumentsMove DEF ApartInv, RecordsStayApart
<1>2. CASE RemoveDir(w)
  <2>1. /\ job'[w].pc = "del_read" /\ \A u \in Writers \ {w} : job'[u] = job[u]
        /\ UNCHANGED file /\ dirs' = dirs \ {job[w].sid}
        /\ \A f \in FileNames : file[job[w].sid][f] = Absent
    BY <1>2 DEF RemoveDir, TypeOK
  <2>2. WritesOwn(job[w])'
    BY <2>1 DEF WritesOwn
  <2> QED
    BY <2>1, <2>2, DocumentsMove DEF ApartInv, RecordsStayApart
<1>3. CASE ReadIndexForDelete(w) \/ WriteIndexForDelete(w)
  <2>1. CASE ReadIndexForDelete(w)
    <3>1. job' = [job EXCEPT ![w] = [job[w] EXCEPT !.pc = "del_index", !.snap = index]]
      BY <2>1 DEF ReadIndexForDelete
    <3>2. job'[w].pc = "del_index"
      BY <3>1, JobType DEF TypeOK, Jobs
    <3>3. UNCHANGED <<file, dirs>> /\ \A u \in Writers \ {w} : job'[u] = job[u]
      BY <2>1, <3>1 DEF ReadIndexForDelete, TypeOK, store
    <3> QED
      BY <3>2, <3>3, FilesKept, DocumentsMove DEF WritesOwn
  <2>2. CASE WriteIndexForDelete(w)
    <3>1. /\ job'[w].pc = "del_receipt" /\ UNCHANGED <<file, dirs>>
          /\ \A u \in Writers \ {w} : job'[u] = job[u]
      BY <2>2 DEF WriteIndexForDelete, TypeOK
    <3> QED
      BY <3>1, FilesKept, DocumentsMove DEF WritesOwn
  <2> QED
    BY <1>3, <2>1, <2>2
<1>4. CASE RemoveDirFails(w) \/ WriteReceipt(w)
  BY <1>4, EndDocuments DEF RemoveDirFails, WriteReceipt, store
<1> QED
  BY <1>1, <1>2, <1>3, <1>4 DEF DeleteStep

LEMMA ExpireDocuments ==
    ASSUME TypeOK, ApartInv, Next, NEW w \in Writers, ExpireStep(w)
    PROVE  Documented'
<1>1. ASSUME NEW s \in Sessions, SkipManifest(w, s) PROVE Documented'
  <2>1. /\ job'[w].pc = "exp_marks" /\ UNCHANGED <<file, dirs>>
        /\ \A u \in Writers \ {w} : job'[u] = job[u]
    BY <1>1 DEF SkipManifest, Running, TypeOK, store
  <2> QED
    BY <2>1, FilesKept, DocumentsMove DEF WritesOwn
<1>2. ASSUME NEW s \in Sessions, ReadManifest(w, s) PROVE Documented'
  <2> DEFINE j == [job[w] EXCEPT !.pc = "exp_write", !.sid = s,
                                 !.read = file[s]["manifest"]]
  <2>1. job' = [job EXCEPT ![w] = j]
    BY <1>2 DEF ReadManifest
  <2>2. UNCHANGED <<file, dirs, shapeOf>> /\ file[s]["manifest"] # Absent
    BY <1>2 DEF ReadManifest, store
  <2>3. j.pc = "exp_write" /\ j.read = file[s]["manifest"]
    BY JobType DEF Jobs
  <2> HIDE DEF j
  <2>4. job'[w] = j /\ \A u \in Writers \ {w} : job'[u] = job[u]
    BY <2>1 DEF TypeOK
  <2>5. WritesOwn(job[w])'
    BY <2>2, <2>3, <2>4, Constants DEF WritesOwn, ApartInv, RecordsStayApart
  <2> QED
    BY <2>2, <2>4, <2>5, FilesKept, DocumentsMove
<1>3. CASE MarkManifest(w)
  <2> DEFINE t == job[w].sid
             j == [job[w] EXCEPT !.pc = "exp_marks", !.sid = Absent,
                                 !.read = Absent, !.due = @ \ {t}]
  <2>1. job' = [job EXCEPT ![w] = j]
    BY <1>3 DEF MarkManifest
  <2>2. /\ job[w].pc = "exp_write" /\ t \in Sessions
        /\ dirs' = dirs \union {t} /\ UNCHANGED shapeOf
    BY <1>3, JobType DEF MarkManifest, Running
  <2>3. j.pc = "exp_marks"
    BY JobType DEF Jobs
  <2>4. \A s \in Sessions, g \in FileNames :
          file'[s][g] = IF s = t /\ g = "manifest"
                        THEN [ver |-> job[w].read.ver, status |-> "expired"]
                        ELSE file[s][g]
    BY <1>3, <2>2 DEF MarkManifest, TypeOK
  <2> HIDE DEF j
  <2>5. job'[w] = j /\ \A u \in Writers \ {w} : job'[u] = job[u]
    BY <2>1 DEF TypeOK
  <2>6. "manifest" \in shapeOf[job[w].read.ver]
    BY <2>2 DEF ApartInv, WritesOwn
  <2>7. ASSUME NEW s \in Sessions, NEW g \in FileNames, file'[s][g] # Absent
        PROVE  /\ s \in dirs'
               /\ file'[s][g] = file[s][g] \/ g \in shapeOf'[file'[s][g].ver]
    BY <2>2, <2>4, <2>6, <2>7 DEF ApartInv, RecordsStayApart
  <2>8. WritesOwn(job[w])'
    BY <2>3, <2>5 DEF WritesOwn
  <2> QED
    BY <2>5, <2>7, <2>8, DocumentsMove
<1>4. CASE WriteIndexForExpire(w)
  BY <1>4, EndDocuments DEF WriteIndexForExpire
<1> QED
  BY <1>1, <1>2, <1>3, <1>4 DEF ExpireStep

(* One step begins the save of one session. *)
LEMMA SaveBegins ==
    ASSUME TypeOK, NEW w \in Writers, NEW s \in Sessions, NEW shape \in Shapes,
           BeginSave(w, s, shape)
    PROVE  /\ job[w].pc = "idle" /\ job'[w].pc = "save_files" /\ job'[w].sid = s
           /\ \A x \in Writers \ {w} : job'[x] = job[x]
           /\ nsaves' = nsaves + 1
  BY DEF BeginSave, Running, Idle, TypeOK

LEMMA OneIsNew ==
    ASSUME TypeOK, NEW w \in Writers, NEW u \in Writers, NEW s \in Sessions,
           NEW t \in Sessions, NEW a \in Shapes, NEW b \in Shapes,
           BeginSave(w, s, a), BeginSave(u, t, b)
    PROVE  s = t
<1>1. /\ job'[w].sid = s
      /\ \A x \in Writers \ {w} : job'[x] = job[x]
  BY SaveBegins
<1>2. job[u].pc = "idle" /\ job'[u].pc = "save_files" /\ job'[u].sid = t
  BY SaveBegins
<1> QED
  BY <1>1, <1>2

LEMMA ApartStep ==
    ASSUME TypeOK, TypeOK', ApartInv, [Next]_vars
    PROVE  ApartInv'
<1>1. CASE UNCHANGED vars
  BY <1>1 DEF vars, store, ApartInv, RecordsStayApart, Holds, JobHolds, ViewHolds,
     WritesOwn
<1>2. CASE Next
  <2>0. nsaves \in Nat /\ nsaves' \in Nat
    BY MaxSavesAssumption DEF TypeOK
  <2>1. ASSUME NEW s \in Sessions, NEW v \in Versions, Holds(s, v)'
        PROVE  \/ Holds(s, v) /\ v <= nsaves
               \/ /\ v = nsaves + 1 /\ nsaves' = nsaves + 1
                  /\ \E w \in Writers, shape \in Shapes : BeginSave(w, s, shape)
    <3>1. CASE Holds(s, v)
      BY <3>1 DEF ApartInv
    <3>2. CASE v = nsaves + 1 /\ \E w \in Writers, shape \in Shapes : BeginSave(w, s, shape)
      BY <3>2, SaveBegins
    <3> QED
      BY <1>2, <2>1, <3>1, <3>2, HoldsStep
  <2>2. ASSUME NEW s \in Sessions, NEW v \in Versions, Holds(s, v)'
        PROVE  v <= nsaves'
    <3>1. v \in Nat /\ nsaves' >= nsaves
      BY <1>2, ShapesStay, Constants
    <3> QED
      BY <2>0, <2>1, <2>2, <3>1
  <2>3. ASSUME NEW s \in Sessions, NEW t \in Sessions, NEW v \in Versions,
               Holds(s, v)', Holds(t, v)'
        PROVE  s = t
    <3>1. CASE v <= nsaves
      BY <2>0, <2>1, <2>3, <3>1 DEF ApartInv, RecordsStayApart
    <3>2. CASE v = nsaves + 1
      <4>1. ~(v <= nsaves)
        BY <2>0, <3>2
      <4>2. PICK w \in Writers, a \in Shapes : BeginSave(w, s, a)
        BY <2>1, <2>3, <4>1
      <4>3. PICK u \in Writers, b \in Shapes : BeginSave(u, t, b)
        BY <2>1, <2>3, <4>1
      <4> QED
        BY <4>2, <4>3, OneIsNew
    <3> QED
      BY <2>1, <2>3, <3>1, <3>2
  <2>4. Documented'
    <3>1. ASSUME NEW w \in Writers, Abort(w) PROVE Documented'
      BY <1>2, <3>1, EndDocuments DEF Abort, store
    <3>2. ASSUME NEW r \in Readers,
                 (\E s \in Sessions : PreviewIndex(r, s)) \/ PreviewStep(r)
          PROVE  Documented'
      <4>1. UNCHANGED <<store, job>>
        BY <3>2 DEF PreviewIndex, PreviewStep, PreviewNothing, PreviewManifest,
           PreviewRuntime
      <4> QED
        BY <4>1 DEF store, Documented, ApartInv, RecordsStayApart, WritesOwn
    <3> QED
      BY <1>2, <3>1, <3>2, BeginDocuments, SaveDocuments, DeleteDocuments,
         ExpireDocuments DEF Next
  <2> QED
    BY <2>2, <2>3, <2>4 DEF ApartInv, RecordsStayApart, Documented
<1> QED
  BY <1>1, <1>2

(* Several consoles may save, delete, expire and preview at the same time, *)
(* be cut off, and lose each other's index entries (SavedIsListed is for  *)
(* commands that do not overlap); yet no step ever puts what one session   *)
(* saved under another, nor a document where its record has none.          *)
THEOREM OverlapKeepsRecordsApart == Spec => []RecordsStayApart
<1>1. Init => ApartInv
  BY DEF Init, ApartInv, RecordsStayApart, Holds, IsOf, JobHolds, ViewHolds, Idle,
     NoView, WritesOwn
<1>2. TypeOK /\ TypeOK' /\ ApartInv /\ [Next]_vars => ApartInv'
  BY ApartStep
<1>3. ApartInv => RecordsStayApart
  BY DEF ApartInv
<1> QED
  BY Typing, <1>1, <1>2, <1>3, PTL DEF Spec

-----------------------------------------------------------------------------
(* A command goes forward only, whatever other commands do meanwhile.      *)

Stage(pc) ==
    IF pc \in {"save_files", "del_files", "exp_marks"} THEN 1
    ELSE IF pc \in {"save_index", "del_read", "exp_write"} THEN 2
    ELSE IF pc = "del_index" THEN 3
    ELSE 4

(* From j to k a command has ended, or has fewer sessions to mark, or is   *)
(* at a later stage, or has fewer documents to write or unlink.            *)
MovesOn(j, k) ==
    \/ k.pc = "idle"
    \/ k.due \subseteq j.due /\ k.due # j.due
    \/ k.due = j.due /\ Stage(k.pc) > Stage(j.pc)
    \/ /\ k.due = j.due /\ k.pc = j.pc
       /\ k.pend \subseteq j.pend /\ k.pend # j.pend

(* The session whose manifest is being marked is one of those to mark. *)
MarksDue(j) == j.pc = "exp_write" => j.sid \in j.due

CommandMovesOn ==
    [][\A w \in Writers : job[w].pc # "idle" =>
           job'[w] = job[w] \/ MovesOn(job[w], job'[w])]_vars

LEMMA CommandStepMoves ==
    ASSUME TypeOK, NEW w \in Writers, SaveStep(w) \/ DeleteStep(w) \/ ExpireStep(w) \/ Abort(w)
    PROVE  MarksDue(job[w]) => MovesOn(job[w], job'[w]) /\ MarksDue(job'[w])
<1> SUFFICES ASSUME MarksDue(job[w])
             PROVE  MovesOn(job[w], job'[w]) /\ MarksDue(job'[w])
  OBVIOUS
<1>0. job[w] \in Jobs /\ job \in [Writers -> Jobs]
  BY JobType DEF TypeOK
<1>1. CASE Finish(w)
  BY <1>1 DEF Finish, Idle, MovesOn, MarksDue, TypeOK
<1>2. ASSUME NEW f \in FileNames, WriteFile(w, f) \/ Unlink(w, f)
      PROVE  MovesOn(job[w], job'[w]) /\ MarksDue(job'[w])
  <2>1. job' = [job EXCEPT ![w].pend = @ \ {f}] /\ f \in job[w].pend
    BY <1>2 DEF WriteFile, Unlink
  <2>2. job[w].pc \in {"save_files", "del_files"}
    BY <1>2 DEF WriteFile, Unlink, Running
  <2> QED
    BY <1>0, <2>1, <2>2 DEF MovesOn, MarksDue, Jobs
<1>3. CASE ReadIndexForSave(w) \/ ReadIndexForDelete(w) \/ WriteIndexForDelete(w)
           \/ RemoveDir(w)
  <2>1. \/ job[w].pc = "save_files" /\ job'[w].pc = "save_index"
        \/ job[w].pc = "del_files" /\ job'[w].pc = "del_read"
        \/ job[w].pc = "del_read" /\ job'[w].pc = "del_index"
        \/ job[w].pc = "del_index" /\ job'[w].pc = "del_receipt"
    BY <1>0, <1>3 DEF ReadIndexForSave, ReadIndexForDelete, WriteIndexForDelete,
       RemoveDir, Running, Jobs
  <2>2. job'[w].due = job[w].due
    BY <1>0, <1>3 DEF ReadIndexForSave, ReadIndexForDelete, WriteIndexForDelete,
       RemoveDir, Jobs
  <2> QED
    BY <2>1, <2>2 DEF MovesOn, MarksDue, Stage
<1>4. ASSUME NEW s \in Sessions, SkipManifest(w, s) PROVE MovesOn(job[w], job'[w]) /\ MarksDue(job'[w])
  <2>1. job' = [job EXCEPT ![w].due = @ \ {s}] /\ s \in job[w].due
    BY <1>4 DEF SkipManifest
  <2>2. job[w].pc = "exp_marks"
    BY <1>4 DEF SkipManifest, Running
  <2> QED
    BY <1>0, <2>1, <2>2 DEF MovesOn, MarksDue, Jobs
<1>5. ASSUME NEW s \in Sessions, ReadManifest(w, s) PROVE MovesOn(job[w], job'[w]) /\ MarksDue(job'[w])
  <2>1. job[w].pc = "exp_marks" /\ job'[w].pc = "exp_write" /\ job'[w].due = job[w].due
    BY <1>0, <1>5 DEF ReadManifest, Running, Jobs
  <2>2. job'[w].sid = s /\ s \in job[w].due
    BY <1>0, <1>5 DEF ReadManifest, Jobs
  <2> QED
    BY <2>1, <2>2 DEF MovesOn, MarksDue, Stage
<1>6. CASE MarkManifest(w)
  <2>1. job[w].sid \in job[w].due
    BY <1>6 DEF MarkManifest, Running, MarksDue
  <2>2. job'[w].due = job[w].due \ {job[w].sid} /\ job'[w].pc = "exp_marks"
    BY <1>0, <1>6 DEF MarkManifest, Jobs
  <2> QED
    BY <2>1, <2>2 DEF MovesOn, MarksDue
<1> QED
  BY <1>1, <1>2, <1>3, <1>4, <1>5, <1>6 DEF SaveStep, DeleteStep, ExpireStep, Abort,
     WriteIndexForSave, RemoveDirFails, WriteReceipt, WriteIndexForExpire

LEMMA OthersWait ==
    ASSUME TypeOK, NEW w \in Writers, NEW u \in Writers \ {w},
           Begin(u) \/ SaveStep(u) \/ DeleteStep(u) \/ ExpireStep(u) \/ Abort(u)
    PROVE  job'[w] = job[w]
<1>1. CASE Begin(u)
  BY <1>1 DEF Begin, BeginSave, BeginDelete, BeginExpire, TypeOK
<1>2. CASE SaveStep(u)
  BY <1>2 DEF SaveStep, WriteFile, ReadIndexForSave, WriteIndexForSave, Finish, TypeOK
<1>3. CASE DeleteStep(u)
  <2>0. job \in [Writers -> JobStates]
    BY DEF TypeOK, JobStates
  <2>1. ASSUME NEW f \in FileNames, Unlink(u, f) PROVE job'[w] = job[w]
    BY <2>0, <2>1 DEF Unlink
  <2>2. CASE RemoveDir(u) \/ RemoveDirFails(u)
    BY <2>0, <2>2 DEF RemoveDir, RemoveDirFails, Finish
  <2>3. CASE ReadIndexForDelete(u) \/ WriteIndexForDelete(u) \/ WriteReceipt(u)
    BY <2>0, <2>3 DEF ReadIndexForDelete, WriteIndexForDelete, WriteReceipt, Finish
  <2> QED
    BY <1>3, <2>1, <2>2, <2>3 DEF DeleteStep
<1>4. CASE ExpireStep(u)
  BY <1>4 DEF ExpireStep, SkipManifest, ReadManifest, MarkManifest, WriteIndexForExpire,
     Finish, TypeOK
<1>5. CASE Abort(u)
  BY <1>5 DEF Abort, Finish, TypeOK
<1> QED
  BY <1>1, <1>2, <1>3, <1>4, <1>5

LEMMA BeginsClean ==
    ASSUME TypeOK, NEW w \in Writers, Begin(w)
    PROVE  job[w].pc = "idle" /\ MarksDue(job'[w])
<1>1. job[w].pc = "idle"
  BY DEF Begin, BeginSave, BeginDelete, BeginExpire, Running
<1>2. ASSUME NEW s \in Sessions, NEW shape \in Shapes, BeginSave(w, s, shape)
      PROVE  job'[w].pc = "save_files"
  BY <1>2 DEF BeginSave, Idle, TypeOK
<1>3. ASSUME NEW s \in Sessions, BeginDelete(w, s)
      PROVE  job'[w].pc \in {"del_files", "del_read"}
  BY <1>3 DEF BeginDelete, Idle, TypeOK
<1>4. ASSUME NEW now \in 0 .. MaxSaves, BeginExpire(w, now)
      PROVE  job'[w].pc = "exp_marks"
  BY <1>4 DEF BeginExpire, Idle, TypeOK
<1> QED
  BY <1>1, <1>2, <1>3, <1>4 DEF Begin, MarksDue

LEMMA CommandsMove ==
    ASSUME TypeOK, [Next]_vars, NEW w \in Writers, MarksDue(job[w])
    PROVE  /\ MarksDue(job'[w])
           /\ job[w].pc # "idle" => job'[w] = job[w] \/ MovesOn(job[w], job'[w])
<1>1. ASSUME NEW u \in Writers,
             Begin(u) \/ SaveStep(u) \/ DeleteStep(u) \/ ExpireStep(u) \/ Abort(u)
      PROVE  /\ MarksDue(job'[w])
             /\ job[w].pc # "idle" => job'[w] = job[w] \/ MovesOn(job[w], job'[w])
  <2>1. CASE u = w
    BY <1>1, <2>1, CommandStepMoves, BeginsClean
  <2>2. CASE u # w
    BY <1>1, <2>2, OthersWait
  <2> QED
    BY <2>1, <2>2
<1>2. ASSUME NEW r \in Readers, (\E s \in Sessions : PreviewIndex(r, s)) \/ PreviewStep(r)
      PROVE  UNCHANGED job
  BY <1>2 DEF PreviewIndex, PreviewStep, PreviewNothing, PreviewManifest, PreviewRuntime
<1>3. CASE UNCHANGED vars
  BY <1>3 DEF vars
<1> QED
  BY <1>1, <1>2, <1>3 DEF Next

(* Whatever other commands do to the store meanwhile, each step of a       *)
(* command leaves it less to do: the sessions it has to mark and the       *)
(* documents it has to write or unlink are settled when it begins and only *)
(* get fewer.  So the others can neither keep it going nor make it repeat  *)
(* anything, and with finitely many sessions listed it ends as soon as its *)
(* steps are taken (EveryCommandEnds).                                     *)
THEOREM CommandsMoveOn == Spec => CommandMovesOn
<1> DEFINE AllMarkDue == \A w \in Writers : MarksDue(job[w])
<1>1. Init => AllMarkDue
  BY DEF Init, Idle, MarksDue
<1>2. TypeOK /\ AllMarkDue /\ [Next]_vars =>
         /\ AllMarkDue'
         /\ [\A w \in Writers : job[w].pc # "idle" =>
                job'[w] = job[w] \/ MovesOn(job[w], job'[w])]_vars
  BY CommandsMove
<1> QED
  BY Typing, <1>1, <1>2, PTL DEF Spec, CommandMovesOn
=============================================================================
