------------------------- MODULE SessionStoreSafety -------------------------
(* The safety of the session store when its mutating commands do not       *)
(* overlap: the inductive invariant of SessionStore, the invariants that   *)
(* follow from it, and the refinement of SessionCatalog.                   *)
EXTENDS SessionStoreProofs

LEMMA StoreInvInit == Init => StoreInv
  BY Constants DEF Init, Idle, StoreInv, WriterInv, SnapIsCurrent, SaveIsNewest,
     SaveProgress, DeleteProgress, ExpireProgress, Numbering, DirsHoldFiles,
     ManifestIsNewest, SavedIsListed, ListedIsComplete, DeletedIsGone,
     ExpiredInManifestFirst

(* While a writer moves, the others have nothing to do. *)
Alone(w) == \A u \in Writers \ {w} : job[u].pc = "idle" /\ job'[u].pc = "idle"

LEMMA MovesAlone ==
    ASSUME TypeOK, NoOverlap, NoOverlap', NEW w \in Writers,
           Begin(w) \/ SaveStep(w) \/ DeleteStep(w) \/ ExpireStep(w) \/ Abort(w)
    PROVE  Alone(w)
<1>1. \A u \in Writers \ {w} : job'[u] = job[u]
  <2>1. Begin(w) => \A u \in Writers \ {w} : job'[u] = job[u]
    BY DEF Begin, BeginSave, BeginDelete, BeginExpire, TypeOK
  <2>2. SaveStep(w) => \A u \in Writers \ {w} : job'[u] = job[u]
    BY DEF SaveStep, WriteFile, ReadIndexForSave, WriteIndexForSave, Finish, TypeOK
  <2>3. DeleteStep(w) => \A u \in Writers \ {w} : job'[u] = job[u]
    BY DEF DeleteStep, Unlink, RemoveDir, RemoveDirFails, ReadIndexForDelete,
       WriteIndexForDelete, WriteReceipt, Finish, TypeOK
  <2>4. ExpireStep(w) => \A u \in Writers \ {w} : job'[u] = job[u]
    <3>1. (\E s \in Sessions : SkipManifest(w, s)) \/ WriteIndexForExpire(w)
            => \A u \in Writers \ {w} : job'[u] = job[u]
      BY DEF SkipManifest, WriteIndexForExpire, Finish, TypeOK
    <3>2. MarkManifest(w) => \A u \in Writers \ {w} : job'[u] = job[u]
      BY DEF MarkManifest, TypeOK
    <3>3. ASSUME NEW s \in Sessions, ReadManifest(w, s)
          PROVE  \A u \in Writers \ {w} : job'[u] = job[u]
      BY <3>3 DEF ReadManifest, TypeOK
    <3> QED
      BY <3>1, <3>2, <3>3 DEF ExpireStep
  <2>5. Abort(w) => \A u \in Writers \ {w} : job'[u] = job[u]
    BY DEF Abort, Finish, TypeOK
  <2> QED
    BY <2>1, <2>2, <2>3, <2>4, <2>5
<1>2. Begin(w) => job'[w].pc # "idle"
  <2>1. ASSUME NEW s \in Sessions, NEW shape \in Shapes, BeginSave(w, s, shape)
        PROVE  job'[w].pc # "idle"
    BY <2>1 DEF BeginSave, Idle, TypeOK
  <2>2. ASSUME NEW s \in Sessions, BeginDelete(w, s) PROVE job'[w].pc # "idle"
    BY <2>2 DEF BeginDelete, Idle, TypeOK
  <2>3. ASSUME NEW now \in 0 .. MaxSaves, BeginExpire(w, now) PROVE job'[w].pc # "idle"
    BY <2>3 DEF BeginExpire, Idle, TypeOK
  <2> QED
    BY <2>1, <2>2, <2>3 DEF Begin
<1>3. SaveStep(w) \/ DeleteStep(w) \/ ExpireStep(w) \/ Abort(w) => job[w].pc # "idle"
  BY DEF SaveStep, WriteFile, ReadIndexForSave, WriteIndexForSave,
     DeleteStep, Unlink, RemoveDir, RemoveDirFails, ReadIndexForDelete,
     WriteIndexForDelete, WriteReceipt, ExpireStep, SkipManifest, ReadManifest,
     MarkManifest, WriteIndexForExpire, Abort, Running
<1> QED
  BY <1>1, <1>2, <1>3 DEF NoOverlap, Alone

LEMMA OnlyWriter ==
    ASSUME NEW w \in Writers, Alone(w),
           SnapIsCurrent(w)', SaveIsNewest(w)', SaveProgress(w)',
           DeleteProgress(w)', ExpireProgress(w)'
    PROVE  WriterInv'
<1>1. ASSUME NEW u \in Writers, u # w
      PROVE  /\ SnapIsCurrent(u)' /\ SaveIsNewest(u)' /\ SaveProgress(u)'
             /\ DeleteProgress(u)' /\ ExpireProgress(u)'
  <2>1. job'[u].pc = "idle"
    BY <1>1 DEF Alone
  <2> QED
    BY <2>1 DEF SnapIsCurrent, SaveIsNewest, SaveProgress, DeleteProgress, ExpireProgress
<1> QED
  BY <1>1 DEF WriterInv

(* The documents and entries that the store holds. *)
LEMMA StoreTypes ==
    ASSUME TypeOK
    PROVE  /\ \A s \in Sessions : index[s] # Absent =>
                /\ index[s].ver \in Versions /\ index[s].ver \in Nat
                /\ index[s].status \in {"resumable", "expired"}
           /\ \A s \in Sessions, f \in FileNames : file[s][f] # Absent =>
                /\ file[s][f].ver \in Versions /\ file[s][f].ver \in Nat
                /\ file[s][f].status \in {"resumable", "expired"}
           /\ \A s \in Sessions : kept[s] \in Nat
           /\ nsaves \in Nat
<1>1. \A d \in MaybeDoc : d # Absent =>
        /\ d.ver \in Versions /\ d.ver \in Nat
        /\ d.status \in {"resumable", "expired"}
  BY Constants
<1>2. /\ \A s \in Sessions : index[s] \in MaybeDoc
      /\ \A s \in Sessions, f \in FileNames : file[s][f] \in MaybeDoc
  BY DEF TypeOK
<1>3. nsaves \in Nat /\ \A s \in Sessions : kept[s] \in Nat
  BY MaxSavesAssumption DEF TypeOK
<1> QED
  BY <1>1, <1>2, <1>3

-----------------------------------------------------------------------------
LEMMA BeginSaveInv ==
    ASSUME TypeOK, StoreInv, NEW w \in Writers, Alone(w),
           NEW s \in Sessions, NEW shape \in Shapes, BeginSave(w, s, shape)
    PROVE  StoreInv'
<1> USE DEF StoreInv
<1>1. /\ job'[w].pc = "save_files"
      /\ job'[w].sid = s
      /\ job'[w].ver = nsaves + 1
      /\ job'[w].pend = shape
  BY DEF BeginSave, TypeOK, Idle
<1>2. /\ nsaves' = nsaves + 1
      /\ nsaves + 1 \in Versions
      /\ shapeOf'[nsaves + 1] = shape
      /\ \A v \in Versions : v # nsaves + 1 => shapeOf'[v] = shapeOf[v]
      /\ dirs' = dirs \union {s}
      /\ gone' = gone \ {s}
      /\ UNCHANGED <<index, file, kept>>
  BY MaxSavesAssumption DEF BeginSave, TypeOK, Versions
<1>3. SnapIsCurrent(w)'
  BY <1>1 DEF SnapIsCurrent
<1>4. SaveIsNewest(w)'
  BY <1>1, <1>2, StoreTypes DEF SaveIsNewest, Numbering
<1>5. SaveProgress(w)'
  BY <1>1, <1>2, Constants DEF SaveProgress
<1>6. DeleteProgress(w)' /\ ExpireProgress(w)'
  BY <1>1 DEF DeleteProgress, ExpireProgress
<1>7. Numbering'
  BY <1>2, StoreTypes DEF Numbering
<1>8. DirsHoldFiles' /\ ManifestIsNewest' /\ SavedIsListed'
      /\ DeletedIsGone' /\ ExpiredInManifestFirst'
  BY <1>2 DEF DirsHoldFiles, ManifestIsNewest, SavedIsListed, DeletedIsGone,
     ExpiredInManifestFirst
<1>9. ListedIsComplete'
  <2>1. \A t \in Sessions : index[t] # Absent =>
            shapeOf'[index[t].ver] = shapeOf[index[t].ver]
    BY <1>2, StoreTypes DEF Numbering
  <2> QED
    BY <1>2, <2>1 DEF ListedIsComplete
<1> QED
  BY <1>3, <1>4, <1>5, <1>6, <1>7, <1>8, <1>9, OnlyWriter

LEMMA WriteFileInv ==
    ASSUME TypeOK, StoreInv, NEW w \in Writers, Alone(w),
           NEW f \in FileNames, WriteFile(w, f)
    PROVE  StoreInv'
<1> DEFINE s == job[w].sid
           d == [ver |-> job[w].ver, status |-> "resumable"]
<1> USE DEF StoreInv
<1>1. /\ job[w].pc = "save_files"
      /\ s \in Sessions
      /\ job[w].ver = nsaves
      /\ d # Absent
      /\ SaveIsNewest(w) /\ SaveProgress(w)
  BY JobType, Constants DEF WriteFile, Running, WriterInv, SaveIsNewest
<1>2. /\ job'[w].pc = "save_files"
      /\ job'[w].sid = s
      /\ job'[w].ver = nsaves
      /\ job'[w].pend = job[w].pend \ {f}
  BY <1>1 DEF WriteFile, TypeOK
<1>3. /\ \A t \in Sessions, g \in FileNames :
            file'[t][g] = IF t = s /\ g = f THEN d ELSE file[t][g]
      /\ dirs' = dirs \union {s}
      /\ UNCHANGED <<index, nsaves, shapeOf, kept, gone>>
  BY <1>1 DEF WriteFile, TypeOK, history
<1>4. SnapIsCurrent(w)' /\ DeleteProgress(w)' /\ ExpireProgress(w)'
  BY <1>2 DEF SnapIsCurrent, DeleteProgress, ExpireProgress
<1>5. SaveIsNewest(w)'
  BY <1>1, <1>2, <1>3 DEF SaveIsNewest
<1>6. SaveProgress(w)'
  <2>1. shapeOf[nsaves] \subseteq FileNames
    BY <1>1, JobType DEF TypeOK
  <2> QED
    BY <1>1, <1>2, <1>3, <2>1 DEF SaveProgress
<1>7. Numbering'
  BY <1>1, <1>3, StoreTypes DEF Numbering
<1>8. DirsHoldFiles' /\ DeletedIsGone'
  <2>1. s \notin gone
    BY <1>1 DEF SaveProgress
  <2>2. \A t \in Sessions \ {s}, g \in FileNames : file'[t][g] = file[t][g]
    BY <1>3
  <2>3. DirsHoldFiles'
    BY <1>3, <2>2 DEF DirsHoldFiles
  <2>4. gone \subseteq Sessions
    BY DEF TypeOK
  <2>5. DeletedIsGone'
    BY <1>3, <2>1, <2>2, <2>4 DEF DeletedIsGone
  <2> QED
    BY <2>3, <2>5
<1>9. ManifestIsNewest' /\ ExpiredInManifestFirst'
  BY <1>1, <1>3, StoreTypes, Constants DEF ManifestIsNewest,
     ExpiredInManifestFirst, SaveIsNewest
<1>10. SavedIsListed'
  BY <1>3 DEF SavedIsListed
<1>11. ListedIsComplete'
  <2>1. \A t \in Sessions : index[t] # Absent =>
          shapeOf[index[t].ver] \subseteq FileNames
    BY StoreTypes DEF TypeOK
  <2> QED
    BY <1>1, <1>3, <2>1, StoreTypes DEF ListedIsComplete, SaveIsNewest
<1> QED
  BY <1>4, <1>5, <1>6, <1>7, <1>8, <1>9, <1>10, <1>11, OnlyWriter

LEMMA ReadIndexForSaveInv ==
    ASSUME TypeOK, StoreInv, NEW w \in Writers, Alone(w), ReadIndexForSave(w)
    PROVE  StoreInv'
<1> USE DEF StoreInv
<1>1. /\ job[w].pc = "save_files"
      /\ job[w].pend = {}
      /\ SaveIsNewest(w) /\ SaveProgress(w)
      /\ UNCHANGED <<store, history>>
  BY DEF ReadIndexForSave, Running, WriterInv
<1>2. /\ job'[w].pc = "save_index"
      /\ job'[w].sid = job[w].sid
      /\ job'[w].ver = job[w].ver
      /\ job'[w].pend = {}
      /\ job'[w].snap = index
  <2>1. job' = [job EXCEPT ![w] = [job[w] EXCEPT !.pc = "save_index", !.snap = index]]
    BY DEF ReadIndexForSave
  <2>2. job'[w] = [job[w] EXCEPT !.pc = "save_index", !.snap = index]
    BY <2>1 DEF TypeOK
  <2> QED
    BY <1>1, <2>2, JobType DEF Jobs
<1>3. SnapIsCurrent(w)' /\ DeleteProgress(w)' /\ ExpireProgress(w)'
  BY <1>1, <1>2 DEF SnapIsCurrent, DeleteProgress, ExpireProgress, store
<1>4. SaveIsNewest(w)' /\ SaveProgress(w)'
  BY <1>1, <1>2 DEF SaveIsNewest, SaveProgress, store, history
<1>5. WriterInv'
  BY <1>3, <1>4, OnlyWriter
<1> QED
  BY <1>1, <1>5 DEF Numbering, DirsHoldFiles, ManifestIsNewest, SavedIsListed,
     ListedIsComplete, DeletedIsGone, ExpiredInManifestFirst, store, history

LEMMA WriteIndexForSaveInv ==
    ASSUME TypeOK, StoreInv, NEW w \in Writers, Alone(w), WriteIndexForSave(w)
    PROVE  StoreInv'
<1> DEFINE s == job[w].sid
           d == [ver |-> job[w].ver, status |-> "resumable"]
<1> USE DEF StoreInv
<1>1. /\ job[w].pc = "save_index"
      /\ s \in Sessions
      /\ job[w].ver = nsaves
      /\ d # Absent
      /\ job[w].pend = {}
      /\ job[w].snap = index
      /\ SaveIsNewest(w) /\ SaveProgress(w)
  <2>1. /\ job[w].pc = "save_index"
        /\ SaveIsNewest(w) /\ SaveProgress(w) /\ SnapIsCurrent(w)
    BY DEF WriteIndexForSave, Running, WriterInv
  <2>2. s \in Sessions /\ d # Absent
    BY <2>1, JobType, Constants
  <2>3. job[w].ver = nsaves /\ job[w].snap = index
    BY <2>1 DEF SaveIsNewest, SnapIsCurrent
  <2>4. job[w].pend = {}
    BY <2>1 DEF SaveProgress
  <2> QED
    BY <2>1, <2>2, <2>3, <2>4
<1>2. job'[w].pc = "idle"
  BY DEF WriteIndexForSave, Finish, Idle, TypeOK
<1>3. /\ \A t \in Sessions : index'[t] = IF t = s THEN d ELSE index[t]
      /\ UNCHANGED <<dirs, file, nsaves, shapeOf, gone>>
  BY <1>1 DEF WriteIndexForSave, TypeOK
<1>4. \A t \in Sessions : kept'[t] = IF t = s THEN nsaves ELSE kept[t]
  <2>1. ~ \E u \in Writers \ {w} : Saving(u, s) \/ Deleting(u, s)
    BY DEF Alone, Saving, Deleting
  <2> QED
    BY <1>1, <2>1 DEF WriteIndexForSave, TypeOK
<1>5. WriterInv'
  BY <1>2, OnlyWriter DEF SnapIsCurrent, SaveIsNewest, SaveProgress,
     DeleteProgress, ExpireProgress
<1>6. /\ "manifest" \in shapeOf[nsaves]
      /\ \A f \in shapeOf[nsaves] : file[s][f] # Absent /\ file[s][f].ver = nsaves
  BY <1>1 DEF SaveProgress
<1>7. d.ver = nsaves /\ d.status = "resumable" /\ nsaves \in Nat
  BY <1>1, StoreTypes
<1> HIDE DEF d
<1>8. Numbering' /\ DirsHoldFiles'
  BY <1>3, <1>7 DEF Numbering, DirsHoldFiles
<1>9. ManifestIsNewest' /\ ExpiredInManifestFirst'
  BY <1>3, <1>6, <1>7 DEF ManifestIsNewest, ExpiredInManifestFirst
<1>10. SavedIsListed'
  BY <1>1, <1>3, <1>4, <1>7 DEF SavedIsListed
<1>11. ListedIsComplete'
  BY <1>3, <1>4, <1>6, <1>7 DEF ListedIsComplete
<1>12. DeletedIsGone'
  BY <1>1, <1>3 DEF DeletedIsGone, SaveProgress, TypeOK
<1> QED
  BY <1>5, <1>8, <1>9, <1>10, <1>11, <1>12

-----------------------------------------------------------------------------
LEMMA BeginDeleteInv ==
    ASSUME TypeOK, StoreInv, NEW w \in Writers, Alone(w), NEW s \in Sessions,
           BeginDelete(w, s)
    PROVE  StoreInv'
<1> USE DEF StoreInv
<1>1. /\ job'[w].pc = IF s \in dirs THEN "del_files" ELSE "del_read"
      /\ job'[w].sid = s
  BY DEF BeginDelete, TypeOK, Idle
<1>2. /\ \A t \in Sessions : kept'[t] = IF t = s THEN 0 ELSE kept[t]
      /\ UNCHANGED <<store, gone>>
  BY DEF BeginDelete, TypeOK
<1>3. SnapIsCurrent(w)' /\ SaveIsNewest(w)' /\ SaveProgress(w)' /\ ExpireProgress(w)'
  BY <1>1 DEF SnapIsCurrent, SaveIsNewest, SaveProgress, ExpireProgress
<1>4. DeleteProgress(w)'
  BY <1>1, <1>2 DEF DeleteProgress, DirsHoldFiles, store
<1>5. WriterInv'
  BY <1>3, <1>4, OnlyWriter
<1>6. SavedIsListed' /\ ListedIsComplete'
  BY <1>2 DEF SavedIsListed, ListedIsComplete, store
<1> QED
  BY <1>2, <1>5, <1>6 DEF Numbering, DirsHoldFiles, ManifestIsNewest,
     DeletedIsGone, ExpiredInManifestFirst, store

LEMMA UnlinkInv ==
    ASSUME TypeOK, StoreInv, NEW w \in Writers, Alone(w),
           NEW f \in FileNames, Unlink(w, f)
    PROVE  StoreInv'
<1> DEFINE s == job[w].sid
<1> USE DEF StoreInv
<1>1. /\ job[w].pc = "del_files"
      /\ s \in Sessions
      /\ kept[s] = 0
  BY JobType DEF Unlink, Running, WriterInv, DeleteProgress
<1>2. job'[w].pc = "del_files" /\ job'[w].sid = s
  BY <1>1 DEF Unlink, TypeOK
<1>3. /\ \A t \in Sessions, g \in FileNames :
            file'[t][g] = IF t = s /\ g = f THEN Absent ELSE file[t][g]
      /\ UNCHANGED <<index, dirs, nsaves, shapeOf, kept, gone>>
  BY <1>1 DEF Unlink, TypeOK, history
<1>4. WriterInv'
  BY <1>1, <1>2, <1>3, OnlyWriter DEF SnapIsCurrent, SaveIsNewest, SaveProgress,
     DeleteProgress, ExpireProgress
<1>5. Numbering' /\ DirsHoldFiles'
  BY <1>3 DEF Numbering, DirsHoldFiles
<1>6. ManifestIsNewest' /\ ExpiredInManifestFirst'
  BY <1>3, Constants DEF ManifestIsNewest, ExpiredInManifestFirst
<1>7. SavedIsListed'
  BY <1>3 DEF SavedIsListed
<1>8. ListedIsComplete'
  <2>1. \A t \in Sessions : index[t] # Absent =>
          shapeOf[index[t].ver] \subseteq FileNames
    BY StoreTypes DEF TypeOK
  <2> QED
    BY <1>1, <1>3, <2>1 DEF ListedIsComplete
<1>9. DeletedIsGone'
  BY <1>3 DEF DeletedIsGone, TypeOK
<1> QED
  BY <1>4, <1>5, <1>6, <1>7, <1>8, <1>9

LEMMA RemoveDirInv ==
    ASSUME TypeOK, StoreInv, NEW w \in Writers, Alone(w), RemoveDir(w)
    PROVE  StoreInv'
<1> DEFINE s == job[w].sid
<1> USE DEF StoreInv
<1>1. /\ job[w].pc = "del_files"
      /\ s \in Sessions
      /\ kept[s] = 0
      /\ \A f \in FileNames : file[s][f] = Absent
  BY JobType DEF RemoveDir, Running, WriterInv, DeleteProgress
<1>2. job'[w].pc = "del_read" /\ job'[w].sid = s
  BY <1>1 DEF RemoveDir, TypeOK
<1>3. /\ dirs' = dirs \ {s}
      /\ UNCHANGED <<index, file, nsaves, shapeOf, kept, gone>>
  BY DEF RemoveDir, history
<1>4. WriterInv'
  BY <1>1, <1>2, <1>3, OnlyWriter DEF SnapIsCurrent, SaveIsNewest, SaveProgress,
     DeleteProgress, ExpireProgress
<1>5. DirsHoldFiles'
  BY <1>1, <1>3 DEF DirsHoldFiles
<1> QED
  BY <1>3, <1>4, <1>5 DEF Numbering, ManifestIsNewest, SavedIsListed,
     ListedIsComplete, DeletedIsGone, ExpiredInManifestFirst

LEMMA ReadIndexForDeleteInv ==
    ASSUME TypeOK, StoreInv, NEW w \in Writers, Alone(w), ReadIndexForDelete(w)
    PROVE  StoreInv'
<1> USE DEF StoreInv
<1>1. /\ job[w].pc = "del_read"
      /\ DeleteProgress(w)
      /\ UNCHANGED <<store, history>>
  BY DEF ReadIndexForDelete, Running, WriterInv
<1>2. /\ job'[w].pc = "del_index"
      /\ job'[w].sid = job[w].sid
      /\ job'[w].snap = index
  <2>1. job' = [job EXCEPT ![w] = [job[w] EXCEPT !.pc = "del_index", !.snap = index]]
    BY DEF ReadIndexForDelete
  <2>2. job'[w] = [job[w] EXCEPT !.pc = "del_index", !.snap = index]
    BY <2>1 DEF TypeOK
  <2> QED
    BY <2>2, JobType DEF Jobs
<1>3. WriterInv'
  BY <1>1, <1>2, OnlyWriter DEF SnapIsCurrent, SaveIsNewest, SaveProgress,
     DeleteProgress, ExpireProgress, store, history
<1> QED
  BY <1>1, <1>3 DEF Numbering, DirsHoldFiles, ManifestIsNewest, SavedIsListed,
     ListedIsComplete, DeletedIsGone, ExpiredInManifestFirst, store, history

LEMMA WriteIndexForDeleteInv ==
    ASSUME TypeOK, StoreInv, NEW w \in Writers, Alone(w), WriteIndexForDelete(w)
    PROVE  StoreInv'
<1> DEFINE s == job[w].sid
<1> USE DEF StoreInv
<1>1. /\ job[w].pc = "del_index"
      /\ s \in Sessions
      /\ job[w].snap = index
      /\ kept[s] = 0
      /\ DeleteProgress(w)
  BY JobType DEF WriteIndexForDelete, Running, WriterInv, DeleteProgress, SnapIsCurrent
<1>2. job'[w].pc = "del_receipt" /\ job'[w].sid = s
  BY DEF WriteIndexForDelete, TypeOK
<1>3. /\ \A t \in Sessions : index'[t] = IF t = s THEN Absent ELSE index[t]
      /\ UNCHANGED <<dirs, file, nsaves, shapeOf, kept, gone>>
  BY <1>1 DEF WriteIndexForDelete, TypeOK, history
<1>4. WriterInv'
  BY <1>1, <1>2, <1>3, OnlyWriter DEF SnapIsCurrent, SaveIsNewest, SaveProgress,
     DeleteProgress, ExpireProgress
<1>5. Numbering' /\ DirsHoldFiles' /\ ManifestIsNewest' /\ ExpiredInManifestFirst'
  BY <1>3 DEF Numbering, DirsHoldFiles, ManifestIsNewest, ExpiredInManifestFirst
<1>6. SavedIsListed' /\ ListedIsComplete'
  BY <1>1, <1>3 DEF SavedIsListed, ListedIsComplete
<1>7. DeletedIsGone'
  BY <1>3 DEF DeletedIsGone, TypeOK
<1> QED
  BY <1>4, <1>5, <1>6, <1>7

LEMMA WriteReceiptInv ==
    ASSUME TypeOK, StoreInv, NEW w \in Writers, Alone(w), WriteReceipt(w)
    PROVE  StoreInv'
<1> DEFINE s == job[w].sid
<1> USE DEF StoreInv
<1>1. /\ job[w].pc = "del_receipt"
      /\ index[s] = Absent
      /\ s \notin dirs
      /\ \A f \in FileNames : file[s][f] = Absent
  BY DEF WriteReceipt, Running, WriterInv, DeleteProgress
<1>2. job'[w].pc = "idle"
  BY DEF WriteReceipt, Finish, Idle, TypeOK
<1>3. /\ gone' \subseteq gone \union {s}
      /\ UNCHANGED <<index, dirs, file, nsaves, shapeOf, kept>>
  BY DEF WriteReceipt
<1>4. WriterInv'
  BY <1>2, OnlyWriter DEF SnapIsCurrent, SaveIsNewest, SaveProgress,
     DeleteProgress, ExpireProgress
<1>5. DeletedIsGone'
  BY <1>1, <1>3 DEF DeletedIsGone
<1> QED
  BY <1>3, <1>4, <1>5 DEF Numbering, DirsHoldFiles, ManifestIsNewest,
     SavedIsListed, ListedIsComplete, ExpiredInManifestFirst

-----------------------------------------------------------------------------
LEMMA BeginExpireInv ==
    ASSUME TypeOK, StoreInv, NEW w \in Writers, Alone(w),
           NEW now \in 0 .. MaxSaves, BeginExpire(w, now)
    PROVE  StoreInv'
<1> USE DEF StoreInv
<1>1. /\ job'[w].pc = "exp_marks"
      /\ job'[w].now = now
      /\ job'[w].due = Due(index, now)
      /\ job'[w].snap = index
      /\ UNCHANGED <<store, history>>
  BY DEF BeginExpire, TypeOK, Idle
<1>2. WriterInv'
  BY <1>1, OnlyWriter DEF SnapIsCurrent, SaveIsNewest, SaveProgress,
     DeleteProgress, ExpireProgress, store
<1> QED
  BY <1>1, <1>2 DEF Numbering, DirsHoldFiles, ManifestIsNewest, SavedIsListed,
     ListedIsComplete, DeletedIsGone, ExpiredInManifestFirst, store, history

LEMMA SkipManifestInv ==
    ASSUME TypeOK, StoreInv, NEW w \in Writers, Alone(w), NEW s \in Sessions,
           SkipManifest(w, s)
    PROVE  StoreInv'
<1> USE DEF StoreInv
<1>1. /\ job[w].pc = "exp_marks"
      /\ job[w].snap = index
      /\ file[s]["manifest"] = Absent
      /\ ExpireProgress(w)
      /\ UNCHANGED <<store, history>>
  BY DEF SkipManifest, Running, WriterInv, SnapIsCurrent
<1>2. /\ job'[w].pc = "exp_marks"
      /\ job'[w].now = job[w].now
      /\ job'[w].snap = index
      /\ job'[w].due = job[w].due \ {s}
  BY <1>1 DEF SkipManifest, TypeOK
<1>3. ExpireProgress(w)'
  BY <1>1, <1>2 DEF ExpireProgress, store
<1>4. WriterInv'
  BY <1>1, <1>2, <1>3, OnlyWriter DEF SnapIsCurrent, SaveIsNewest, SaveProgress,
     DeleteProgress, store
<1> QED
  BY <1>1, <1>4 DEF Numbering, DirsHoldFiles, ManifestIsNewest, SavedIsListed,
     ListedIsComplete, DeletedIsGone, ExpiredInManifestFirst, store, history

LEMMA ReadManifestInv ==
    ASSUME TypeOK, StoreInv, NEW w \in Writers, Alone(w), NEW s \in Sessions,
           ReadManifest(w, s)
    PROVE  StoreInv'
<1> USE DEF StoreInv
<1>1. /\ job[w].pc = "exp_marks"
      /\ job[w].snap = index
      /\ s \in job[w].due
      /\ ExpireProgress(w)
      /\ UNCHANGED <<store, history>>
  BY DEF ReadManifest, Running, WriterInv, SnapIsCurrent
<1>2. /\ job'[w].pc = "exp_write"
      /\ job'[w].sid = s
      /\ job'[w].read = file[s]["manifest"]
      /\ job'[w].now = job[w].now
      /\ job'[w].snap = job[w].snap
      /\ job'[w].due = job[w].due
  <2> DEFINE j == [job[w] EXCEPT !.pc = "exp_write", !.sid = s,
                                 !.read = file[s]["manifest"]]
  <2>1. job' = [job EXCEPT ![w] = j]
    BY DEF ReadManifest
  <2>2. job'[w] = j
    BY <2>1 DEF TypeOK
  <2> QED
    BY <2>2, JobType DEF Jobs
<1>3. ExpireProgress(w)'
  BY <1>1, <1>2 DEF ExpireProgress, store
<1>4. WriterInv'
  BY <1>1, <1>2, <1>3, OnlyWriter DEF SnapIsCurrent, SaveIsNewest, SaveProgress,
     DeleteProgress, store
<1> QED
  BY <1>1, <1>4 DEF Numbering, DirsHoldFiles, ManifestIsNewest, SavedIsListed,
     ListedIsComplete, DeletedIsGone, ExpiredInManifestFirst, store, history

LEMMA MarkManifestInv ==
    ASSUME TypeOK, StoreInv, NEW w \in Writers, Alone(w), MarkManifest(w)
    PROVE  StoreInv'
<1> DEFINE s == job[w].sid
           m == file[s]["manifest"]
           d == [ver |-> job[w].read.ver, status |-> "expired"]
<1> USE DEF StoreInv
<1>1. /\ job[w].pc = "exp_write"
      /\ s \in Sessions
      /\ job[w].snap = index
      /\ s \in job[w].due
      /\ job[w].read = m
      /\ m # Absent
      /\ ExpireProgress(w)
  BY JobType DEF MarkManifest, Running, WriterInv, SnapIsCurrent, ExpireProgress
<1>2. index[s] # Absent
  BY <1>1, ExpiredType, JobType DEF ExpireProgress, TypeOK
<1>3. /\ job'[w].pc = "exp_marks"
      /\ job'[w].now = job[w].now
      /\ job'[w].snap = index
      /\ job'[w].due = job[w].due \ {s}
  <2> DEFINE j == [job[w] EXCEPT !.pc = "exp_marks", !.sid = Absent,
                                 !.read = Absent, !.due = @ \ {s}]
  <2>1. job' = [job EXCEPT ![w] = j]
    BY DEF MarkManifest
  <2>2. job'[w] = j
    BY <2>1 DEF TypeOK
  <2> QED
    BY <1>1, <2>2, JobType DEF Jobs
<1>4. /\ \A t \in Sessions, g \in FileNames :
            file'[t][g] = IF t = s /\ g = "manifest" THEN d ELSE file[t][g]
      /\ dirs' = dirs \union {s}
      /\ UNCHANGED <<index, nsaves, shapeOf, kept, gone>>
  BY <1>1 DEF MarkManifest, TypeOK, history
<1>5. d # Absent /\ d.ver = m.ver /\ d.status = "expired"
  <2>1. m.ver \in Versions
    BY <1>1, StoreTypes, Constants
  <2> QED
    BY <1>1, <2>1, Constants
<1>6. s \notin gone
  BY <1>2 DEF DeletedIsGone
<1> HIDE DEF s, m, d
<1>7. ExpireProgress(w)'
  <2>1. Due(index, job[w].now) \subseteq Sessions /\ "manifest" \in FileNames
    BY Constants DEF Due
  <2> QED
    BY <1>1, <1>3, <1>4, <1>5, <2>1 DEF ExpireProgress
<1>8. WriterInv'
  BY <1>3, <1>4, <1>7, OnlyWriter DEF SnapIsCurrent, SaveIsNewest, SaveProgress,
     DeleteProgress
<1>9. Numbering' /\ DirsHoldFiles'
  BY <1>1, <1>4, <1>5, Constants DEF Numbering, DirsHoldFiles, m
<1>10. ManifestIsNewest' /\ ExpiredInManifestFirst'
  BY <1>1, <1>4, <1>5, Constants DEF ManifestIsNewest, ExpiredInManifestFirst, m
<1>11. SavedIsListed'
  BY <1>4 DEF SavedIsListed
<1>12. ListedIsComplete'
  <2>1. \A t \in Sessions : index[t] # Absent =>
          shapeOf[index[t].ver] \subseteq FileNames
    BY StoreTypes DEF TypeOK
  <2> QED
    BY <1>1, <1>4, <1>5, <2>1 DEF ListedIsComplete, m
<1>13. DeletedIsGone'
  BY <1>4, <1>6 DEF DeletedIsGone, TypeOK
<1> QED
  BY <1>8, <1>9, <1>10, <1>11, <1>12, <1>13

LEMMA WriteIndexForExpireInv ==
    ASSUME TypeOK, StoreInv, NEW w \in Writers, Alone(w), WriteIndexForExpire(w)
    PROVE  StoreInv'
<1> DEFINE now == job[w].now
<1> USE DEF StoreInv
<1>1. /\ job[w].snap = index
      /\ job[w].due = {}
      /\ \A s \in Due(index, now) : file[s]["manifest"] # Absent =>
            \/ file[s]["manifest"].ver > index[s].ver
            \/ file[s]["manifest"].status = "expired"
  BY DEF WriteIndexForExpire, Running, WriterInv, SnapIsCurrent, ExpireProgress
<1>2. job'[w].pc = "idle"
  BY DEF WriteIndexForExpire, Finish, Idle, TypeOK
<1>3. /\ index' = Expired(index, now)
      /\ UNCHANGED <<dirs, file, nsaves, shapeOf, kept, gone>>
  BY <1>1 DEF WriteIndexForExpire, history
<1>4. \A s \in Sessions :
        /\ index'[s] = Absent <=> index[s] = Absent
        /\ index[s] # Absent => index'[s].ver = index[s].ver
        /\ s \notin Due(index, now) => index'[s] = index[s]
  BY <1>3, ExpiredType, JobType DEF TypeOK
<1>5. WriterInv'
  BY <1>2, OnlyWriter DEF SnapIsCurrent, SaveIsNewest, SaveProgress,
     DeleteProgress, ExpireProgress
<1>6. Numbering' /\ DirsHoldFiles' /\ ManifestIsNewest'
  BY <1>3, <1>4 DEF Numbering, DirsHoldFiles, ManifestIsNewest
<1>7. SavedIsListed' /\ ListedIsComplete'
  BY <1>3, <1>4 DEF SavedIsListed, ListedIsComplete
<1>8. DeletedIsGone'
  BY <1>3, <1>4 DEF DeletedIsGone, TypeOK
<1>9. ExpiredInManifestFirst'
  <2> SUFFICES ASSUME NEW s \in Sessions, index'[s] # Absent,
                      index'[s].status = "expired", file[s]["manifest"] # Absent,
                      file[s]["manifest"].ver <= index'[s].ver
               PROVE  file[s]["manifest"].status = "expired"
    BY <1>3 DEF ExpiredInManifestFirst
  <2>1. CASE s \in Due(index, now)
    BY <1>1, <1>4, <2>1, StoreTypes, Constants
  <2>2. CASE s \notin Due(index, now)
    BY <1>4, <2>2 DEF ExpiredInManifestFirst
  <2> QED
    BY <2>1, <2>2
<1> QED
  BY <1>5, <1>6, <1>7, <1>8, <1>9

(* RemoveDirFails and Abort: what is half done stays half done. *)
LEMMA EndInv ==
    ASSUME TypeOK, StoreInv, NEW w \in Writers, Alone(w),
           Finish(w), UNCHANGED <<store, view, history>>
    PROVE  StoreInv'
<1> USE DEF StoreInv
<1>1. job'[w].pc = "idle"
  BY DEF Finish, Idle, TypeOK
<1>2. WriterInv'
  BY <1>1, OnlyWriter DEF SnapIsCurrent, SaveIsNewest, SaveProgress,
     DeleteProgress, ExpireProgress
<1> QED
  BY <1>2 DEF Numbering, DirsHoldFiles, ManifestIsNewest, SavedIsListed,
     ListedIsComplete, DeletedIsGone, ExpiredInManifestFirst, store, history

LEMMA StoreInvStep ==
    ASSUME TypeOK, StoreInv, NoOverlap, NoOverlap', [Next]_vars
    PROVE  StoreInv'
<1>0. \A w \in Writers :
        Begin(w) \/ SaveStep(w) \/ DeleteStep(w) \/ ExpireStep(w) \/ Abort(w)
            => Alone(w)
  BY MovesAlone
<1>1. ASSUME NEW w \in Writers, Begin(w) PROVE StoreInv'
  BY <1>0, <1>1, BeginSaveInv, BeginDeleteInv, BeginExpireInv DEF Begin
<1>2. ASSUME NEW w \in Writers, SaveStep(w) PROVE StoreInv'
  BY <1>0, <1>2, WriteFileInv, ReadIndexForSaveInv, WriteIndexForSaveInv DEF SaveStep
<1>3. ASSUME NEW w \in Writers, DeleteStep(w) PROVE StoreInv'
  BY <1>0, <1>3, UnlinkInv, RemoveDirInv, EndInv, ReadIndexForDeleteInv,
     WriteIndexForDeleteInv, WriteReceiptInv DEF DeleteStep, RemoveDirFails
<1>4. ASSUME NEW w \in Writers, ExpireStep(w) PROVE StoreInv'
  BY <1>0, <1>4, SkipManifestInv, ReadManifestInv, MarkManifestInv,
     WriteIndexForExpireInv DEF ExpireStep
<1>5. ASSUME NEW w \in Writers, Abort(w) PROVE StoreInv'
  BY <1>0, <1>5, EndInv DEF Abort
<1>6. ASSUME UNCHANGED <<store, job, history>> PROVE StoreInv'
  BY <1>6 DEF StoreInv, WriterInv, SnapIsCurrent, SaveIsNewest, SaveProgress,
     DeleteProgress, ExpireProgress, Numbering, DirsHoldFiles, ManifestIsNewest,
     SavedIsListed, ListedIsComplete, DeletedIsGone, ExpiredInManifestFirst,
     store, history
<1>7. ASSUME NEW r \in Readers,
             (\E s \in Sessions : PreviewIndex(r, s)) \/ PreviewStep(r)
      PROVE  StoreInv'
  BY <1>6, <1>7 DEF PreviewIndex, PreviewStep, PreviewNothing, PreviewManifest,
     PreviewRuntime
<1>8. CASE UNCHANGED vars
  BY <1>6, <1>8 DEF vars
<1> QED
  BY <1>1, <1>2, <1>3, <1>4, <1>5, <1>7, <1>8 DEF Next

LEMMA StoreInvariant == Spec /\ []NoOverlap => [](TypeOK /\ StoreInv)
<1>1. TypeOK /\ StoreInv /\ NoOverlap /\ NoOverlap' /\ [Next]_vars => StoreInv'
  BY StoreInvStep
<1> QED
  BY TypeInit, TypeStep, StoreInvInit, <1>1, PTL DEF Spec

-----------------------------------------------------------------------------
(* What an overlap-free store promises, for all values of the constants.   *)

(* A saved session stays on the list until its delete begins, whatever is  *)
(* cut off and whatever previews run.                                      *)
THEOREM SavedSessionsAreListed == Spec /\ []NoOverlap => []SavedIsListed
<1>1. StoreInv => SavedIsListed
  BY DEF StoreInv
<1> QED
  BY StoreInvariant, <1>1, PTL

(* A session that a finished save put on the list has all its documents.   *)
THEOREM ListedSessionsAreComplete == Spec /\ []NoOverlap => []ListedIsComplete
<1>1. StoreInv => ListedIsComplete
  BY DEF StoreInv
<1> QED
  BY StoreInvariant, <1>1, PTL

(* A deleted session has neither entry nor documents until it is saved     *)
(* again: an expire that runs later, or was cut off before, does not bring *)
(* its manifest back.                                                      *)
THEOREM DeletedSessionsAreGone == Spec /\ []NoOverlap => []DeletedIsGone
<1>1. StoreInv => DeletedIsGone
  BY DEF StoreInv
<1> QED
  BY StoreInvariant, <1>1, PTL

(* The list never calls a session expired whose manifest, of that record,  *)
(* still says resumable.                                                   *)
THEOREM ManifestsExpireFirst == Spec /\ []NoOverlap => []ExpiredInManifestFirst
<1>1. StoreInv => ExpiredInManifestFirst
  BY DEF StoreInv
<1> QED
  BY StoreInvariant, <1>1, PTL

-----------------------------------------------------------------------------
(* What each step may do to the list.  Only three actions write index.json. *)

LEMMA IndexChange ==
    ASSUME TypeOK, StoreInv, [Next]_vars
    PROVE  \/ UNCHANGED index
           \/ \E w \in Writers :
                \/ /\ job[w].pc = "save_index" /\ job[w].sid \in Sessions
                   /\ job[w].ver = nsaves /\ nsaves > 0
                   /\ index' = [index EXCEPT ![job[w].sid] =
                                  [ver |-> nsaves, status |-> "resumable"]]
                   /\ UNCHANGED nsaves
                \/ /\ job[w].pc = "del_index" /\ job[w].sid \in Sessions
                   /\ index' = [index EXCEPT ![job[w].sid] = Absent]
                   /\ UNCHANGED nsaves
                \/ /\ job[w].pc = "exp_marks"
                   /\ index' = Expired(index, job[w].now)
                   /\ UNCHANGED nsaves
<1>1. ASSUME NEW w \in Writers, WriteIndexForSave(w)
      PROVE  /\ job[w].pc = "save_index" /\ job[w].sid \in Sessions
             /\ job[w].ver = nsaves /\ nsaves > 0
             /\ index' = [index EXCEPT ![job[w].sid] =
                            [ver |-> nsaves, status |-> "resumable"]]
             /\ UNCHANGED nsaves
  <2>1. job[w].pc = "save_index" /\ SnapIsCurrent(w) /\ SaveIsNewest(w)
    BY <1>1 DEF WriteIndexForSave, Running, StoreInv, WriterInv
  <2>2. job[w].snap = index /\ job[w].ver = nsaves
    BY <2>1 DEF SnapIsCurrent, SaveIsNewest
  <2>3. job[w].sid \in Sessions /\ nsaves > 0
    BY <2>1, <2>2, JobType DEF Versions
  <2> QED
    BY <1>1, <2>1, <2>2, <2>3 DEF WriteIndexForSave
<1>2. ASSUME NEW w \in Writers, WriteIndexForDelete(w)
      PROVE  /\ job[w].pc = "del_index" /\ job[w].sid \in Sessions
             /\ index' = [index EXCEPT ![job[w].sid] = Absent]
             /\ UNCHANGED nsaves
  BY <1>2, JobType DEF WriteIndexForDelete, Running, StoreInv, WriterInv, SnapIsCurrent
<1>3. ASSUME NEW w \in Writers, WriteIndexForExpire(w)
      PROVE  /\ job[w].pc = "exp_marks"
             /\ index' = Expired(index, job[w].now)
             /\ UNCHANGED nsaves
  BY <1>3 DEF WriteIndexForExpire, Running, StoreInv, WriterInv, SnapIsCurrent
<1>4. ASSUME NEW w \in Writers, Begin(w) \/ Abort(w) PROVE UNCHANGED index
  BY <1>4 DEF Begin, BeginSave, BeginDelete, BeginExpire, Abort, store
<1>5. ASSUME NEW w \in Writers, SaveStep(w), ~ WriteIndexForSave(w)
      PROVE  UNCHANGED index
  BY <1>5 DEF SaveStep, WriteFile, ReadIndexForSave, store
<1>6. ASSUME NEW w \in Writers, DeleteStep(w), ~ WriteIndexForDelete(w)
      PROVE  UNCHANGED index
  BY <1>6 DEF DeleteStep, Unlink, RemoveDir, RemoveDirFails, ReadIndexForDelete,
     WriteReceipt, store
<1>7. ASSUME NEW w \in Writers, ExpireStep(w), ~ WriteIndexForExpire(w)
      PROVE  UNCHANGED index
  BY <1>7 DEF ExpireStep, SkipManifest, ReadManifest, MarkManifest, store
<1>8. ASSUME NEW r \in Readers,
             (\E s \in Sessions : PreviewIndex(r, s)) \/ PreviewStep(r)
      PROVE  UNCHANGED index
  BY <1>8 DEF PreviewIndex, PreviewStep, PreviewNothing, PreviewManifest,
     PreviewRuntime, store
<1>9. CASE UNCHANGED vars
  BY <1>9 DEF vars, store
<1> QED
  BY <1>1, <1>2, <1>3, <1>4, <1>5, <1>6, <1>7, <1>8, <1>9 DEF Next

(* Beginning a save is the only step that takes a number. *)
LEMMA NumberChange ==
    ASSUME [Next]_vars
    PROVE  \/ UNCHANGED nsaves
           \/ nsaves < MaxSaves /\ nsaves' = nsaves + 1
<1>1. ASSUME NEW w \in Writers, Begin(w)
      PROVE  UNCHANGED nsaves \/ (nsaves < MaxSaves /\ nsaves' = nsaves + 1)
  BY <1>1 DEF Begin, BeginSave, BeginDelete, BeginExpire, store
<1>2. ASSUME NEW w \in Writers, SaveStep(w) PROVE UNCHANGED nsaves
  BY <1>2 DEF SaveStep, WriteFile, ReadIndexForSave, WriteIndexForSave, store
<1>3. ASSUME NEW w \in Writers, DeleteStep(w) PROVE UNCHANGED nsaves
  BY <1>3 DEF DeleteStep, Unlink, RemoveDir, RemoveDirFails, ReadIndexForDelete,
     WriteIndexForDelete, WriteReceipt, store
<1>4. ASSUME NEW w \in Writers, ExpireStep(w) \/ Abort(w) PROVE UNCHANGED nsaves
  BY <1>4 DEF ExpireStep, SkipManifest, ReadManifest, MarkManifest,
     WriteIndexForExpire, Abort, store
<1>5. ASSUME NEW r \in Readers,
             (\E s \in Sessions : PreviewIndex(r, s)) \/ PreviewStep(r)
      PROVE  UNCHANGED nsaves
  BY <1>5 DEF PreviewIndex, PreviewStep, PreviewNothing, PreviewManifest,
     PreviewRuntime, store
<1>6. CASE UNCHANGED vars
  BY <1>6 DEF vars, store
<1> QED
  BY <1>1, <1>2, <1>3, <1>4, <1>5, <1>6 DEF Next

(* No command touches the entries of sessions it was not given, expire     *)
(* adds and removes none, and only a save makes a session resumable.       *)
THEOREM EntriesAreOwn == Spec /\ []NoOverlap => EntriesChangeByOwnCommand
<1> DEFINE Own(s) ==
        /\ (index[s] = Absent /\ index'[s] # Absent)
              => \E w \in Writers : Saving(w, s)
        /\ (index[s] # Absent /\ index'[s] = Absent)
              => \E w \in Writers : Deleting(w, s)
        /\ (index[s] # Absent /\ index'[s] # Absent
              /\ index[s].status = "expired" /\ index'[s].status = "resumable")
              => \E w \in Writers : Saving(w, s)
<1>1. ASSUME TypeOK, StoreInv, [Next]_vars, NEW s \in Sessions
      PROVE  Own(s)
  <2>1. CASE UNCHANGED index
    BY <2>1
  <2>2. ASSUME NEW w \in Writers, job[w].pc = "save_index", job[w].sid \in Sessions,
               nsaves > 0,
               index' = [index EXCEPT ![job[w].sid] =
                           [ver |-> nsaves, status |-> "resumable"]]
        PROVE  Own(s)
    <3>1. nsaves \in Versions
      BY <1>1, <2>2, MaxSavesAssumption DEF TypeOK, Versions
    <3>2. [ver |-> nsaves, status |-> "resumable"] # Absent
      BY <3>1, Constants
    <3>3. s # job[w].sid => index'[s] = index[s]
      BY <1>1, <2>2 DEF TypeOK
    <3>4. s = job[w].sid => index'[s] # Absent /\ Saving(w, s)
      BY <1>1, <2>2, <3>2 DEF TypeOK, Saving
    <3> QED
      BY <3>3, <3>4
  <2>3. ASSUME NEW w \in Writers, job[w].pc = "del_index", job[w].sid \in Sessions,
               index' = [index EXCEPT ![job[w].sid] = Absent]
        PROVE  Own(s)
    BY <1>1, <2>3 DEF TypeOK, Deleting
  <2>4. ASSUME NEW w \in Writers, index' = Expired(index, job[w].now)
        PROVE  Own(s)
    <3>1. index'[s] = IF s \in Due(index, job[w].now)
                      THEN [ver |-> index[s].ver, status |-> "expired"]
                      ELSE index[s]
      BY <2>4 DEF Expired
    <3>2. index'[s] = Absent <=> index[s] = Absent
      BY <1>1, <2>4, ExpiredType, JobType DEF TypeOK
    <3> QED
      BY <3>1, <3>2
  <2> QED
    BY <2>1, <2>2, <2>3, <2>4, <1>1, IndexChange
<1>2. TypeOK /\ StoreInv /\ [Next]_vars => [\A s \in Sessions : Own(s)]_vars
  BY <1>1
<1> QED
  BY StoreInvariant, <1>2, PTL DEF Spec, EntriesChangeByOwnCommand

(* A receipt is written after the directory and the entry have gone. *)
THEOREM ReceiptsComeLast == Spec /\ []NoOverlap => ReceiptAfterRemoval
<1>1. ASSUME TypeOK, StoreInv, Next, NEW s \in receipts' \ receipts
      PROVE  index[s] = Absent /\ s \notin dirs
  <2>1. ASSUME NEW w \in Writers,
               Begin(w) \/ SaveStep(w) \/ ExpireStep(w) \/ Abort(w)
        PROVE  UNCHANGED receipts
    <3>1. CASE Begin(w)
      BY <3>1 DEF Begin, BeginSave, BeginDelete, BeginExpire, store
    <3>2. CASE SaveStep(w)
      BY <3>2 DEF SaveStep, WriteFile, ReadIndexForSave, WriteIndexForSave, store
    <3>3. CASE ExpireStep(w)
      BY <3>3 DEF ExpireStep, SkipManifest, ReadManifest, MarkManifest,
         WriteIndexForExpire, store
    <3>4. CASE Abort(w)
      BY <3>4 DEF Abort, store
    <3> QED
      BY <2>1, <3>1, <3>2, <3>3, <3>4
  <2>2. \A w \in Writers : DeleteStep(w) => UNCHANGED receipts \/ WriteReceipt(w)
    BY DEF DeleteStep, Unlink, RemoveDir, RemoveDirFails, ReadIndexForDelete,
       WriteIndexForDelete, store
  <2>3. \A r \in Readers : (\E t \in Sessions : PreviewIndex(r, t)) \/ PreviewStep(r)
                          => UNCHANGED receipts
    BY DEF PreviewIndex, PreviewStep, PreviewNothing, PreviewManifest, PreviewRuntime,
       store
  <2>4. PICK w \in Writers : WriteReceipt(w)
    BY <1>1, <2>1, <2>2, <2>3 DEF Next
  <2>5. s = job[w].sid /\ job[w].pc = "del_receipt" /\ DeleteProgress(w)
    BY <1>1, <2>4 DEF WriteReceipt, Running, StoreInv, WriterInv
  <2> QED
    BY <2>5 DEF DeleteProgress
<1>2. TypeOK /\ StoreInv /\ [Next]_vars =>
        [\A s \in receipts' \ receipts : index[s] = Absent /\ s \notin dirs]_vars
  BY <1>1
<1> QED
  BY StoreInvariant, <1>2, PTL DEF Spec, ReceiptAfterRemoval

-----------------------------------------------------------------------------
(* The commands implement SessionCatalog: each takes effect on the list at *)
(* one instant, or not at all.                                             *)
THEOREM StoreImplementsCatalog == Spec /\ []NoOverlap => ImplementsCatalog
<1>1. Init => Catalog!Init
  BY DEF Init, Catalog!Init
<1>2. ASSUME TypeOK, StoreInv, [Next]_vars
      PROVE  [Catalog!Next]_<<index, nsaves>>
  <2>1. CASE UNCHANGED index
    <3>1. \/ UNCHANGED nsaves
          \/ nsaves < MaxSaves /\ nsaves' = nsaves + 1
      BY <1>2, NumberChange
    <3> QED
      BY <2>1, <3>1 DEF Catalog!Next, Catalog!Issue
  <2>2. ASSUME NEW w \in Writers, job[w].sid \in Sessions, nsaves > 0,
               index' = [index EXCEPT ![job[w].sid] =
                           [ver |-> nsaves, status |-> "resumable"]],
               UNCHANGED nsaves
        PROVE  Catalog!Next
    BY <2>2 DEF Catalog!Next, Catalog!Publish
  <2>3. ASSUME NEW w \in Writers, job[w].sid \in Sessions,
               index' = [index EXCEPT ![job[w].sid] = Absent],
               UNCHANGED nsaves
        PROVE  Catalog!Next
    BY <2>3 DEF Catalog!Next, Catalog!Remove
  <2>4. ASSUME NEW w \in Writers, index' = Expired(index, job[w].now), UNCHANGED nsaves
        PROVE  Catalog!Next
    <3>1. index' = [s \in Sessions |->
                      IF index[s] # Absent /\ index[s].ver <= job[w].now
                      THEN [ver |-> index[s].ver, status |-> "expired"]
                      ELSE index[s]]
      BY <2>4 DEF Expired, Due
    <3>2. job[w].now \in 0 .. MaxSaves
      BY <1>2, JobType
    <3> QED
      BY <2>4, <3>1, <3>2 DEF Catalog!Next, Catalog!ExpireAt
  <2> QED
    BY <1>2, <2>1, <2>2, <2>3, <2>4, IndexChange
<1>3. TypeOK /\ StoreInv /\ [Next]_vars => [Catalog!Next]_<<index, nsaves>>
  BY <1>2
<1> QED
  BY StoreInvariant, <1>1, <1>3, PTL DEF Spec, ImplementsCatalog, Catalog!Spec

-----------------------------------------------------------------------------
(* Previews.  What a writer can do to the manifest that a preview is about *)
(* to read: remove it, mark it, or replace it by a newer one.              *)

SaveRuns == \E w \in Writers : job[w].pc \in {"save_files", "save_index"}

ManifestKept(s) ==
    LET m == file[s]["manifest"]
        n == file'[s]["manifest"]
    IN  \/ n = Absent
        \/ n = m
        \/ m # Absent /\ n.ver = m.ver /\ n.status = "expired"
        \/ SaveRuns /\ n.ver = nsaves

LEMMA ViewKept ==
    ASSUME TypeOK, ViewInv, UNCHANGED view,
           \/ nsaves' = nsaves + 1
           \/ nsaves' = nsaves /\ (SaveRuns' => SaveRuns),
           \A s \in Sessions : ManifestKept(s)
    PROVE  ViewInv'
<1>1. PreviewIsCurrent'
  BY DEF ViewInv, PreviewIsCurrent
<1>2. ASSUME NEW r \in Readers, view[r].pc = "manifest", view[r].entry # Absent
      PROVE  /\ view[r].entry.ver <= nsaves'
             /\ SaveRuns' => view[r].entry.ver < nsaves'
             /\ LET manifest == file'[view[r].sid]["manifest"] IN
                manifest # Absent =>
                  /\ manifest.ver >= view[r].entry.ver
                  /\ view[r].entry.status = "expired"
                     /\ manifest.ver = view[r].entry.ver
                     => manifest.status = "expired"
  <2> DEFINE e == view[r].entry
             m == file[view[r].sid]["manifest"]
             n == file'[view[r].sid]["manifest"]
  <2>1. /\ e.ver <= nsaves
        /\ SaveRuns => e.ver < nsaves
        /\ m # Absent => /\ m.ver >= e.ver
                         /\ e.status = "expired" /\ m.ver = e.ver
                            => m.status = "expired"
    BY <1>2 DEF ViewInv, SaveRuns
  <2>2. view[r].sid \in Sessions /\ view[r].entry \in MaybeDoc
    BY <1>2 DEF TypeOK, Views
  <2>3. nsaves \in Nat /\ e.ver \in Nat
    BY <1>2, <2>2, Constants, StoreTypes
  <2>4. \/ n = Absent
        \/ n = m
        \/ m # Absent /\ n.ver = m.ver /\ n.status = "expired"
        \/ SaveRuns /\ n.ver = nsaves
    BY <2>2 DEF ManifestKept
  <2> HIDE DEF e, m, n
  <2>5. n # Absent => /\ n.ver >= e.ver
                      /\ e.status = "expired" /\ n.ver = e.ver => n.status = "expired"
    BY <2>1, <2>3, <2>4
  <2>6. e.ver <= nsaves' /\ (SaveRuns' => e.ver < nsaves')
    BY <2>1, <2>3
  <2> QED
    BY <2>5, <2>6 DEF e, n
<1>3. \A r \in Readers : view[r].pc = "manifest" => view[r].manifest = Absent
  BY DEF ViewInv
<1> QED
  BY <1>1, <1>2, <1>3 DEF ViewInv, SaveRuns

LEMMA WriterView ==
    ASSUME TypeOK, StoreInv, ViewInv, NEW w \in Writers, Alone(w),
           Begin(w) \/ SaveStep(w) \/ DeleteStep(w) \/ ExpireStep(w) \/ Abort(w)
    PROVE  ViewInv'
<1> DEFINE Kept == \A s \in Sessions : ManifestKept(s)
<1>1. UNCHANGED file => Kept
  BY DEF ManifestKept
<1>2. ASSUME UNCHANGED <<file, nsaves, view>>,
             job'[w].pc \notin {"save_files", "save_index"}
      PROVE  ViewInv'
  <2>1. ~ SaveRuns'
    BY <1>2 DEF SaveRuns, Alone
  <2> QED
    BY <1>1, <1>2, <2>1, ViewKept
<1>3. ASSUME NEW s \in Sessions, NEW shape \in Shapes, BeginSave(w, s, shape)
      PROVE  ViewInv'
  BY <1>1, <1>3, ViewKept DEF BeginSave
<1>4. ASSUME NEW f \in FileNames, WriteFile(w, f) PROVE ViewInv'
  <2>1. /\ job[w].pc = "save_files"
        /\ job[w].sid \in Sessions
        /\ job[w].ver = nsaves
    BY <1>4, JobType DEF WriteFile, Running, StoreInv, WriterInv, SaveIsNewest
  <2>2. SaveRuns /\ UNCHANGED <<nsaves, view>>
    BY <1>4, <2>1 DEF WriteFile, SaveRuns
  <2>3. \A s \in Sessions : \/ file'[s]["manifest"] = file[s]["manifest"]
                            \/ file'[s]["manifest"].ver = nsaves
    BY <1>4, <2>1, Constants DEF WriteFile, TypeOK
  <2>4. Kept
    BY <2>2, <2>3 DEF ManifestKept
  <2> QED
    BY <2>2, <2>4, ViewKept
<1>5. CASE ReadIndexForSave(w)
  <2>1. SaveRuns /\ UNCHANGED <<file, nsaves, view>>
    BY <1>5 DEF ReadIndexForSave, Running, SaveRuns, store
  <2> QED
    BY <1>1, <2>1, ViewKept
<1>6. ASSUME Finish(w), UNCHANGED <<file, nsaves, view>> PROVE ViewInv'
  BY <1>2, <1>6 DEF Finish, Idle, TypeOK
<1>7. ASSUME NEW s \in Sessions, BeginDelete(w, s) PROVE ViewInv'
  BY <1>2, <1>7 DEF BeginDelete, Idle, TypeOK, store
<1>8. ASSUME NEW f \in FileNames, Unlink(w, f) PROVE ViewInv'
  <2>1. job[w].pc = "del_files" /\ job[w].sid \in Sessions
    BY <1>8, JobType DEF Unlink, Running
  <2>2. job'[w].pc = "del_files" /\ UNCHANGED <<nsaves, view>>
    BY <1>8, <2>1 DEF Unlink, TypeOK
  <2>3. ~ SaveRuns'
    BY <2>2 DEF SaveRuns, Alone
  <2>4. \A s \in Sessions : \/ file'[s]["manifest"] = file[s]["manifest"]
                            \/ file'[s]["manifest"] = Absent
    BY <1>8, <2>1, Constants DEF Unlink, TypeOK
  <2>5. Kept
    BY <2>4 DEF ManifestKept
  <2> QED
    BY <2>2, <2>3, <2>5, ViewKept
<1>9. CASE RemoveDir(w)
  BY <1>2, <1>9 DEF RemoveDir, TypeOK
<1>10. CASE ReadIndexForDelete(w)
  <2>1. job' = [job EXCEPT ![w] = [job[w] EXCEPT !.pc = "del_index", !.snap = index]]
    BY <1>10 DEF ReadIndexForDelete
  <2>2. job'[w].pc = "del_index"
    BY <2>1, JobType DEF TypeOK, Jobs
  <2> QED
    BY <1>2, <1>10, <2>2 DEF ReadIndexForDelete, store
<1>11. CASE WriteIndexForDelete(w)
  BY <1>2, <1>11 DEF WriteIndexForDelete, TypeOK
<1>12. ASSUME NEW now \in 0 .. MaxSaves, BeginExpire(w, now) PROVE ViewInv'
  BY <1>2, <1>12 DEF BeginExpire, Idle, TypeOK, store
<1>13. ASSUME NEW s \in Sessions, SkipManifest(w, s) PROVE ViewInv'
  BY <1>2, <1>13 DEF SkipManifest, Running, TypeOK, store
<1>14. ASSUME NEW s \in Sessions, ReadManifest(w, s) PROVE ViewInv'
  <2>1. job' = [job EXCEPT ![w] = [job[w] EXCEPT !.pc = "exp_write", !.sid = s,
                                                 !.read = file[s]["manifest"]]]
    BY <1>14 DEF ReadManifest
  <2>2. job'[w].pc = "exp_write"
    BY <2>1, JobType DEF TypeOK, Jobs
  <2> QED
    BY <1>2, <1>14, <2>2 DEF ReadManifest, store
<1>15. CASE MarkManifest(w)
  <2> DEFINE s == job[w].sid
  <2>1. /\ job[w].pc = "exp_write"
        /\ s \in Sessions
        /\ job[w].read = file[s]["manifest"]
        /\ job[w].read # Absent
    BY <1>15, JobType DEF MarkManifest, Running, StoreInv, WriterInv, ExpireProgress
  <2>2. job'[w].pc = "exp_marks" /\ UNCHANGED <<nsaves, view>>
    <3>1. job' = [job EXCEPT ![w] = [job[w] EXCEPT !.pc = "exp_marks", !.sid = Absent,
                                                   !.read = Absent, !.due = @ \ {s}]]
      BY <1>15 DEF MarkManifest
    <3> QED
      BY <1>15, <3>1, JobType DEF MarkManifest, TypeOK, Jobs
  <2>3. ~ SaveRuns'
    BY <2>2 DEF SaveRuns, Alone
  <2>4. /\ \A t \in Sessions : t # s => file'[t]["manifest"] = file[t]["manifest"]
        /\ file'[s]["manifest"] = [ver |-> file[s]["manifest"].ver, status |-> "expired"]
    BY <1>15, <2>1, Constants DEF MarkManifest, TypeOK
  <2>5. Kept
    BY <2>1, <2>4 DEF ManifestKept
  <2> QED
    BY <2>2, <2>3, <2>5, ViewKept
<1>16. CASE Begin(w)
  BY <1>3, <1>7, <1>12, <1>16 DEF Begin
<1>17. CASE SaveStep(w)
  BY <1>4, <1>5, <1>6, <1>17 DEF SaveStep, WriteIndexForSave
<1>18. CASE DeleteStep(w)
  BY <1>6, <1>8, <1>9, <1>10, <1>11, <1>18 DEF DeleteStep, RemoveDirFails,
     WriteReceipt, store
<1>19. CASE ExpireStep(w)
  BY <1>6, <1>13, <1>14, <1>15, <1>19 DEF ExpireStep, WriteIndexForExpire
<1>20. CASE Abort(w)
  BY <1>6, <1>20 DEF Abort, store
<1> QED
  BY <1>16, <1>17, <1>18, <1>19, <1>20

LEMMA ReaderView ==
    ASSUME TypeOK, StoreInv, ViewInv, NEW r \in Readers,
           (\E s \in Sessions : PreviewIndex(r, s)) \/ PreviewStep(r)
    PROVE  ViewInv'
<1> DEFINE Ready(q) ==
        view[q].pc = "manifest" =>
          /\ view[q].manifest = Absent
          /\ view[q].entry # Absent =>
              /\ view[q].entry.ver <= nsaves
              /\ SaveRuns => view[q].entry.ver < nsaves
              /\ LET manifest == file[view[q].sid]["manifest"] IN
                 manifest # Absent =>
                   /\ manifest.ver >= view[q].entry.ver
                   /\ view[q].entry.status = "expired"
                      /\ manifest.ver = view[q].entry.ver
                      => manifest.status = "expired"
           Agrees(q) ==
             view[q].entry # Absent /\ view[q].manifest # Absent =>
               /\ view[q].manifest.ver >= view[q].entry.ver
               /\ view[q].entry.status = "expired"
                  /\ view[q].manifest.ver = view[q].entry.ver
                  => view[q].manifest.status = "expired"
<1>1. \A q \in Readers : Ready(q) /\ Agrees(q)
  BY DEF ViewInv, SaveRuns, PreviewIsCurrent
<1>2. /\ \A q \in Readers \ {r} : view'[q] = view[q]
      /\ UNCHANGED <<store, job, history>>
  BY DEF PreviewIndex, PreviewStep, PreviewNothing, PreviewManifest, PreviewRuntime, TypeOK
<1>3. SaveRuns' <=> SaveRuns
  BY <1>2 DEF SaveRuns
<1>4. Ready(r)' /\ Agrees(r)'
  <2>1. ASSUME NEW s \in Sessions, PreviewIndex(r, s) PROVE Ready(r)' /\ Agrees(r)'
    <3>1. /\ view'[r].manifest = Absent
          /\ view'[r].entry = index[s]
          /\ view'[r].sid = s
      BY <2>1 DEF PreviewIndex, TypeOK, NoView
    <3>2. index[s] # Absent =>
            /\ index[s].ver <= nsaves
            /\ SaveRuns => index[s].ver < nsaves
      BY DEF StoreInv, Numbering, WriterInv, SaveIsNewest, SaveRuns
    <3>3. index[s] # Absent /\ file[s]["manifest"] # Absent =>
            /\ file[s]["manifest"].ver >= index[s].ver
            /\ index[s].status = "expired" /\ file[s]["manifest"].ver = index[s].ver
               => file[s]["manifest"].status = "expired"
      BY StoreTypes DEF StoreInv, ManifestIsNewest, ExpiredInManifestFirst
    <3> QED
      BY <1>2, <1>3, <3>1, <3>2, <3>3 DEF store
  <2>2. CASE PreviewManifest(r)
    <3>1. view[r].pc = "manifest"
      BY <2>2 DEF PreviewManifest
    <3>2. /\ view'[r].pc = "runtime"
          /\ view'[r].entry = view[r].entry
          /\ view'[r].manifest = file[view[r].sid]["manifest"]
      <4>1. view' = [view EXCEPT ![r] = [view[r] EXCEPT !.pc = "runtime",
                                         !.manifest = file[view[r].sid]["manifest"]]]
        BY <2>2 DEF PreviewManifest
      <4> QED
        BY <4>1 DEF TypeOK, Views
    <3> QED
      BY <1>1, <3>1, <3>2
  <2>3. CASE PreviewNothing(r) \/ PreviewRuntime(r)
    <3>1. view'[r].pc = "idle" /\ view'[r].entry = Absent
      BY <2>3 DEF PreviewNothing, PreviewRuntime, NoView, TypeOK
    <3> QED
      BY <3>1
  <2> QED
    BY <2>1, <2>2, <2>3 DEF PreviewStep
<1>5. \A q \in Readers : Ready(q)' /\ Agrees(q)'
  BY <1>1, <1>2, <1>3, <1>4 DEF store
<1> QED
  BY <1>5 DEF ViewInv, SaveRuns, PreviewIsCurrent

(* A preview reads three files while a command may be changing them; what  *)
(* it shows is never older than the entry it matched, nor resumable where  *)
(* that entry is expired.                                                  *)
THEOREM PreviewsAreCurrent == Spec /\ []NoOverlap => []PreviewIsCurrent
<1>1. Init => ViewInv
  BY DEF Init, NoView, ViewInv, PreviewIsCurrent
<1>2. ASSUME TypeOK, StoreInv, ViewInv, NoOverlap, NoOverlap', [Next]_vars PROVE ViewInv'
  <2>1. CASE UNCHANGED vars
    BY <1>2, <2>1 DEF vars, store, ViewInv, PreviewIsCurrent
  <2>2. ASSUME NEW w \in Writers,
               Begin(w) \/ SaveStep(w) \/ DeleteStep(w) \/ ExpireStep(w) \/ Abort(w)
        PROVE  ViewInv'
    <3>1. Alone(w)
      BY <1>2, <2>2, MovesAlone
    <3> QED
      BY <1>2, <2>2, <3>1, WriterView
  <2>3. ASSUME NEW r \in Readers,
               (\E s \in Sessions : PreviewIndex(r, s)) \/ PreviewStep(r)
        PROVE  ViewInv'
    BY <1>2, <2>3, ReaderView
  <2> QED
    BY <1>2, <2>1, <2>2, <2>3 DEF Next
<1>3. TypeOK /\ StoreInv /\ ViewInv /\ NoOverlap /\ NoOverlap' /\ [Next]_vars => ViewInv'
  BY <1>2
<1>4. ViewInv => PreviewIsCurrent
  BY DEF ViewInv
<1> QED
  BY StoreInvariant, <1>1, <1>3, <1>4, PTL DEF Spec
=============================================================================
