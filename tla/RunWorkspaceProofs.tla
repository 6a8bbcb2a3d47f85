------------------------- MODULE RunWorkspaceProofs -------------------------
(* Proofs about RunWorkspace, for any workflows, chats, turns and runs: a  *)
(* chat changes only directories of its own, so that the invariants are    *)
(* those of one chat and of one directory.                                 *)
EXTENDS RunWorkspace, SequenceTheorems, TLAPS

-----------------------------------------------------------------------------
(* The inductive invariant.                                                *)

(* The directories that a chat of this session id can have. *)
Own(s) == {w \in Workspaces : w[2] = s}

(* There is a result that this run wrote. *)
HasResult(d, run) ==
    d.files["result"] \notin {None, Torn} /\ d.files["result"].run = run

Agreeing(one, other) == one = "succeeded" <=> other = "succeeded"

(* All that these refs name is in the directory and of this run, and the   *)
(* result that it wrote, if it has, says what its status does.             *)
Wrote(d, run, refs, status) ==
    /\ d # None
    /\ \A p \in refs : IsOf(d.files[p], run)
    /\ HasResult(d, run) => Agreeing(status, d.files["result"].status)

WroteNothing(d, run) ==
    d # None => \A p \in Paths : d.files[p] \notin {None, Torn} => d.files[p].run # run

(* A directory: what was written was written by runs that have begun, and  *)
(* a final manifest is true.                                               *)
Numbered(d, n) ==
    d # None => \A p \in Paths : d.files[p] \notin {None, Torn} => d.files[p].run <= n

Truthful(d) ==
    d # None /\ Final(d.manifest) =>
        /\ ~Deletes(d.manifest.policy, d.manifest.status) =>
               \A p \in d.manifest.refs : IsOf(d.files[p], d.manifest.run)
        /\ HasResult(d, d.manifest.run) =>
               Agreeing(d.manifest.status, d.files["result"].status)

GoodDirectories(n) ==
    {d \in Directories \union {None} : Numbered(d, n) /\ Truthful(d)}

(* The latest plan of a chat is of an earlier turn or of this one.  Unless *)
(* its directory is gone, it is as that plan left it.                      *)
PlanOf(c, s, D) ==
    c.plan # None =>
        LET d == D[c.plan.workspace] IN
        /\ c.plan.workspace \in Own(s)
        /\ c.plan.workspace[3] <= c.turn
        /\ IF c.plan.cleaned THEN d = None
           ELSE /\ Wrote(d, c.plan.run, c.plan.refs, c.plan.status)
                /\ Readable(d.manifest) => d.manifest.run = c.plan.run

(* The steps of a turn before it writes, and those while it does. *)
Early == {"resolve", "inspect", "create", "subdirs", "created", "creating", "work"}
Late == {"write", "fill", "finalize"}

(* /status continues the work of the plan that the snapshot is of. *)
Continues(c) ==
    /\ c.pc \in Late
    /\ c.plan # None /\ ~c.plan.cleaned
    /\ c.work.workspace = c.plan.workspace
    /\ c.work.run = c.plan.run
    /\ c.work.status = c.plan.status
    /\ ~c.work.live
    /\ c.work.todo \in Seq({"summary"})

(* A turn works in a directory that the plan's is not. *)
Apart(c) ==
    /\ c.work.workspace[3] = c.turn
    /\ c.plan # None => c.plan.workspace[3] < c.turn

(* Before the clean-up the manifest is that of the run; while the          *)
(* directory is removed it can be gone, and so can files.                  *)
Finished(c, d) ==
    /\ d.manifest # Torn
    /\ ~Deletes(c.policy, c.work.status) =>
           d.manifest # None /\ Wrote(d, c.work.run, c.work.refs, c.work.status)
    /\ d.manifest # None => /\ d.manifest.run = c.work.run
                            /\ d.manifest.status = c.work.status
                            /\ d.manifest.policy = c.policy

(* The work of a chat and its directory d. *)
WorkOf(c, s, d, n) ==
    /\ c.work.workspace \in Own(s) /\ c.work.run \in 1 .. n
    /\ IF c.work.asked THEN Continues(c) ELSE Apart(c)
    /\ c.pc = "resolve" => c.work.target \in Workspaces
    /\ c.pc \in Early => c.work.refs = {} /\ WroteNothing(d, c.work.run)
    /\ c.pc \notin {"resolve", "inspect", "create"} => d # None
    /\ c.pc \in {"creating", "finalize"} => d.manifest = Torn
    /\ c.pc \in {"work", "write", "fill"} /\ ~c.work.asked => ~Final(d.manifest)
    /\ c.pc \in Late \union {"clean"} => c.work.status \in Statuses
    /\ c.pc \in Late => Wrote(d, c.work.run, c.work.refs, c.work.status)
    /\ c.pc = "fill" => c.work.todo # <<>>
    /\ c.pc = "clean" => Finished(c, d)

PlanNumbered(c, n) == c.plan # None => c.plan.run \in 1 .. n

ChatOf(c, s, D, n) ==
    /\ PlanOf(c, s, D) /\ PlanNumbered(c, n)
    /\ c.pc \in Early \union Late \union {"clean"} => WorkOf(c, s, D[c.work.workspace], n)

DiskInv == disk \in [Workspaces -> GoodDirectories(runs)]

RunsInv == runs \in 0 .. MaxRuns

ChatInv ==
    /\ chats \in [Sessions -> Chats]
    /\ \A s \in Sessions : ChatOf(chats[s], s, disk, runs)

IInv == RunsInv /\ DiskInv /\ ChatInv

-----------------------------------------------------------------------------
(* A step of one chat.                                                     *)

LEMMA RunsGrow ==
    ASSUME NEW n \in Nat, NEW m \in Nat, n <= m
    PROVE  GoodDirectories(n) \subseteq GoodDirectories(m)
<1> SUFFICES ASSUME NEW d \in GoodDirectories(n) PROVE Numbered(d, m)
  BY DEF GoodDirectories
<1> SUFFICES ASSUME d # None, NEW p \in Paths, d.files[p] \notin {None, Torn}
             PROVE  d.files[p].run <= m
  BY DEF Numbered
<1>1. d \in Directories /\ d.files[p] \in Files
  BY DEF GoodDirectories, Directories
<1>2. d.files[p].run <= n /\ d.files[p].run \in Nat
  BY <1>1, MaxRunsAssumption DEF GoodDirectories, Numbered, Files
<1> QED
  BY <1>2

(* What a chat knows is kept while its own directories are left alone. *)
LEMMA ChatStays ==
    ASSUME NEW c \in Chats, NEW s, NEW D, NEW E, NEW n \in Nat, NEW m \in Nat, n <= m,
           ChatOf(c, s, D, n), \A w \in Own(s) : E[w] = D[w]
    PROVE  ChatOf(c, s, E, m)
<1>1. PlanOf(c, s, E)
  <2> SUFFICES ASSUME c.plan # None PROVE PlanOf(c, s, E)
    BY DEF PlanOf
  <2>1. c.plan.workspace \in Own(s)
    BY DEF ChatOf, PlanOf
  <2>2. E[c.plan.workspace] = D[c.plan.workspace]
    BY <2>1
  <2> QED
    BY <2>2 DEF ChatOf, PlanOf
<1>2. ASSUME c.pc \in Early \union Late \union {"clean"}
      PROVE  WorkOf(c, s, E[c.work.workspace], m)
  <2>1. WorkOf(c, s, D[c.work.workspace], n)
    BY <1>2 DEF ChatOf
  <2>2. E[c.work.workspace] = D[c.work.workspace]
    BY <2>1 DEF WorkOf
  <2>3. c.work.run \in 1 .. m
    BY <2>1 DEF WorkOf
  <2> QED
    BY <2>1, <2>2, <2>3 DEF WorkOf
<1>3. PlanNumbered(c, m)
  BY DEF ChatOf, PlanNumbered
<1> QED
  BY <1>1, <1>2, <1>3 DEF ChatOf

LEMMA OneChatKeeps ==
    ASSUME IInv, NEW s \in Sessions, NEW c \in Chats,
           chats' = [chats EXCEPT ![s] = c],
           runs' \in {runs, runs + 1}, runs' <= MaxRuns,
           DiskInv', \A w \in Workspaces : w[2] # s => disk'[w] = disk[w],
           ChatOf(c, s, disk', runs')
    PROVE  IInv'
<1>1. runs \in Nat /\ runs' \in Nat /\ runs <= runs' /\ RunsInv'
  BY MaxRunsAssumption DEF IInv, RunsInv
<1>2. chats' \in [Sessions -> Chats]
  BY DEF IInv, ChatInv
<1>3. ASSUME NEW t \in Sessions PROVE ChatOf(chats'[t], t, disk', runs')
  <2>1. CASE t = s
    BY <2>1 DEF IInv, ChatInv
  <2>2. CASE t # s
    <3>1. chats'[t] = chats[t] /\ chats[t] \in Chats /\ ChatOf(chats[t], t, disk, runs)
      BY <2>2 DEF IInv, ChatInv
    <3>2. \A w \in Own(t) : disk'[w] = disk[w]
      BY <2>2 DEF Own
    <3> QED
      BY <1>1, <3>1, <3>2, ChatStays
  <2> QED
    BY <2>1, <2>2
<1> QED
  BY <1>1, <1>2, <1>3 DEF IInv, ChatInv

(* It leaves the disk alone, *)
LEMMA TalkKeeps ==
    ASSUME IInv, NEW s \in Sessions, NEW c \in Chats,
           chats' = [chats EXCEPT ![s] = c],
           runs' \in {runs, runs + 1}, runs' <= MaxRuns, UNCHANGED disk,
           ChatOf(c, s, disk, runs')
    PROVE  IInv'
<1>1. runs \in Nat /\ runs' \in Nat /\ runs <= runs'
  BY MaxRunsAssumption DEF IInv, RunsInv
<1>2. DiskInv'
  BY <1>1, RunsGrow DEF IInv, DiskInv
<1> QED
  BY <1>2, OneChatKeeps

(* or changes one directory of the chat.                                   *)
LEMMA WriteKeeps ==
    ASSUME IInv, NEW s \in Sessions, NEW c \in Chats, NEW w \in Own(s),
           NEW d \in GoodDirectories(runs),
           chats' = [chats EXCEPT ![s] = c], UNCHANGED runs,
           disk' = [disk EXCEPT ![w] = d],
           ChatOf(c, s, disk', runs)
    PROVE  IInv'
<1>1. runs' \in {runs, runs + 1} /\ runs' <= MaxRuns
  BY MaxRunsAssumption DEF IInv, RunsInv
<1>2. DiskInv'
  BY DEF IInv, DiskInv
<1>3. \A v \in Workspaces : v[2] # s => disk'[v] = disk[v]
  BY DEF IInv, DiskInv, Own
<1> QED
  BY <1>1, <1>2, <1>3, OneChatKeeps

LEMMA OfChat ==
    ASSUME IInv, NEW s \in Sessions
    PROVE  /\ chats[s] \in Chats /\ ChatOf(chats[s], s, disk, runs)
           /\ PlanOf(chats[s], s, disk) /\ PlanNumbered(chats[s], runs)
           /\ Work(s) = chats[s].work
           /\ runs \in Nat /\ runs <= MaxRuns /\ MaxRuns \in Nat
  BY MaxRunsAssumption DEF IInv, ChatInv, ChatOf, RunsInv, Work
LEMMA PlanStays ==
    ASSUME NEW c, NEW s, NEW D, NEW c2, NEW E, PlanOf(c, s, D),
           c2.plan = c.plan, c.turn \in Nat, c2.turn \in {c.turn, c.turn + 1},
           c.plan # None => E[c.plan.workspace] = D[c.plan.workspace]
    PROVE  PlanOf(c2, s, E)
<1> SUFFICES ASSUME c.plan # None PROVE PlanOf(c2, s, E)
  BY DEF PlanOf
<1>1. c.plan.workspace \in Own(s) /\ c.plan.workspace[3] \in Nat
      /\ c.plan.workspace[3] <= c.turn
  BY MaxTurnsAssumption DEF PlanOf, Own, Workspaces
<1>2. c.plan.workspace[3] <= c2.turn
  BY <1>1
<1> QED
  BY <1>1, <1>2 DEF PlanOf

LEMMA OffIsChat == Off \in Chats /\ NoWork \in Works
<1>1. NoWork \in Works
  BY MaxRunsAssumption DEF NoWork, Works
<1> QED
  BY <1>1, PoliciesAssumption, MaxTurnsAssumption DEF Off, Chats, Labels

LEMMA InvInit == Init => IInv
<1> SUFFICES ASSUME Init PROVE IInv
  OBVIOUS
<1>1. RunsInv
  BY MaxRunsAssumption DEF Init, RunsInv
<1>2. DiskInv
  BY DEF Init, DiskInv, GoodDirectories, Numbered, Truthful
<1>3. ChatInv
  BY OffIsChat DEF Init, ChatInv, ChatOf, PlanOf, PlanNumbered, Off, Early, Late
<1> QED
  BY <1>1, <1>2, <1>3 DEF IInv

-----------------------------------------------------------------------------
(* The steps that leave the disk alone.                                    *)

LEMMA StartChatKeeps ==
    ASSUME IInv, NEW s \in Sessions, NEW policy \in Policies, StartChat(s, policy)
    PROVE  IInv'
<1> DEFINE c == [Off EXCEPT !.pc = "idle", !.policy = policy]
<1>1. c \in Chats
  BY OffIsChat DEF Chats, Labels
<1>2. ChatOf(c, s, disk, runs)
  BY DEF ChatOf, PlanOf, PlanNumbered, Off, Early, Late
<1> QED
  BY <1>1, <1>2, OfChat, TalkKeeps DEF StartChat

LEMMA EndChatKeeps ==
    ASSUME IInv, NEW s \in Sessions, EndChat(s)
    PROVE  IInv'
<1>1. ChatOf(Off, s, disk, runs)
  BY DEF ChatOf, PlanOf, PlanNumbered, Off, Early, Late
<1> QED
  BY <1>1, OffIsChat, OfChat, TalkKeeps DEF EndChat

LEMMA RefusedKeeps ==
    ASSUME IInv, NEW s \in Sessions, NEW workflow \in Workflows, Refused(s, workflow)
    PROVE  IInv'
<1> DEFINE plan == IF workflow = "plan" THEN None ELSE chats[s].plan
           c == [chats[s] EXCEPT !.turn = chats[s].turn + 1, !.plan = plan]
<1>0. /\ chats[s] \in Chats /\ chats[s].pc = "idle" /\ chats[s].turn < MaxTurns
      /\ chats[s].turn \in Nat /\ chats[s].turn + 1 \in 0 .. MaxTurns
      /\ PlanOf(chats[s], s, disk)
      /\ runs' = runs + 1 /\ runs' <= MaxRuns
  BY OfChat, MaxTurnsAssumption DEF Refused, BeginTurn, At, Chats
<1>4. chats' = [chats EXCEPT ![s] = c] /\ UNCHANGED disk
  BY DEF Refused, IInv, ChatInv
<1>5. plan \in Snapshots \union {None} /\ plan \in {None, chats[s].plan}
  BY <1>0 DEF Chats
<1> HIDE DEF plan
<1>1. c \in Chats /\ c.pc = "idle" /\ c.plan = plan /\ c.turn = chats[s].turn + 1
  BY <1>0, <1>5 DEF Chats
<1>2. PlanOf(c, s, disk)
  <2>1. CASE plan = None
    BY <2>1, <1>1 DEF PlanOf
  <2>2. CASE plan = chats[s].plan
    BY <1>0, <1>1, <2>2, PlanStays
  <2> QED
    BY <1>5, <2>1, <2>2
<1>6. PlanNumbered(c, runs')
  BY <1>0, <1>1, <1>5, OfChat DEF PlanNumbered
<1>3. ChatOf(c, s, disk, runs')
  BY <1>1, <1>2, <1>6 DEF ChatOf, Early, Late
<1> HIDE DEF c
<1> QED
  BY <1>0, <1>1, <1>3, <1>4, TalkKeeps

LEMMA NextWorkIsWork ==
    ASSUME IInv, NEW s \in Sessions, NEW workflow \in Workflows, BeginTurn(s)
    PROVE  /\ NextWork(s, workflow) \in Works
           /\ NextWork(s, workflow).workspace = <<workflow, s, chats[s].turn + 1>>
           /\ NextWork(s, workflow).run = runs + 1
           /\ ~NextWork(s, workflow).asked
           /\ NextWork(s, workflow).refs = {}
           /\ <<workflow, s, chats[s].turn + 1>> \in Own(s)
<1>1. /\ chats[s].turn + 1 \in 1 .. MaxTurns
      /\ runs + 1 \in 0 .. MaxRuns
  BY OfChat, MaxTurnsAssumption DEF BeginTurn, Chats
<1>2. <<workflow, s, chats[s].turn + 1>> \in Own(s)
  BY <1>1 DEF Own, Workspaces
<1>3. <<workflow, s, chats[s].turn + 1>> \in Workspaces
  BY <1>2 DEF Own
<1>4. ASSUME NEW w \in Workspaces, NEW run \in 0 .. MaxRuns
      PROVE  [NoWork EXCEPT !.workspace = w, !.run = run] \in Works
  BY OffIsChat DEF Works
<1>5. NextWork(s, workflow) \in Works
  BY <1>1, <1>3, <1>4 DEF NextWork
<1> QED
  BY <1>2, <1>5 DEF NextWork, NoWork

(* A turn begins, with the first number not yet used. *)
LEMMA BeginKeeps ==
    ASSUME IInv, NEW s \in Sessions, BeginTurn(s), UNCHANGED disk,
           NEW label \in {"create", "resolve"}, NEW workflow \in Workflows,
           NEW k \in Works, label = "resolve" => k.target \in Workspaces,
           k.workspace = <<workflow, s, chats[s].turn + 1>>, k.run = runs + 1,
           ~k.asked, k.refs = {},
           chats' = [chats EXCEPT ![s].turn = @ + 1, ![s].pc = label, ![s].work = k]
    PROVE  IInv'
<1> DEFINE c == [chats[s] EXCEPT !.turn = @ + 1, !.pc = label, !.work = k]
<1>0. /\ chats[s] \in Chats /\ chats[s].turn < MaxTurns
      /\ chats[s].turn \in Nat
      /\ PlanOf(chats[s], s, disk)
      /\ runs \in Nat /\ runs' = runs + 1 /\ runs' <= MaxRuns /\ MaxRuns \in Nat
  BY OfChat, MaxTurnsAssumption DEF BeginTurn, At, Chats
<1>2. <<workflow, s, chats[s].turn + 1>> \in Own(s)
  BY NextWorkIsWork
<1>4. c \in Chats
  <2>1. chats[s].turn + 1 \in 0 .. MaxTurns
    BY <1>0, MaxTurnsAssumption
  <2> QED
    BY <1>0, <2>1 DEF Chats, Labels
<1>8. /\ c.pc = label /\ c.work = k /\ c.turn = chats[s].turn + 1
      /\ c.plan = chats[s].plan
  BY <1>0 DEF Chats
<1> HIDE DEF c
<1>5. PlanOf(c, s, disk)
  BY <1>0, <1>8, PlanStays
<1>6. c.plan # None => c.plan.workspace[3] < c.turn
  <2> SUFFICES ASSUME c.plan # None PROVE c.plan.workspace[3] < c.turn
    OBVIOUS
  <2>2. c.plan.workspace \in Own(s) /\ c.plan.workspace[3] <= chats[s].turn
    BY <1>0, <1>8 DEF PlanOf
  <2>3. c.plan.workspace[3] \in Nat
    BY <2>2, MaxTurnsAssumption DEF Own, Workspaces
  <2> QED
    BY <1>0, <1>8, <2>2, <2>3
<1>7. WroteNothing(disk[k.workspace], k.run)
  <2>1. k.workspace \in Workspaces
    BY <1>2 DEF Own
  <2>2. disk[k.workspace] \in GoodDirectories(runs)
    BY <2>1 DEF IInv, DiskInv
  <2> SUFFICES ASSUME disk[k.workspace] # None, NEW p \in Paths,
                      disk[k.workspace].files[p] \notin {None, Torn}
               PROVE  disk[k.workspace].files[p].run # k.run
    BY DEF WroteNothing
  <2>3. disk[k.workspace].files[p].run <= runs
    BY <2>2 DEF GoodDirectories, Numbered
  <2> QED
    BY <1>0, <2>3
<1>9. WorkOf(c, s, disk[c.work.workspace], runs')
  <2>1. Apart(c)
    BY <1>6, <1>8 DEF Apart
  <2>2. c.work.run \in 1 .. runs'
    BY <1>0, <1>8
  <2> QED
    BY <1>2, <1>7, <1>8, <2>1, <2>2 DEF WorkOf, Late
<1>10. chats' = [chats EXCEPT ![s] = c]
  BY DEF c, IInv, ChatInv
<1>11. PlanNumbered(c, runs')
  BY <1>0, <1>8, OfChat DEF PlanNumbered
<1> QED
  BY <1>0, <1>4, <1>5, <1>9, <1>10, <1>11, TalkKeeps DEF ChatOf

LEMMA BeginTaskKeeps ==
    ASSUME IInv, NEW s \in Sessions, NEW task \in Tasks, BeginTask(s, task)
    PROVE  IInv'
<1>1. task \in Workflows /\ BeginTurn(s)
  BY DEF BeginTask, Workflows
<1> QED
  BY <1>1, BeginKeeps, NextWorkIsWork DEF BeginTask

LEMMA BeginAuditKeeps ==
    ASSUME IInv, NEW s \in Sessions, NEW target \in Workspaces, BeginAudit(s, target)
    PROVE  IInv'
<1> DEFINE k == [NextWork(s, "audit") EXCEPT !.target = target]
<1>1. "audit" \in Workflows /\ BeginTurn(s)
  BY DEF BeginAudit, Workflows
<1>2. /\ k \in Works /\ k.target = target
      /\ k.workspace = <<"audit", s, chats[s].turn + 1>> /\ k.run = runs + 1
      /\ ~k.asked /\ k.refs = {}
  <2> DEFINE n == NextWork(s, "audit")
  <2>1. /\ n \in Works /\ ~n.asked /\ n.refs = {}
        /\ n.workspace = <<"audit", s, chats[s].turn + 1>> /\ n.run = runs + 1
    BY <1>1, NextWorkIsWork
  <2> HIDE DEF n
  <2>2. LET j == [n EXCEPT !.target = target]
        IN  /\ j \in Works /\ j.target = target /\ j.workspace = n.workspace
            /\ j.run = n.run /\ j.asked = n.asked /\ j.refs = n.refs
    BY <2>1 DEF Works
  <2> QED
    BY <2>1, <2>2 DEF n
<1>3. /\ UNCHANGED disk
      /\ chats' = [chats EXCEPT ![s].turn = @ + 1, ![s].pc = "resolve", ![s].work = k]
  BY DEF BeginAudit
<1> HIDE DEF k
<1> QED
  BY <1>1, <1>2, <1>3, BeginKeeps
(* The next step of the same turn or of the same /status. *)
LEMMA GoToIsGoWith ==
    ASSUME IInv, NEW s \in Sessions, NEW label \in Labels, GoTo(s, label)
    PROVE  GoWith(s, label, Work(s))
<1>1. [chats[s] EXCEPT !.pc = label] = [chats[s] EXCEPT !.pc = label, !.work = Work(s)]
  BY OfChat DEF Chats
<1> QED
  BY <1>1 DEF GoTo, GoWith, IInv, ChatInv

LEMMA AtWork ==
    ASSUME IInv, NEW s \in Sessions, chats[s].pc \in Early \union Late \union {"clean"}
    PROVE  /\ WorkOf(chats[s], s, Directory(s), runs)
           /\ Work(s) \in Works /\ Work(s).workspace \in Own(s)
           /\ Work(s).workspace \in Workspaces
           /\ Directory(s) \in GoodDirectories(runs)
<1>1. WorkOf(chats[s], s, Directory(s), runs) /\ Work(s) \in Works
  BY OfChat DEF ChatOf, Directory, Chats
<1>2. Work(s).workspace \in Own(s)
  BY <1>1, OfChat DEF WorkOf
<1> QED
  BY <1>1, <1>2 DEF Own, Directory, IInv, DiskInv

LEMMA GoKeeps ==
    ASSUME IInv, NEW s \in Sessions, NEW label \in Labels, NEW k \in Works,
           GoWith(s, label, k), UNCHANGED <<disk, runs>>,
           \A c \in Chats :
               /\ c.pc = label /\ c.work = k /\ c.plan = chats[s].plan
               /\ c.turn = chats[s].turn /\ c.policy = chats[s].policy
               => WorkOf(c, s, disk[k.workspace], runs)
    PROVE  IInv'
<1> DEFINE c == [chats[s] EXCEPT !.pc = label, !.work = k]
<1>1. chats' = [chats EXCEPT ![s] = c]
  BY DEF GoWith, IInv, ChatInv
<1>2. /\ c \in Chats /\ c.pc = label /\ c.work = k
      /\ c.plan = chats[s].plan /\ c.turn = chats[s].turn
      /\ c.policy = chats[s].policy
  BY OfChat DEF Chats
<1> HIDE DEF c
<1>3. PlanOf(c, s, disk)
  BY <1>2, OfChat, PlanStays DEF Chats
<1>4. WorkOf(c, s, disk[c.work.workspace], runs)
  BY <1>2
<1>5. PlanNumbered(c, runs)
  BY <1>2, OfChat DEF PlanNumbered
<1> QED
  BY <1>1, <1>2, <1>3, <1>4, <1>5, OfChat, TalkKeeps DEF ChatOf

(* The same work goes on. *)
SameWork(k, l) ==
    /\ l.workspace = k.workspace /\ l.run = k.run /\ l.asked = k.asked /\ l.refs = k.refs

LEMMA EarlyKeeps ==
    ASSUME IInv, NEW s \in Sessions, NEW label \in {"inspect", "create"}, NEW k \in Works,
           chats[s].pc \in {"resolve", "inspect"}, SameWork(Work(s), k),
           GoWith(s, label, k), UNCHANGED <<disk, runs>>
    PROVE  IInv'
<1>1. WorkOf(chats[s], s, disk[k.workspace], runs) /\ Work(s) = chats[s].work
  BY AtWork, OfChat DEF SameWork, Directory, Early
<1>2. ASSUME NEW c \in Chats, c.pc = label, c.work = k, c.plan = chats[s].plan,
             c.turn = chats[s].turn
      PROVE  WorkOf(c, s, disk[k.workspace], runs)
  BY <1>1, <1>2 DEF WorkOf, SameWork, Early, Late, Continues, Apart
<1> QED
  BY <1>2, GoKeeps DEF Labels

LEMMA ResolveTargetKeeps ==
    ASSUME IInv, NEW s \in Sessions, ResolveTarget(s)
    PROVE  IInv'
<1>0. /\ chats[s].pc = "resolve" /\ Work(s) \in Works /\ Work(s).target \in Workspaces
      /\ UNCHANGED <<disk, runs>>
  BY AtWork, OfChat DEF ResolveTarget, At, Early, WorkOf
<1> DEFINE target == disk[Work(s).target]
<1>1. target \in Directories \union {None}
  BY <1>0 DEF IInv, DiskInv, GoodDirectories
<1>2. CASE target # None /\ Readable(target.manifest)
  <2>1. target.manifest \in Manifests
    BY <1>1, <1>2 DEF Readable, Directories
  <2>2. /\ [Work(s) EXCEPT !.seen = target.manifest] \in Works
        /\ SameWork(Work(s), [Work(s) EXCEPT !.seen = target.manifest])
    BY <1>0, <2>1 DEF Works, SameWork
  <2>3. GoWith(s, "inspect", [Work(s) EXCEPT !.seen = target.manifest])
    BY <1>2 DEF ResolveTarget
  <2> QED
    BY <1>0, <2>2, <2>3, EarlyKeeps
<1>3. CASE ~(target # None /\ Readable(target.manifest))
  <2>1. /\ [Work(s) EXCEPT !.verdict = "blocked"] \in Works
        /\ SameWork(Work(s), [Work(s) EXCEPT !.verdict = "blocked"])
    BY <1>0 DEF Works, SameWork
  <2>2. GoWith(s, "create", [Work(s) EXCEPT !.verdict = "blocked"])
    BY <1>3 DEF ResolveTarget
  <2> QED
    BY <1>0, <2>1, <2>2, EarlyKeeps
<1> QED
  BY <1>2, <1>3

LEMMA InspectKeeps ==
    ASSUME IInv, NEW s \in Sessions, Inspect(s)
    PROVE  IInv'
<1>0. chats[s].pc = "inspect" /\ Work(s) \in Works /\ UNCHANGED <<disk, runs>>
  BY AtWork DEF Inspect, At, Early
<1>1. PICK v \in {"passed", "attention_required"} :
        GoWith(s, "create", [Work(s) EXCEPT !.verdict = v])
  BY DEF Inspect
<1>2. /\ [Work(s) EXCEPT !.verdict = v] \in Works
      /\ SameWork(Work(s), [Work(s) EXCEPT !.verdict = v])
  BY <1>0 DEF Works, SameWork
<1> QED
  BY <1>0, <1>1, <1>2, EarlyKeeps

LEMMA OutcomeFacts ==
    ASSUME NEW workflow \in Workflows, NEW outcome \in Outcomes(workflow)
    PROVE  /\ outcome[1] \in Statuses /\ outcome[2] \in BOOLEAN
           /\ outcome[3] \in {<<>>, <<"evidence">>}
<1>1. CASE workflow = "plan"
  BY <1>1 DEF Outcomes, PlanOutcomes, Referenced, Statuses
<1>2. CASE workflow = "review"
  BY <1>2 DEF Outcomes, ReviewOutcomes, Statuses
<1>3. CASE workflow = "explain"
  BY <1>3 DEF Outcomes, ExplainOutcomes, Statuses
<1>4. CASE workflow = "audit"
  BY <1>4 DEF Outcomes, AuditOutcomes, Statuses
<1> QED
  BY <1>1, <1>2, <1>3, <1>4, TasksAssumption DEF Workflows

(* A run has written nothing before its work is done. *)
LEMMA DoKeeps ==
    ASSUME IInv, NEW s \in Sessions, Do(s)
    PROVE  IInv'
<1>0. /\ chats[s].pc = "work" /\ Work(s) \in Works /\ Work(s) = chats[s].work
      /\ WorkOf(chats[s], s, Directory(s), runs)
      /\ Work(s).workspace[1] \in Workflows
      /\ UNCHANGED <<disk, runs>>
  BY AtWork, OfChat DEF At, Early, Do, Workspaces
<1> PICK outcome \in Outcomes(Work(s).workspace[1]) :
      GoWith(s, "write",
             [Work(s) EXCEPT !.status = outcome[1], !.live = outcome[2],
                             !.todo = outcome[3] \o <<"display", "result">>])
  BY DEF Do
<1> DEFINE status == outcome[1]
           live == outcome[2]
           first == outcome[3]
           todo == first \o <<"display", "result">>
           k == [Work(s) EXCEPT !.status = status, !.live = live, !.todo = todo]
<1>2. GoWith(s, "write", k)
  OBVIOUS
<1>6. status \in Statuses /\ live \in BOOLEAN /\ first \in {<<>>, <<"evidence">>}
  BY <1>0, OutcomeFacts
<1> HIDE DEF status, live, first
<1>1. todo \in Seq(Paths)
  <2>1. \A p \in Paths : <<p>> \in Seq(Paths)
    OBVIOUS
  <2>2. \A p, q \in Paths : <<p, q>> \in Seq(Paths)
    OBVIOUS
  <2>3. {"evidence", "display", "result"} \subseteq Paths
    BY DEF Paths
  <2>4. <<"display", "result">> \in Seq(Paths)
    BY <2>2, <2>3
  <2>5. first \in Seq(Paths)
    <3>1. CASE first = <<>>
      BY <3>1
    <3>2. CASE first = <<"evidence">>
      BY <2>1, <2>3, <3>2
    <3> QED
      BY <1>6, <3>1, <3>2
  <2> QED
    BY <2>4, <2>5, ConcatProperties
<1> HIDE DEF todo
<1>3. /\ k \in Works /\ SameWork(Work(s), k)
      /\ k.status = status /\ k.refs = {} /\ ~k.asked
  BY <1>0, <1>1, <1>6 DEF Works, SameWork, WorkOf, Early, Continues, Late
<1> HIDE DEF k
<1>4. Wrote(Directory(s), k.run, k.refs, k.status)
  <2>1. Directory(s) # None /\ WroteNothing(Directory(s), k.run)
    BY <1>0, <1>3 DEF WorkOf, Early, SameWork
  <2> QED
    BY <1>3, <2>1 DEF Wrote, WroteNothing, HasResult, Paths
<1>5. ASSUME NEW c \in Chats, c.pc = "write", c.work = k, c.plan = chats[s].plan,
             c.turn = chats[s].turn
      PROVE  WorkOf(c, s, disk[k.workspace], runs)
  <2>1. disk[k.workspace] = Directory(s)
    BY <1>3 DEF SameWork, Directory
  <2>2. Apart(c)
    BY <1>0, <1>3, <1>5 DEF WorkOf, Apart, SameWork
  <2>3. ~Final(Directory(s).manifest)
    BY <1>0, <1>3 DEF WorkOf, SameWork
  <2> QED
    BY <1>0, <1>3, <1>4, <1>5, <1>6, <2>1, <2>2, <2>3 DEF WorkOf, SameWork, Early, Late
<1> QED
  BY <1>0, <1>2, <1>3, <1>5, GoKeeps DEF Labels

-----------------------------------------------------------------------------
(* The steps that change the directory.                                    *)

(* The chat goes on to label with the work k, in a directory that is d by  *)
(* then, *)
GoesOn(s, label, k, d) ==
    \A c \in Chats :
        /\ c.pc = label /\ c.work = k /\ c.plan = chats[s].plan
        /\ c.turn = chats[s].turn /\ c.policy = chats[s].policy
        => WorkOf(c, s, d, runs)

(* which is as the latest plan left it, if it is that of the latest plan.  *)
PlanKept(s, k, d) ==
    chats[s].plan # None /\ chats[s].plan.workspace = k.workspace =>
        /\ ~chats[s].plan.cleaned
        /\ Wrote(d, chats[s].plan.run, chats[s].plan.refs, chats[s].plan.status)
        /\ Readable(d.manifest) => d.manifest.run = chats[s].plan.run

LEMMA StepKeeps ==
    ASSUME IInv, NEW s \in Sessions, NEW label \in Labels, NEW k \in Works,
           GoWith(s, label, k), UNCHANGED runs, k.workspace \in Own(s),
           NEW d \in GoodDirectories(runs), disk' = [disk EXCEPT ![k.workspace] = d],
           PlanKept(s, k, d), GoesOn(s, label, k, d)
    PROVE  IInv'
<1> DEFINE c == [chats[s] EXCEPT !.pc = label, !.work = k]
<1>1. chats' = [chats EXCEPT ![s] = c]
  BY DEF GoWith, IInv, ChatInv
<1>2. /\ c \in Chats /\ c.pc = label /\ c.work = k
      /\ c.plan = chats[s].plan /\ c.turn = chats[s].turn
      /\ c.policy = chats[s].policy
  BY OfChat DEF Chats
<1> HIDE DEF c
<1>3. /\ disk'[k.workspace] = d
      /\ \A w \in Own(s) : w # k.workspace => disk'[w] = disk[w]
  BY DEF IInv, DiskInv, Own
<1>4. PlanOf(c, s, disk')
  <2> SUFFICES ASSUME c.plan # None PROVE PlanOf(c, s, disk')
    BY DEF PlanOf
  <2>1. c.plan.workspace \in Own(s) /\ PlanOf(chats[s], s, disk)
    BY <1>2, OfChat DEF PlanOf
  <2>2. CASE c.plan.workspace = k.workspace
    BY <1>2, <1>3, <2>1, <2>2 DEF PlanOf, PlanKept
  <2>3. CASE c.plan.workspace # k.workspace
    <3>1. disk'[c.plan.workspace] = disk[c.plan.workspace]
      BY <1>3, <2>1, <2>3
    <3> QED
      BY <1>2, <2>1, <3>1 DEF PlanOf
  <2> QED
    BY <2>2, <2>3
<1>5. WorkOf(c, s, disk'[c.work.workspace], runs)
  BY <1>2, <1>3 DEF GoesOn
<1>6. PlanNumbered(c, runs)
  BY <1>2, OfChat DEF PlanNumbered
<1>7. ChatOf(c, s, disk', runs')
  BY <1>4, <1>5, <1>6 DEF ChatOf
<1> QED
  BY <1>1, <1>2, <1>7, WriteKeeps

(* A turn leaves the directory of the latest plan alone. *)
LEMMA PlanIsApart ==
    ASSUME IInv, NEW s \in Sessions, chats[s].pc \in Early \union Late \union {"clean"},
           ~Work(s).asked, chats[s].plan # None
    PROVE  chats[s].plan.workspace # Work(s).workspace
<1>1. /\ Apart(chats[s]) /\ Work(s) = chats[s].work
      /\ chats[s].plan.workspace \in Own(s)
  BY AtWork, OfChat DEF WorkOf, PlanOf
<1>2. chats[s].plan.workspace[3] \in Nat /\ chats[s].turn \in Nat
  BY <1>1, OfChat, MaxTurnsAssumption DEF Own, Workspaces, Chats
<1> QED
  BY <1>1, <1>2 DEF Apart

LEMMA ManifestKeepsFiles ==
    ASSUME NEW d \in Directories, NEW m \in Manifests \union {None, Torn}
    PROVE  /\ [d EXCEPT !.manifest = m] \in Directories
           /\ [d EXCEPT !.manifest = m].manifest = m
           /\ [d EXCEPT !.manifest = m].files = d.files
           /\ [d EXCEPT !.manifest = m] # None
<1>1. [d EXCEPT !.manifest = m] \in Directories
  BY DEF Directories
<1> QED
  BY <1>1, NoneAssumption DEF Directories

(* While a run sets its directory up the files in it stay as they were. *)
LEMMA SetupKeeps ==
    ASSUME IInv, NEW s \in Sessions, chats[s].pc \in Early,
           NEW label \in {"subdirs", "created", "creating", "work"},
           GoWith(s, label, Work(s)), UNCHANGED runs,
           NEW d \in GoodDirectories(runs), disk' = [disk EXCEPT ![Work(s).workspace] = d],
           d # None, WroteNothing(d, Work(s).run),
           label = "creating" => d.manifest = Torn,
           label = "work" => ~Final(d.manifest)
    PROVE  IInv'
<1>1. /\ WorkOf(chats[s], s, Directory(s), runs) /\ Work(s) \in Works
      /\ Work(s).workspace \in Own(s) /\ Work(s) = chats[s].work
      /\ ~Work(s).asked
  BY AtWork, OfChat DEF WorkOf, Early, Late, Continues
<1>2. ASSUME NEW c \in Chats, c.pc = label, c.work = Work(s), c.plan = chats[s].plan,
             c.turn = chats[s].turn
      PROVE  WorkOf(c, s, d, runs)
  BY <1>1, <1>2 DEF WorkOf, Early, Late, Apart
<1>3. PlanKept(s, Work(s), d)
  BY <1>1, PlanIsApart DEF PlanKept
<1>4. GoesOn(s, label, Work(s), d)
  BY <1>2 DEF GoesOn
<1>5. label \in Labels
  BY DEF Labels
<1> QED
  BY <1>1, <1>3, <1>4, <1>5, StepKeeps

LEMMA MakeWorkspaceKeeps ==
    ASSUME IInv, NEW s \in Sessions, MakeWorkspace(s)
    PROVE  IInv'
<1> DEFINE d == IF Directory(s) = None THEN Empty ELSE Directory(s)
<1>1. /\ chats[s].pc = "create" /\ chats[s].pc \in Early
      /\ GoWith(s, "subdirs", Work(s))
  BY GoToIsGoWith DEF MakeWorkspace, At, Early, Labels
<1>2. /\ WorkOf(chats[s], s, Directory(s), runs) /\ Work(s) = chats[s].work
      /\ Directory(s) \in GoodDirectories(runs)
  BY <1>1, AtWork, OfChat
<1>3. Empty \in GoodDirectories(runs) /\ Empty # None /\ WroteNothing(Empty, Work(s).run)
  <2>1. Empty \in Directories
    BY DEF Empty, Directories
  <2> QED
    BY <2>1, NoneAssumption DEF Empty, GoodDirectories, Numbered, Truthful, Final, Readable,
       WroteNothing
<1>4. WroteNothing(Directory(s), Work(s).run)
  BY <1>1, <1>2 DEF WorkOf
<1>5. d \in GoodDirectories(runs) /\ d # None /\ WroteNothing(d, Work(s).run)
  BY <1>2, <1>3, <1>4
<1>6. disk' = [disk EXCEPT ![Work(s).workspace] = d] /\ UNCHANGED runs
  BY DEF MakeWorkspace, Directory
<1> HIDE DEF d
<1> QED
  BY <1>1, <1>5, <1>6, SetupKeeps

LEMMA MakeSubdirsKeeps ==
    ASSUME IInv, NEW s \in Sessions, MakeSubdirs(s)
    PROVE  IInv'
<1> DEFINE d == [Directory(s) EXCEPT !.subdirs = TRUE]
<1>1. /\ chats[s].pc = "subdirs" /\ chats[s].pc \in Early
      /\ GoWith(s, "created", Work(s))
  BY GoToIsGoWith DEF MakeSubdirs, At, Early, Labels
<1>2. /\ WorkOf(chats[s], s, Directory(s), runs) /\ Work(s) = chats[s].work
      /\ Directory(s) \in GoodDirectories(runs)
      /\ Work(s).workspace \in Workspaces
  BY <1>1, AtWork, OfChat
<1>3. /\ Directory(s) # None /\ Directory(s) \in Directories
      /\ WroteNothing(Directory(s), Work(s).run)
  BY <1>1, <1>2 DEF WorkOf, GoodDirectories
<1>4. /\ d \in Directories /\ d.manifest = Directory(s).manifest
      /\ d.files = Directory(s).files
  BY <1>3 DEF Directories
<1>5. disk' = [disk EXCEPT ![Work(s).workspace] = d] /\ UNCHANGED runs
  BY <1>2 DEF MakeSubdirs, Directory, IInv, DiskInv
<1> HIDE DEF d
<1>6. d # None
  BY <1>4, NoneAssumption
<1>7. d \in GoodDirectories(runs) /\ WroteNothing(d, Work(s).run)
  BY <1>2, <1>3, <1>4 DEF GoodDirectories, Numbered, Truthful, HasResult, WroteNothing
<1> QED
  BY <1>1, <1>5, <1>6, <1>7, SetupKeeps

(* A manifest that is empty, or says "created", promises nothing. *)
LEMMA UnfinishedIsGood ==
    ASSUME NEW d \in GoodDirectories(runs), d # None,
           NEW m \in Manifests \union {Torn}, ~Final(m)
    PROVE  [d EXCEPT !.manifest = m] \in GoodDirectories(runs)
<1> DEFINE e == [d EXCEPT !.manifest = m]
<1>1. /\ e \in Directories /\ e.manifest = m /\ e.files = d.files
      /\ Numbered(d, runs)
  BY ManifestKeepsFiles DEF GoodDirectories
<1> HIDE DEF e
<1>2. e \in GoodDirectories(runs)
  BY <1>1 DEF GoodDirectories, Numbered, Truthful
<1> QED
  BY <1>2 DEF e

LEMMA OpenCreatedKeeps ==
    ASSUME IInv, NEW s \in Sessions, OpenCreated(s)
    PROVE  IInv'
<1> DEFINE d == [Directory(s) EXCEPT !.manifest = Torn]
<1>1. /\ chats[s].pc = "created" /\ chats[s].pc \in Early
      /\ GoWith(s, "creating", Work(s))
  BY GoToIsGoWith DEF OpenCreated, OpenManifest, At, Early, Labels
<1>2. /\ WorkOf(chats[s], s, Directory(s), runs) /\ Work(s) = chats[s].work
      /\ Directory(s) \in GoodDirectories(runs)
      /\ Work(s).workspace \in Workspaces
  BY <1>1, AtWork, OfChat
<1>3. /\ Directory(s) # None /\ Directory(s) \in Directories
      /\ WroteNothing(Directory(s), Work(s).run)
  BY <1>1, <1>2 DEF WorkOf, GoodDirectories
<1>4. /\ d \in GoodDirectories(runs) /\ d # None /\ d.manifest = Torn
      /\ WroteNothing(d, Work(s).run)
  BY <1>2, <1>3, UnfinishedIsGood, ManifestKeepsFiles
     DEF Final, Readable, WroteNothing
<1>5. disk' = [disk EXCEPT ![Work(s).workspace] = d] /\ UNCHANGED runs
  BY <1>2 DEF OpenCreated, OpenManifest, Directory, IInv, DiskInv
<1> HIDE DEF d
<1> QED
  BY <1>1, <1>4, <1>5, SetupKeeps

LEMMA ManifestOfRun ==
    ASSUME IInv, NEW s \in Sessions, chats[s].pc \in Early \union Late \union {"clean"},
           NEW status \in Statuses \union {"created"}
    PROVE  [status |-> status, policy |-> chats[s].policy, refs |-> Work(s).refs,
            run |-> Work(s).run] \in Manifests
<1>1. chats[s].policy \in Policies /\ Work(s).refs \in SUBSET Paths
  BY AtWork, OfChat DEF Chats, Works
<1>2. Work(s).run \in 1 .. MaxRuns
  BY AtWork, OfChat DEF WorkOf
<1> QED
  BY <1>1, <1>2 DEF Manifests, Statuses

LEMMA WriteCreatedKeeps ==
    ASSUME IInv, NEW s \in Sessions, WriteCreated(s)
    PROVE  IInv'
<1> DEFINE m == [status |-> "created", policy |-> chats[s].policy, refs |-> Work(s).refs,
                 run |-> Work(s).run]
           d == [Directory(s) EXCEPT !.manifest = m]
<1>1. /\ chats[s].pc = "creating" /\ chats[s].pc \in Early
      /\ GoWith(s, "work", Work(s))
  BY GoToIsGoWith DEF WriteCreated, At, Early, Labels
<1>2. /\ WorkOf(chats[s], s, Directory(s), runs) /\ Work(s) = chats[s].work
      /\ Directory(s) \in GoodDirectories(runs)
      /\ Work(s).workspace \in Workspaces
  BY <1>1, AtWork, OfChat
<1>3. /\ Directory(s) # None /\ Directory(s) \in Directories
      /\ WroteNothing(Directory(s), Work(s).run)
  BY <1>1, <1>2 DEF WorkOf, GoodDirectories
<1>4. m \in Manifests /\ ~Final(m)
  BY <1>1, ManifestOfRun DEF Final
<1>5. disk' = [disk EXCEPT ![Work(s).workspace] = d] /\ UNCHANGED runs
  BY <1>2 DEF WriteCreated, WriteManifest, Directory, IInv, DiskInv
<1> HIDE DEF m
<1>6. /\ d \in GoodDirectories(runs) /\ d # None /\ d.manifest = m
      /\ WroteNothing(d, Work(s).run)
  BY <1>2, <1>3, <1>4, UnfinishedIsGood, ManifestKeepsFiles
     DEF WroteNothing
<1> HIDE DEF d
<1> QED
  BY <1>1, <1>4, <1>5, <1>6, SetupKeeps
(* What the steps of writing have in common. *)
LEMMA LateFacts ==
    ASSUME IInv, NEW s \in Sessions, chats[s].pc \in Late
    PROVE  /\ Work(s) = chats[s].work /\ Work(s) \in Works
           /\ Work(s).workspace \in Own(s) /\ Work(s).workspace \in Workspaces
           /\ Work(s).run \in 1 .. runs /\ Work(s).status \in Statuses
           /\ Directory(s) \in GoodDirectories(runs) /\ Directory(s) \in Directories
           /\ Directory(s) # None
           /\ Wrote(Directory(s), Work(s).run, Work(s).refs, Work(s).status)
           /\ IF Work(s).asked THEN Continues(chats[s]) ELSE Apart(chats[s])
           /\ ~Work(s).asked /\ chats[s].pc # "finalize" => ~Final(Directory(s).manifest)
           /\ chats[s].pc = "fill" => Work(s).todo # <<>>
           /\ chats[s].pc = "finalize" => Directory(s).manifest = Torn
<1>1. /\ WorkOf(chats[s], s, Directory(s), runs) /\ Work(s) \in Works
      /\ Work(s).workspace \in Own(s) /\ Work(s).workspace \in Workspaces
      /\ Directory(s) \in GoodDirectories(runs) /\ Work(s) = chats[s].work
  BY AtWork, OfChat
<1>2. Directory(s) # None /\ Directory(s) \in Directories
  BY <1>1 DEF WorkOf, Late, GoodDirectories
<1> QED
  BY <1>1, <1>2 DEF WorkOf, Late

(* During /status the directory is that of the latest plan. *)
LEMMA AskedFacts ==
    ASSUME IInv, NEW s \in Sessions, chats[s].pc \in Late, Work(s).asked
    PROVE  /\ chats[s].plan # None /\ ~chats[s].plan.cleaned
           /\ chats[s].plan.workspace = Work(s).workspace
           /\ chats[s].plan.run = Work(s).run
           /\ chats[s].plan.status = Work(s).status
           /\ ~Work(s).live /\ Work(s).todo \in Seq({"summary"})
           /\ Wrote(Directory(s), Work(s).run, chats[s].plan.refs, Work(s).status)
           /\ Readable(Directory(s).manifest) => Directory(s).manifest.run = Work(s).run
<1>1. Continues(chats[s]) /\ Work(s) = chats[s].work /\ PlanOf(chats[s], s, disk)
  BY LateFacts, OfChat
<1>2. disk[chats[s].plan.workspace] = Directory(s)
  BY <1>1 DEF Continues, Directory
<1> QED
  BY <1>1, <1>2 DEF Continues, PlanOf

(* Writing a file keeps what the run has written, as long as the result is *)
(* not contradicted.                                                       *)
FileOf(f, h, run, status) ==
    \/ f = Torn
    \/ /\ f \in Files
       /\ f.run = run
       /\ h = "result" => Agreeing(status, f.status)

LEMMA FileKeepsWrote ==
    ASSUME NEW d \in Directories, NEW h \in Paths, NEW run, NEW status, NEW f,
           NEW refs \in SUBSET Paths, NEW e \in Directories,
           FileOf(f, h, run, status),
           e.files = [d.files EXCEPT ![h] = f], Wrote(d, run, refs, status)
    PROVE  Wrote(e, run, refs \union {h}, status)
<1>1. e # None /\ f # None
  BY NoneAssumption DEF FileOf
<1>2. /\ e.files[h] = f
      /\ \A p \in Paths : p # h => e.files[p] = d.files[p]
  BY DEF Directories
<1>3. IsOf(f, run)
  BY <1>1 DEF FileOf, IsOf
<1>4. \A p \in refs \union {h} : IsOf(e.files[p], run)
  <2> SUFFICES ASSUME NEW p \in refs \union {h} PROVE IsOf(e.files[p], run)
    OBVIOUS
  <2>1. CASE p = h
    BY <1>2, <1>3, <2>1
  <2>2. CASE p # h
    BY <1>2, <2>2 DEF Wrote
  <2> QED
    BY <2>1, <2>2
<1>5. HasResult(e, run) => Agreeing(status, e.files["result"].status)
  <2>1. CASE h = "result"
    BY <1>2, <2>1 DEF HasResult, FileOf
  <2>2. CASE h # "result"
    BY <1>2, <2>2 DEF HasResult, Wrote, Paths
  <2> QED
    BY <2>1, <2>2
<1> QED
  BY <1>1, <1>4, <1>5 DEF Wrote

LEMMA FewerRefs ==
    ASSUME NEW d, NEW run, NEW status, NEW refs, NEW more, refs \subseteq more,
           Wrote(d, run, more, status)
    PROVE  Wrote(d, run, refs, status)
  BY DEF Wrote

WithFile(d, h, f) == [d EXCEPT !.files[h] = f]

LEMMA FileIsGood ==
    ASSUME NEW n \in Nat, NEW d \in GoodDirectories(n), d # None,
           NEW h \in Paths, NEW run \in 1 .. n, NEW status, NEW f,
           FileOf(f, h, run, status),
           \/ ~Final(d.manifest)
           \/ h = "summary" /\ (Readable(d.manifest) => d.manifest.run = run)
    PROVE  /\ WithFile(d, h, f) \in GoodDirectories(n)
           /\ WithFile(d, h, f) \in Directories /\ WithFile(d, h, f) # None
           /\ WithFile(d, h, f).manifest = d.manifest
           /\ WithFile(d, h, f).files = [d.files EXCEPT ![h] = f]
<1> DEFINE e == [d EXCEPT !.files[h] = f]
<1>1. d \in Directories /\ f \in Files \union {Torn} /\ f # None
  BY NoneAssumption DEF GoodDirectories, FileOf
<1>2. [d.files EXCEPT ![h] = f] \in [Paths -> Files \union {None, Torn}]
  BY <1>1 DEF Directories
<1>3. /\ e \in Directories /\ e.manifest = d.manifest
      /\ e.files = [d.files EXCEPT ![h] = f]
  BY <1>1, <1>2 DEF Directories
<1> HIDE DEF e
<1>4. e # None
  BY <1>3, NoneAssumption
<1>5. e.files[h] = f /\ \A p \in Paths : p # h => e.files[p] = d.files[p]
  BY <1>1, <1>3 DEF Directories
<1>6. Numbered(e, n)
  <2> SUFFICES ASSUME NEW p \in Paths, e.files[p] \notin {None, Torn}
               PROVE  e.files[p].run <= n
    BY DEF Numbered
  <2>1. CASE p = h
    BY <1>5, <2>1 DEF FileOf
  <2>2. CASE p # h
    BY <1>5, <2>2 DEF GoodDirectories, Numbered
  <2> QED
    BY <2>1, <2>2
<1>7. Truthful(e)
  <2> SUFFICES ASSUME Final(e.manifest) PROVE Truthful(e)
    BY DEF Truthful
  <2>1. /\ h = "summary" /\ d.manifest.run = run /\ Truthful(d)
        /\ d.manifest \in Manifests
    BY <1>1, <1>3 DEF Final, GoodDirectories, Readable, Directories
  <2>2. IsOf(f, run)
    BY <1>1 DEF FileOf, IsOf
  <2>3. e.files["result"] = d.files["result"]
    BY <1>5, <2>1 DEF Paths
  <2>4. \A p \in d.manifest.refs : IsOf(d.files[p], run) => IsOf(e.files[p], run)
    BY <1>5, <2>1, <2>2 DEF Manifests
  <2> QED
    BY <1>3, <2>1, <2>3, <2>4 DEF Truthful, HasResult
<1>8. e \in GoodDirectories(n)
  BY <1>3, <1>6, <1>7 DEF GoodDirectories
<1> QED
  BY <1>3, <1>4, <1>8 DEF e, WithFile

(* A step that writes a file, in a turn or for /status. *)
LEMMA FileKeeps ==
    ASSUME IInv, NEW s \in Sessions, chats[s].pc \in {"write", "fill"},
           NEW label \in {"write", "fill"}, NEW k \in Works, GoWith(s, label, k),
           NEW h \in Paths, NEW f, FileOf(f, h, Work(s).run, Work(s).status),
           Work(s).asked => h = "summary" /\ k.todo \in Seq({"summary"}),
           label = "fill" => k.todo # <<>>,
           k.workspace = Work(s).workspace, k.run = Work(s).run, k.asked = Work(s).asked,
           k.status = Work(s).status, k.live = Work(s).live,
           k.refs \in SUBSET (Work(s).refs \union {h}),
           disk' = [disk EXCEPT ![Work(s).workspace] = [Directory(s) EXCEPT !.files[h] = f]],
           UNCHANGED runs
    PROVE  IInv'
<1> DEFINE d == WithFile(Directory(s), h, f)
<1>0. chats[s].pc \in Late /\ label \in Labels /\ label \in Late
  BY DEF Late, Labels
<1>1. /\ Work(s) = chats[s].work /\ Work(s) \in Works
      /\ Work(s).workspace \in Own(s) /\ Work(s).run \in 1 .. runs
      /\ Work(s).status \in Statuses /\ Work(s).refs \in SUBSET Paths
      /\ Directory(s) \in GoodDirectories(runs) /\ Directory(s) \in Directories
      /\ Directory(s) # None
      /\ Wrote(Directory(s), Work(s).run, Work(s).refs, Work(s).status)
      /\ IF Work(s).asked THEN Continues(chats[s]) ELSE Apart(chats[s])
      /\ ~Work(s).asked => ~Final(Directory(s).manifest)
  BY <1>0, LateFacts DEF Works
<1>2. Work(s).asked =>
        /\ h = "summary"
        /\ Readable(Directory(s).manifest) => Directory(s).manifest.run = Work(s).run
  BY <1>0, AskedFacts
<1>3. /\ d \in GoodDirectories(runs) /\ d \in Directories /\ d # None
      /\ d.manifest = Directory(s).manifest
      /\ d.files = [Directory(s).files EXCEPT ![h] = f]
  <2>1. runs \in Nat
    BY OfChat
  <2>2. \/ ~Final(Directory(s).manifest)
        \/ /\ h = "summary"
           /\ Readable(Directory(s).manifest) => Directory(s).manifest.run = Work(s).run
    BY <1>1, <1>2
  <2> QED
    BY <1>1, <2>1, <2>2, FileIsGood
<1>4. disk' = [disk EXCEPT ![k.workspace] = d]
  BY DEF WithFile
<1> HIDE DEF d
<1>5. Wrote(d, k.run, k.refs, k.status)
  <2>1. Wrote(d, Work(s).run, Work(s).refs \union {h}, Work(s).status)
    BY <1>1, <1>3, FileKeepsWrote
  <2> QED
    BY <2>1, FewerRefs
<1>6. PlanKept(s, k, d)
  <2>1. CASE Work(s).asked
    <3>1. /\ ~chats[s].plan.cleaned /\ chats[s].plan # None
          /\ chats[s].plan.run = Work(s).run /\ chats[s].plan.status = Work(s).status
          /\ Wrote(Directory(s), Work(s).run, chats[s].plan.refs, Work(s).status)
          /\ Readable(Directory(s).manifest) => Directory(s).manifest.run = Work(s).run
      BY <1>0, <2>1, AskedFacts
    <3>2. chats[s].plan.refs \in SUBSET Paths
      BY <3>1, OfChat DEF Chats, Snapshots
    <3>3. Wrote(d, Work(s).run, chats[s].plan.refs \union {h}, Work(s).status)
      BY <1>1, <1>3, <3>1, <3>2, FileKeepsWrote
    <3>4. Wrote(d, Work(s).run, chats[s].plan.refs, Work(s).status)
      BY <3>3, FewerRefs
    <3> QED
      BY <1>3, <3>1, <3>4 DEF PlanKept
  <2>2. CASE ~Work(s).asked
    BY <1>0, <2>2, PlanIsApart DEF PlanKept
  <2> QED
    BY <2>1, <2>2
<1>7. GoesOn(s, label, k, d)
  <2> SUFFICES ASSUME NEW c \in Chats, c.pc = label, c.work = k, c.plan = chats[s].plan,
                      c.turn = chats[s].turn
               PROVE  WorkOf(c, s, d, runs)
    BY DEF GoesOn
  <2>1. IF k.asked THEN Continues(c) ELSE Apart(c)
    BY <1>0, <1>1 DEF Continues, Apart
  <2>2. ~k.asked => ~Final(d.manifest)
    BY <1>1, <1>3
  <2> QED
    BY <1>1, <1>3, <1>5, <2>1, <2>2 DEF WorkOf, Early, Late
<1> QED
  BY <1>0, <1>1, <1>3, <1>4, <1>6, <1>7, StepKeeps

LEMMA HeadOfTodo ==
    ASSUME IInv, NEW s \in Sessions, chats[s].pc \in Late, Work(s).todo # <<>>
    PROVE  /\ Head(Work(s).todo) \in Paths /\ Tail(Work(s).todo) \in Seq(Paths)
           /\ Work(s).asked => /\ Head(Work(s).todo) = "summary"
                               /\ Work(s).todo \in Seq({"summary"})
                               /\ Tail(Work(s).todo) \in Seq({"summary"})
<1>1. Work(s).todo \in Seq(Paths)
  BY LateFacts DEF Works
<1>2. Work(s).asked => Work(s).todo \in Seq({"summary"})
  BY AskedFacts
<1>3. Head(Work(s).todo) \in Paths /\ Tail(Work(s).todo) \in Seq(Paths)
  BY <1>1, HeadTailProperties
<1>4. ASSUME Work(s).asked
      PROVE  Head(Work(s).todo) = "summary" /\ Tail(Work(s).todo) \in Seq({"summary"})
  <2>1. Head(Work(s).todo) \in {"summary"} /\ Tail(Work(s).todo) \in Seq({"summary"})
    BY <1>2, <1>4, HeadTailProperties
  <2> QED
    BY <2>1
<1> QED
  BY <1>2, <1>3, <1>4

LEMMA OpenFileKeeps ==
    ASSUME IInv, NEW s \in Sessions, OpenFile(s)
    PROVE  IInv'
<1> DEFINE h == Head(Work(s).todo)
<1>1. /\ chats[s].pc = "write" /\ chats[s].pc \in Late /\ Work(s).todo # <<>>
      /\ GoWith(s, "fill", Work(s)) /\ UNCHANGED runs
  BY GoToIsGoWith DEF OpenFile, At, Late, Labels
<1>2. /\ Work(s) \in Works /\ Work(s).workspace \in Workspaces
      /\ Directory(s) # None
  BY <1>1, LateFacts
<1>3. /\ h \in Paths
      /\ Work(s).asked => h = "summary" /\ Work(s).todo \in Seq({"summary"})
  BY <1>1, HeadOfTodo
<1>4. disk' = [disk EXCEPT ![Work(s).workspace] = [Directory(s) EXCEPT !.files[h] = Torn]]
  BY <1>2 DEF OpenFile, Directory, IInv, DiskInv
<1>5. FileOf(Torn, h, Work(s).run, Work(s).status)
  BY DEF FileOf
<1> HIDE DEF h
<1> QED
  BY <1>1, <1>2, <1>3, <1>4, <1>5, FileKeeps

LEMMA FillFileKeeps ==
    ASSUME IInv, NEW s \in Sessions, FillFile(s)
    PROVE  IInv'
<1> DEFINE h == Head(Work(s).todo)
           k == [Work(s) EXCEPT !.todo = Tail(@), !.refs = @ \union {h}]
<1>1. /\ chats[s].pc = "fill" /\ chats[s].pc \in Late /\ UNCHANGED runs
  BY DEF FillFile, At, Late
<1>2. /\ Work(s) \in Works /\ Work(s).workspace \in Workspaces
      /\ Work(s).todo # <<>> /\ Work(s).run \in 1 .. runs /\ Work(s).status \in Statuses
  BY <1>1, LateFacts
<1>3. /\ h \in Paths /\ Tail(Work(s).todo) \in Seq(Paths)
      /\ Work(s).asked => h = "summary" /\ Tail(Work(s).todo) \in Seq({"summary"})
  BY <1>1, <1>2, HeadOfTodo
<1>4. PICK contents \in {"fine", "suspect", "cut"} :
        disk' = [disk EXCEPT ![Work(s).workspace].files[h] =
                   [contents |-> contents, run |-> Work(s).run,
                    status |-> IF h = "result" THEN Work(s).status ELSE None]]
  BY DEF FillFile, Contents
<1>5. GoWith(s, "write", k)
  BY DEF FillFile
<1> HIDE DEF h
<1>6. Work(s).refs \union {h} \in SUBSET Paths
  BY <1>2, <1>3 DEF Works
<1>7. /\ k \in Works /\ k.workspace = Work(s).workspace /\ k.run = Work(s).run
      /\ k.asked = Work(s).asked /\ k.status = Work(s).status /\ k.live = Work(s).live
      /\ k.refs = Work(s).refs \union {h} /\ k.todo = Tail(Work(s).todo)
  BY <1>2, <1>3, <1>6 DEF Works
<1> HIDE DEF k
<1> DEFINE f == [contents |-> contents, run |-> Work(s).run,
                 status |-> IF h = "result" THEN Work(s).status ELSE None]
<1>8. f \in Files
  <2>1. Work(s).run \in 1 .. MaxRuns
    BY <1>2, OfChat
  <2>2. (IF h = "result" THEN Work(s).status ELSE None) \in Statuses \union {None}
    BY <1>2
  <2> QED
    BY <2>1, <2>2 DEF Files
<1>9. FileOf(f, h, Work(s).run, Work(s).status)
  BY <1>8 DEF FileOf, Agreeing
<1>10. disk' = [disk EXCEPT ![Work(s).workspace] = [Directory(s) EXCEPT !.files[h] = f]]
  BY <1>2, <1>4 DEF Directory, IInv, DiskInv
<1> HIDE DEF f
<1> QED
  BY <1>1, <1>3, <1>5, <1>7, <1>9, <1>10, FileKeeps

-----------------------------------------------------------------------------
(* The final manifest.                                                     *)

LEMMA SameFiles ==
    ASSUME NEW d, NEW e, e # None, e.files = d.files,
           NEW run, NEW refs, NEW status, Wrote(d, run, refs, status)
    PROVE  Wrote(e, run, refs, status)
  BY DEF Wrote, HasResult

LEMMA OpenFinalKeeps ==
    ASSUME IInv, NEW s \in Sessions, OpenFinal(s)
    PROVE  IInv'
<1> DEFINE d == [Directory(s) EXCEPT !.manifest = Torn]
<1>1. /\ chats[s].pc = "write" /\ chats[s].pc \in Late
      /\ GoWith(s, "finalize", Work(s)) /\ UNCHANGED runs
  BY GoToIsGoWith DEF OpenFinal, OpenManifest, At, Late, Labels
<1>2. /\ Work(s) = chats[s].work /\ Work(s) \in Works
      /\ Work(s).workspace \in Own(s) /\ Work(s).workspace \in Workspaces
      /\ Work(s).run \in 1 .. runs /\ Work(s).status \in Statuses
      /\ Directory(s) \in GoodDirectories(runs) /\ Directory(s) \in Directories
      /\ Directory(s) # None
      /\ Wrote(Directory(s), Work(s).run, Work(s).refs, Work(s).status)
      /\ IF Work(s).asked THEN Continues(chats[s]) ELSE Apart(chats[s])
  BY <1>1, LateFacts
<1>3. disk' = [disk EXCEPT ![Work(s).workspace] = d]
  BY <1>2 DEF OpenFinal, OpenManifest, Directory, IInv, DiskInv
<1>4. /\ d \in GoodDirectories(runs) /\ d # None /\ d.manifest = Torn
      /\ d.files = Directory(s).files
  BY <1>2, UnfinishedIsGood, ManifestKeepsFiles DEF Final, Readable
<1> HIDE DEF d
<1>5. Wrote(d, Work(s).run, Work(s).refs, Work(s).status)
  BY <1>2, <1>4, SameFiles
<1>6. PlanKept(s, Work(s), d)
  <2>1. CASE Work(s).asked
    <3>1. /\ ~chats[s].plan.cleaned
          /\ chats[s].plan.run = Work(s).run /\ chats[s].plan.status = Work(s).status
          /\ Wrote(Directory(s), Work(s).run, chats[s].plan.refs, Work(s).status)
      BY <1>1, <2>1, AskedFacts
    <3>2. Wrote(d, Work(s).run, chats[s].plan.refs, Work(s).status)
      BY <1>4, <3>1, SameFiles
    <3> QED
      BY <1>4, <3>1, <3>2 DEF PlanKept, Readable
  <2>2. CASE ~Work(s).asked
    BY <1>1, <2>2, PlanIsApart DEF PlanKept
  <2> QED
    BY <2>1, <2>2
<1>7. GoesOn(s, "finalize", Work(s), d)
  <2> SUFFICES ASSUME NEW c \in Chats, c.pc = "finalize", c.work = Work(s),
                      c.plan = chats[s].plan, c.turn = chats[s].turn
               PROVE  WorkOf(c, s, d, runs)
    BY DEF GoesOn
  <2>1. IF c.work.asked THEN Continues(c) ELSE Apart(c)
    BY <1>2 DEF Continues, Apart, Late
  <2> QED
    BY <1>2, <1>4, <1>5, <2>1 DEF WorkOf, Early, Late
<1> QED
  BY <1>1, <1>2, <1>3, <1>4, <1>6, <1>7, StepKeeps DEF Labels

(* The chat goes on with this plan as its latest. *)
ReturnsTo(s, plan, D) ==
    \A c \in Chats : c.plan = plan /\ c.turn = chats[s].turn =>
        PlanOf(c, s, D) /\ PlanNumbered(c, runs)

LEMMA ReturnIsChat ==
    ASSUME IInv, NEW s \in Sessions, NEW plan \in Snapshots \union {None},
           NEW D, ReturnsTo(s, plan, D)
    PROVE  /\ [chats[s] EXCEPT !.pc = "idle", !.work = NoWork, !.plan = plan] \in Chats
           /\ ChatOf([chats[s] EXCEPT !.pc = "idle", !.work = NoWork, !.plan = plan],
                     s, D, runs)
<1> DEFINE c == [chats[s] EXCEPT !.pc = "idle", !.work = NoWork, !.plan = plan]
<1>1. /\ c \in Chats /\ c.pc = "idle" /\ c.plan = plan /\ c.turn = chats[s].turn
  BY OfChat, OffIsChat DEF Chats, Labels
<1> HIDE DEF c
<1>2. PlanOf(c, s, D) /\ PlanNumbered(c, runs)
  BY <1>1 DEF ReturnsTo
<1>3. ChatOf(c, s, D, runs)
  BY <1>1, <1>2 DEF ChatOf, Early, Late
<1> QED
  BY <1>1, <1>3 DEF c

LEMMA ReturnKeeps ==
    ASSUME IInv, NEW s \in Sessions, NEW plan \in Snapshots \union {None},
           Return(s, plan), UNCHANGED runs,
           NEW w \in Own(s), NEW d \in GoodDirectories(runs),
           disk' = [disk EXCEPT ![w] = d], ReturnsTo(s, plan, disk')
    PROVE  IInv'
<1> DEFINE c == [chats[s] EXCEPT !.pc = "idle", !.work = NoWork, !.plan = plan]
<1>1. c \in Chats /\ ChatOf(c, s, disk', runs')
  BY ReturnIsChat
<1>2. chats' = [chats EXCEPT ![s] = c]
  BY DEF Return, IInv, ChatInv
<1> HIDE DEF c
<1> QED
  BY <1>1, <1>2, WriteKeeps

(* The snapshot of the run is its plan, and true of its directory d.       *)
Finishes(s, d) ==
    /\ d # None
    /\ Wrote(d, Work(s).run, Work(s).refs, Work(s).status)
    /\ Readable(d.manifest) => d.manifest.run = Work(s).run

LEMMA SnapshotIsPlan ==
    ASSUME IInv, NEW s \in Sessions, chats[s].pc \in {"finalize", "clean"},
           NEW cleaned \in BOOLEAN, NEW D,
           Work(s).workspace[3] <= chats[s].turn,
           IF cleaned THEN D[Work(s).workspace] = None
           ELSE Finishes(s, D[Work(s).workspace])
    PROVE  /\ Snapshot(s, cleaned) \in Snapshots
           /\ ReturnsTo(s, Snapshot(s, cleaned), D)
<1> DEFINE plan == Snapshot(s, cleaned)
<1>1. /\ Work(s).workspace \in Own(s) /\ Work(s).workspace \in Workspaces
      /\ Work(s).run \in 1 .. runs /\ Work(s).refs \in SUBSET Paths
      /\ Work(s).status \in Statuses
  BY AtWork, OfChat DEF WorkOf, Works, Late
<1>2. Work(s).run \in 1 .. MaxRuns
  BY <1>1, OfChat
<1>3. /\ plan.workspace = Work(s).workspace /\ plan.run = Work(s).run
      /\ plan.refs = Work(s).refs /\ plan.cleaned = cleaned
      /\ plan.status \in Statuses
      /\ plan.status = "succeeded" <=> Work(s).status = "succeeded"
  BY <1>1 DEF Snapshot, Statuses
<1>4. plan \in Snapshots
  BY <1>1, <1>2 DEF Snapshot, Snapshots, Statuses
<1> HIDE DEF plan
<1>5. ASSUME NEW c \in Chats, c.plan = plan, c.turn = chats[s].turn
      PROVE  PlanOf(c, s, D) /\ PlanNumbered(c, runs)
  <2>1. CASE cleaned
    BY <1>1, <1>3, <1>5, <2>1 DEF PlanOf, PlanNumbered
  <2>2. CASE ~cleaned
    <3>1. Finishes(s, D[Work(s).workspace])
      BY <2>2
    <3>2. Wrote(D[Work(s).workspace], plan.run, plan.refs, plan.status)
      BY <1>3, <3>1 DEF Finishes, Wrote, Agreeing
    <3> QED
      BY <1>1, <1>3, <1>5, <2>2, <3>1, <3>2 DEF PlanOf, PlanNumbered, Finishes
  <2> QED
    BY <2>1, <2>2
<1> QED
  BY <1>4, <1>5 DEF plan, ReturnsTo

(* What a turn leaves: its own plan, or the one from before, whose         *)
(* directory it has not touched.                                           *)
LEMMA PlanAfterTurn ==
    ASSUME IInv, NEW s \in Sessions, chats[s].pc = "clean",
           NEW cleaned \in BOOLEAN, NEW D,
           IF cleaned THEN D[Work(s).workspace] = None
           ELSE Finishes(s, D[Work(s).workspace]),
           \A w \in Own(s) : w # Work(s).workspace => D[w] = disk[w]
    PROVE  /\ PlanAfter(s, cleaned) \in Snapshots \union {None}
           /\ ReturnsTo(s, PlanAfter(s, cleaned), D)
<1>1. /\ Apart(chats[s]) /\ ~Work(s).asked /\ Work(s) = chats[s].work
      /\ chats[s].turn \in Nat
  BY AtWork, OfChat, MaxTurnsAssumption DEF WorkOf, Continues, Late, Chats
<1>2. CASE Work(s).workspace[1] = "plan"
  <2>1. Work(s).workspace[3] <= chats[s].turn
    BY <1>1 DEF Apart
  <2> QED
    BY <1>2, <2>1, SnapshotIsPlan DEF PlanAfter
<1>3. CASE Work(s).workspace[1] # "plan"
  <2>1. PlanAfter(s, cleaned) = chats[s].plan
    BY <1>3 DEF PlanAfter
  <2>2. chats[s].plan \in Snapshots \union {None}
    BY OfChat DEF Chats
  <2>3. chats[s].plan # None =>
          D[chats[s].plan.workspace] = disk[chats[s].plan.workspace]
    BY <1>1, PlanIsApart, OfChat DEF PlanOf
  <2>4. ASSUME NEW c \in Chats, c.plan = chats[s].plan, c.turn = chats[s].turn
        PROVE  PlanOf(c, s, D) /\ PlanNumbered(c, runs)
    <3>1. PlanOf(c, s, D)
      BY <1>1, <2>3, <2>4, OfChat, PlanStays
    <3>2. PlanNumbered(c, runs)
      BY <2>4, OfChat DEF PlanNumbered
    <3> QED
      BY <3>1, <3>2
  <2> QED
    BY <2>1, <2>2, <2>4 DEF ReturnsTo
<1> QED
  BY <1>2, <1>3

LEMMA KeepKeeps ==
    ASSUME IInv, NEW s \in Sessions, Keep(s)
    PROVE  IInv'
<1>1. /\ chats[s].pc = "clean" /\ ~Deletes(chats[s].policy, Work(s).status)
      /\ Return(s, PlanAfter(s, FALSE)) /\ UNCHANGED runs /\ disk' = disk
  BY DEF Keep, At
<1>2. /\ WorkOf(chats[s], s, Directory(s), runs) /\ Work(s) = chats[s].work
      /\ Work(s).workspace \in Own(s) /\ Directory(s) \in GoodDirectories(runs)
  BY <1>1, AtWork, OfChat
<1>3. Directory(s) # None /\ Finished(chats[s], Directory(s))
  BY <1>1, <1>2 DEF WorkOf
<1>4. Finishes(s, disk[Work(s).workspace])
  BY <1>1, <1>2, <1>3 DEF Finishes, Finished, Directory
<1>5. /\ PlanAfter(s, FALSE) \in Snapshots \union {None}
      /\ ReturnsTo(s, PlanAfter(s, FALSE), disk)
  BY <1>1, <1>4, PlanAfterTurn
<1>6. disk' = [disk EXCEPT ![Work(s).workspace] = Directory(s)]
  <2>1. disk = [w \in Workspaces |-> disk[w]]
    BY DEF IInv, DiskInv
  <2> QED
    BY <1>1, <2>1 DEF Directory
<1> DEFINE plan == PlanAfter(s, FALSE)
           w == Work(s).workspace
           d == Directory(s)
<1>7. /\ plan \in Snapshots \union {None}
      /\ Return(s, plan)
      /\ ReturnsTo(s, plan, disk')
  BY <1>1, <1>5
<1>8. w \in Own(s) /\ d \in GoodDirectories(runs) /\ UNCHANGED runs
      /\ disk' = [disk EXCEPT ![w] = d]
  BY <1>1, <1>2, <1>6
<1> HIDE DEF plan, w, d
<1> QED
  BY <1>7, <1>8, ReturnKeeps

LEMMA RemoveWorkspaceKeeps ==
    ASSUME IInv, NEW s \in Sessions, RemoveWorkspace(s)
    PROVE  IInv'
<1>1. /\ chats[s].pc = "clean" /\ Return(s, PlanAfter(s, TRUE)) /\ UNCHANGED runs
      /\ disk' = [disk EXCEPT ![Work(s).workspace] = None]
  BY DEF RemoveWorkspace, At
<1>2. Work(s).workspace \in Own(s) /\ Work(s).workspace \in Workspaces
  BY <1>1, AtWork
<1>3. None \in GoodDirectories(runs)
  BY DEF GoodDirectories, Numbered, Truthful
<1>4. /\ disk'[Work(s).workspace] = None
      /\ \A w \in Own(s) : w # Work(s).workspace => disk'[w] = disk[w]
  BY <1>1, <1>2 DEF IInv, DiskInv, Own
<1>5. /\ PlanAfter(s, TRUE) \in Snapshots \union {None}
      /\ ReturnsTo(s, PlanAfter(s, TRUE), disk')
  BY <1>1, <1>4, PlanAfterTurn
<1> QED
  BY <1>1, <1>2, <1>3, <1>5, ReturnKeeps

LEMMA RemoveEntryKeeps ==
    ASSUME IInv, NEW s \in Sessions, RemoveEntry(s)
    PROVE  IInv'
<1>1. /\ chats[s].pc = "clean" /\ Deletes(chats[s].policy, Work(s).status)
      /\ UNCHANGED <<chats, runs>>
  BY DEF RemoveEntry, At
<1>2. PICK entry \in Entries(Directory(s)) :
        disk' = [disk EXCEPT ![Work(s).workspace] = Without(disk[Work(s).workspace], entry)]
  BY AtWork, <1>1 DEF RemoveEntry, IInv, DiskInv
<1> DEFINE d == Without(Directory(s), entry)
<1>3. /\ WorkOf(chats[s], s, Directory(s), runs) /\ Work(s) = chats[s].work
      /\ Work(s).workspace \in Own(s) /\ Work(s) \in Works
      /\ Directory(s) \in GoodDirectories(runs)
      /\ disk' = [disk EXCEPT ![Work(s).workspace] = d]
  BY <1>1, <1>2, AtWork, OfChat DEF Directory
<1>4. /\ Directory(s) # None /\ Directory(s) \in Directories
      /\ Finished(chats[s], Directory(s)) /\ Apart(chats[s]) /\ ~Work(s).asked
  BY <1>1, <1>3 DEF WorkOf, GoodDirectories, Continues, Late
<1>5. /\ d \in Directories /\ d.manifest \in {None, Directory(s).manifest}
      /\ \A p \in Paths : d.files[p] \in {None, Directory(s).files[p]}
  BY <1>4 DEF Without, Directories
<1> HIDE DEF d
<1>6. d # None
  BY <1>5, NoneAssumption
<1>7. Numbered(d, runs)
  BY <1>3, <1>4, <1>5 DEF GoodDirectories, Numbered
<1>8. Truthful(d)
  <2> SUFFICES ASSUME Final(d.manifest) PROVE Truthful(d)
    BY DEF Truthful
  <2>1. /\ d.manifest = Directory(s).manifest /\ d.manifest # None
        /\ Truthful(Directory(s))
    BY <1>3, <1>5 DEF Final, Readable, GoodDirectories
  <2>2. Deletes(d.manifest.policy, d.manifest.status)
    BY <1>1, <1>3, <1>4, <2>1 DEF Finished
  <2>3. HasResult(d, d.manifest.run) =>
          /\ HasResult(Directory(s), d.manifest.run)
          /\ d.files["result"] = Directory(s).files["result"]
    BY <1>5 DEF HasResult, Paths
  <2> QED
    BY <1>4, <2>1, <2>2, <2>3 DEF Truthful
<1>9. d \in GoodDirectories(runs)
  BY <1>5, <1>7, <1>8 DEF GoodDirectories
<1>10. GoWith(s, "clean", Work(s))
  <2>1. chats[s] = [chats[s] EXCEPT !.pc = "clean", !.work = Work(s)]
    BY <1>1, OfChat DEF Chats
  <2> QED
    BY <1>1, <2>1 DEF GoWith, IInv, ChatInv
<1>11. PlanKept(s, Work(s), d)
  BY <1>1, <1>4, PlanIsApart DEF PlanKept
<1>12. GoesOn(s, "clean", Work(s), d)
  <2> SUFFICES ASSUME NEW c \in Chats, c.pc = "clean", c.work = Work(s),
                      c.plan = chats[s].plan, c.turn = chats[s].turn,
                      c.policy = chats[s].policy
               PROVE  WorkOf(c, s, d, runs)
    BY DEF GoesOn
  <2>1. Finished(c, d)
    BY <1>1, <1>3, <1>4, <1>5, NoneAssumption DEF Finished
  <2>2. Apart(c)
    BY <1>3, <1>4 DEF Apart
  <2> QED
    BY <1>1, <1>3, <1>4, <1>6, <2>1, <2>2 DEF WorkOf, Early, Late
<1> QED
  BY <1>1, <1>3, <1>9, <1>10, <1>11, <1>12, StepKeeps DEF Labels

(* The final manifest is true: it says what the run has written.           *)
LEMMA FinalIsGood ==
    ASSUME NEW n, NEW d \in GoodDirectories(n), d # None, NEW m \in Manifests,
           Wrote(d, m.run, m.refs, m.status)
    PROVE  [d EXCEPT !.manifest = m] \in GoodDirectories(n)
<1> DEFINE e == [d EXCEPT !.manifest = m]
<1>1. /\ e \in Directories /\ e.manifest = m /\ e.files = d.files /\ e # None
      /\ Numbered(d, n)
  BY ManifestKeepsFiles DEF GoodDirectories
<1> HIDE DEF e
<1>2. e \in GoodDirectories(n)
  BY <1>1 DEF GoodDirectories, Numbered, Truthful, Wrote, HasResult
<1> QED
  BY <1>2 DEF e

LEMMA WriteFinalKeeps ==
    ASSUME IInv, NEW s \in Sessions, WriteFinal(s)
    PROVE  IInv'
<1> DEFINE m == [status |-> Work(s).status, policy |-> chats[s].policy,
                 refs |-> Work(s).refs, run |-> Work(s).run]
           d == [Directory(s) EXCEPT !.manifest = m]
<1>1. /\ chats[s].pc = "finalize" /\ chats[s].pc \in Late /\ UNCHANGED runs
  BY DEF WriteFinal, At, Late
<1>2. /\ Work(s) = chats[s].work /\ Work(s) \in Works
      /\ Work(s).workspace \in Own(s) /\ Work(s).workspace \in Workspaces
      /\ Work(s).run \in 1 .. runs /\ Work(s).status \in Statuses
      /\ Directory(s) \in GoodDirectories(runs) /\ Directory(s) \in Directories
      /\ Directory(s) # None
      /\ Wrote(Directory(s), Work(s).run, Work(s).refs, Work(s).status)
      /\ IF Work(s).asked THEN Continues(chats[s]) ELSE Apart(chats[s])
  BY <1>1, LateFacts
<1>3. disk' = [disk EXCEPT ![Work(s).workspace] = d]
  BY <1>2 DEF WriteFinal, WriteManifest, Directory, IInv, DiskInv
<1>4. /\ m \in Manifests /\ m.status = Work(s).status /\ m.policy = chats[s].policy
      /\ m.refs = Work(s).refs /\ m.run = Work(s).run
  BY <1>1, <1>2, ManifestOfRun
<1> HIDE DEF m
<1>5. /\ d \in GoodDirectories(runs) /\ d # None /\ d.manifest = m
      /\ d.files = Directory(s).files
  BY <1>2, <1>4, FinalIsGood, ManifestKeepsFiles
<1> HIDE DEF d
<1>6. Wrote(d, Work(s).run, Work(s).refs, Work(s).status)
  BY <1>2, <1>5, SameFiles
<1>7. m # Torn /\ m # None
  BY <1>4, NoneAssumption
<1>8. CASE Work(s).asked
  <2>1. Return(s, Snapshot(s, FALSE))
    BY <1>8 DEF WriteFinal
  <2>2. disk'[Work(s).workspace] = d
    BY <1>2, <1>3 DEF IInv, DiskInv
  <2>3. Finishes(s, d)
    BY <1>4, <1>5, <1>6 DEF Finishes
  <2>4. Work(s).workspace[3] <= chats[s].turn
    BY <1>1, <1>8, AskedFacts, OfChat DEF PlanOf
  <2>5. /\ Snapshot(s, FALSE) \in Snapshots
        /\ ReturnsTo(s, Snapshot(s, FALSE), disk')
    BY <1>1, <2>2, <2>3, <2>4, SnapshotIsPlan
  <2> QED
    BY <1>1, <1>2, <1>3, <1>5, <2>1, <2>5, ReturnKeeps
<1>9. CASE ~Work(s).asked
  <2>1. GoWith(s, "clean", Work(s))
    BY <1>9, GoToIsGoWith DEF WriteFinal, Labels
  <2>2. PlanKept(s, Work(s), d)
    BY <1>1, <1>9, PlanIsApart DEF PlanKept
  <2>3. GoesOn(s, "clean", Work(s), d)
    <3> SUFFICES ASSUME NEW c \in Chats, c.pc = "clean", c.work = Work(s),
                        c.plan = chats[s].plan, c.turn = chats[s].turn,
                        c.policy = chats[s].policy
                 PROVE  WorkOf(c, s, d, runs)
      BY DEF GoesOn
    <3>1. Finished(c, d)
      BY <1>4, <1>5, <1>6, <1>7 DEF Finished
    <3>2. Apart(c)
      BY <1>2, <1>9 DEF Apart
    <3> QED
      BY <1>2, <1>5, <1>9, <3>1, <3>2 DEF WorkOf, Early, Late
  <2> QED
    BY <1>1, <1>2, <1>3, <1>5, <2>1, <2>2, <2>3, StepKeeps DEF Labels
<1> QED
  BY <1>8, <1>9

-----------------------------------------------------------------------------
(* /status *)

LEMMA ShowStatusKeeps ==
    ASSUME IInv, NEW s \in Sessions, ShowStatus(s)
    PROVE  IInv'
<1> DEFINE plan == chats[s].plan
           k == [NoWork EXCEPT !.workspace = plan.workspace, !.run = plan.run,
                               !.refs = plan.refs, !.status = plan.status,
                               !.asked = TRUE, !.todo = <<"summary", "summary">>]
<1>1. /\ plan # None /\ ~plan.cleaned
      /\ GoWith(s, "write", k) /\ UNCHANGED <<disk, runs>>
  BY DEF ShowStatus, ResumePlan
<1>2. plan \in Snapshots /\ plan.run \in 1 .. runs /\ PlanOf(chats[s], s, disk)
  BY <1>1, OfChat DEF Chats, PlanNumbered
<1>3. <<"summary", "summary">> \in Seq(Paths) /\ <<"summary", "summary">> \in Seq({"summary"})
  <2>1. \A S : \A p, q \in S : <<p, q>> \in Seq(S)
    OBVIOUS
  <2>2. "summary" \in Paths /\ "summary" \in {"summary"}
    BY DEF Paths
  <2> QED
    BY <2>1, <2>2
<1>4. plan.run \in 0 .. MaxRuns
  BY <1>2, OfChat
<1>5. k \in Works
  BY <1>2, <1>3, <1>4, OffIsChat DEF Works, Snapshots
<1>6. /\ k.workspace = plan.workspace /\ k.run = plan.run /\ k.refs = plan.refs
      /\ k.status = plan.status /\ k.asked /\ ~k.live
      /\ k.todo = <<"summary", "summary">>
  BY DEF NoWork
<1> HIDE DEF k
<1>7. ASSUME NEW c \in Chats, c.pc = "write", c.work = k, c.plan = plan
      PROVE  WorkOf(c, s, disk[k.workspace], runs)
  <2>1. Continues(c)
    BY <1>1, <1>3, <1>6, <1>7 DEF Continues, Late
  <2>2. /\ k.workspace \in Own(s)
        /\ Wrote(disk[k.workspace], k.run, k.refs, k.status)
    BY <1>1, <1>2, <1>6 DEF PlanOf
  <2>3. disk[k.workspace] # None
    BY <2>2 DEF Wrote
  <2>4. k.status \in Statuses
    BY <1>2, <1>6 DEF Snapshots
  <2> QED
    BY <1>2, <1>6, <1>7, <2>1, <2>2, <2>3, <2>4 DEF WorkOf, Early, Late
<1> QED
  BY <1>1, <1>5, <1>7, GoKeeps DEF Labels

-----------------------------------------------------------------------------
LEMMA RunKeeps ==
    ASSUME IInv, NEW s \in Sessions, Run(s)
    PROVE  IInv'
<1>1. CASE ResolveTarget(s) \/ Inspect(s)
  BY <1>1, ResolveTargetKeeps, InspectKeeps
<1>2. CASE MakeWorkspace(s) \/ MakeSubdirs(s) \/ OpenCreated(s) \/ WriteCreated(s)
  BY <1>2, MakeWorkspaceKeeps, MakeSubdirsKeeps, OpenCreatedKeeps, WriteCreatedKeeps
<1>3. CASE Do(s) \/ OpenFile(s) \/ FillFile(s)
  BY <1>3, DoKeeps, OpenFileKeeps, FillFileKeeps
<1>4. CASE OpenFinal(s) \/ WriteFinal(s)
  BY <1>4, OpenFinalKeeps, WriteFinalKeeps
<1>5. CASE Keep(s) \/ RemoveEntry(s) \/ RemoveWorkspace(s)
  BY <1>5, KeepKeeps, RemoveEntryKeeps, RemoveWorkspaceKeeps
<1> QED
  BY <1>1, <1>2, <1>3, <1>4, <1>5 DEF Run

LEMMA TurnKeeps ==
    ASSUME IInv, NEW s \in Sessions, Turn(s)
    PROVE  IInv'
  BY RefusedKeeps, BeginTaskKeeps, BeginAuditKeeps, ShowStatusKeeps DEF Turn

LEMMA NothingKeeps ==
    ASSUME IInv, UNCHANGED vars
    PROVE  IInv'
<1>1. disk' = disk /\ chats' = chats /\ runs' = runs
  BY DEF vars
<1>2. RunsInv' /\ DiskInv'
  BY <1>1 DEF IInv, RunsInv, DiskInv
<1>3. ChatInv'
  BY <1>1 DEF IInv, ChatInv
<1> QED
  BY <1>2, <1>3 DEF IInv

(* The inductive invariant of all chats, whatever they run, wherever they  *)
(* end and however often they are started again.                           *)
THEOREM Invariant == Spec => []IInv
<1>1. IInv /\ [Next]_vars => IInv'
  <2> SUFFICES ASSUME IInv, [Next]_vars PROVE IInv'
    OBVIOUS
  <2>1. ASSUME NEW s \in Sessions, NEW policy \in Policies, StartChat(s, policy)
        PROVE  IInv'
    BY <2>1, StartChatKeeps
  <2>2. ASSUME NEW s \in Sessions, EndChat(s) PROVE IInv'
    BY <2>2, EndChatKeeps
  <2>3. ASSUME NEW s \in Sessions, Turn(s) PROVE IInv'
    BY <2>3, TurnKeeps
  <2>4. ASSUME NEW s \in Sessions, Run(s) PROVE IInv'
    BY <2>4, RunKeeps
  <2>5. CASE UNCHANGED vars
    BY <2>5, NothingKeeps
  <2> QED
    BY <2>1, <2>2, <2>3, <2>4, <2>5 DEF Next
<1> QED
  BY InvInit, <1>1, PTL DEF Spec

(* TypeOK of the specification.                                            *)
THEOREM Typing == Spec => []TypeOK
<1>1. IInv => TypeOK
  BY DEF IInv, RunsInv, DiskInv, ChatInv, GoodDirectories, TypeOK
<1> QED
  BY <1>1, Invariant, PTL

(* A final manifest names only files that its run has written.             *)
THEOREM ManifestsTrue == Spec => []ManifestIsTruthful
<1>1. IInv => ManifestIsTruthful
  BY DEF IInv, DiskInv, GoodDirectories, Truthful, ManifestIsTruthful
<1> QED
  BY <1>1, Invariant, PTL

(* The manifest and the result of a run agree on whether it succeeded.     *)
THEOREM StatusesAgree == Spec => []FinalStatusesAgree
<1>1. IInv => FinalStatusesAgree
  BY DEF IInv, DiskInv, GoodDirectories, Truthful, HasResult, Agreeing, FinalStatusesAgree
<1> QED
  BY <1>1, Invariant, PTL

(* The snapshot of the latest plan names files of that plan that exist,    *)
THEOREM SnapshotsTrue == Spec => []SnapshotRefsExist
<1>1. IInv => SnapshotRefsExist
  BY OfChat DEF PlanOf, Wrote, SnapshotRefsExist
<1> QED
  BY <1>1, Invariant, PTL

(* or says that its directory was cleaned up, and then that stays gone.    *)
THEOREM CleanedAreGone == Spec => []CleanedStaysGone
<1>1. IInv => CleanedStaysGone
  BY OfChat DEF PlanOf, CleanedStaysGone
<1> QED
  BY <1>1, Invariant, PTL

-----------------------------------------------------------------------------
(* What an audit relies on: a finished run has made the whole directory    *)
(* and named its result, and later work of its chat does not undo that.    *)

Complete(d) ==
    d # None /\ Final(d.manifest) /\ ~Deletes(d.manifest.policy, d.manifest.status) =>
        d.subdirs /\ "result" \in d.manifest.refs

(* The result is named, or still to be written.                            *)
ResultDue(k) == "result" \in k.refs \/ \E i \in 1 .. Len(k.todo) : k.todo[i] = "result"

(* The work k at this label, in its directory d. *)
WorkMade(label, k, policy, d) ==
    /\ label = "inspect" => k.target \in Workspaces
    /\ label \in {"created", "creating", "work"} \union Late => d.subdirs
    /\ label \in Late => ResultDue(k)
    /\ label = "finalize" => k.todo = <<>>
    /\ label = "clean" => /\ "result" \in k.refs
                          /\ ~Deletes(policy, k.status) => d.subdirs

PlanMade(plan, D) ==
    plan # None /\ ~plan.cleaned => "result" \in plan.refs /\ D[plan.workspace].subdirs

Made(c, D) ==
    /\ WorkMade(c.pc, c.work, c.policy, D[c.work.workspace])
    /\ PlanMade(c.plan, D)

MadeInv ==
    /\ \A w \in Workspaces : Complete(disk[w])
    /\ \A s \in Sessions : Made(chats[s], disk)

(* A label at which a chat has no work. *)
LEMMA NoWorkMade ==
    ASSUME NEW label \in {"off", "idle", "resolve", "create", "subdirs"},
           NEW k, NEW policy, NEW d
    PROVE  WorkMade(label, k, policy, d)
  BY DEF WorkMade, Late

LEMMA MadeOf ==
    ASSUME IInv, MadeInv, NEW s \in Sessions
    PROVE  /\ WorkMade(chats[s].pc, Work(s), chats[s].policy, Directory(s))
           /\ PlanMade(chats[s].plan, disk)
  BY DEF MadeInv, Made, Work, Directory

(* A chat disturbs neither the directories nor the plan of another. *)
LEMMA OneChatMakes ==
    ASSUME IInv, MadeInv, NEW s \in Sessions, NEW c,
           chats' = [chats EXCEPT ![s] = c],
           \A w \in Workspaces : w[2] # s => disk'[w] = disk[w],
           \A w \in Own(s) : Complete(disk'[w]),
           Made(c, disk')
    PROVE  MadeInv'
<1>1. ASSUME NEW w \in Workspaces PROVE Complete(disk'[w])
  <2>1. CASE w \in Own(s)
    BY <2>1
  <2>2. CASE w \notin Own(s)
    BY <2>2 DEF Own, MadeInv
  <2> QED
    BY <2>1, <2>2
<1>2. ASSUME NEW t \in Sessions PROVE Made(chats'[t], disk')
  <2>1. CASE t = s
    BY <2>1 DEF IInv, ChatInv
  <2>2. CASE t # s
    <3>1. /\ chats'[t] = chats[t] /\ Made(chats[t], disk)
          /\ ChatOf(chats[t], t, disk, runs) /\ PlanOf(chats[t], t, disk)
      BY <2>2, OfChat DEF IInv, ChatInv, MadeInv
    <3>2. \A w \in Own(t) : disk'[w] = disk[w]
      BY <2>2 DEF Own
    <3>3. PlanMade(chats[t].plan, disk')
      BY <3>1, <3>2 DEF Made, PlanMade, PlanOf
    <3>4. WorkMade(chats[t].pc, chats[t].work, chats[t].policy,
                   disk'[chats[t].work.workspace])
      <4>1. CASE chats[t].pc \in Early \union Late \union {"clean"}
        BY <3>1, <3>2, <4>1 DEF ChatOf, WorkOf, Made
      <4>2. CASE chats[t].pc \notin Early \union Late \union {"clean"}
        BY <4>2 DEF WorkMade, Early, Late
      <4> QED
        BY <4>1, <4>2
    <3> QED
      BY <3>1, <3>3, <3>4 DEF Made
  <2> QED
    BY <2>1, <2>2
<1> QED
  BY <1>1, <1>2 DEF MadeInv

LEMMA TalkMakes ==
    ASSUME IInv, MadeInv, NEW s \in Sessions, NEW c,
           chats' = [chats EXCEPT ![s] = c], UNCHANGED disk, Made(c, disk)
    PROVE  MadeInv'
  BY OneChatMakes DEF MadeInv, Own

(* The chat goes on in the directory d.  That d keeps the promise of the   *)
(* latest plan is asked only if it is its directory.                       *)
LEMMA StepMakes ==
    ASSUME IInv, MadeInv, NEW s \in Sessions, NEW label \in Labels, NEW k \in Works,
           GoWith(s, label, k), k.workspace \in Own(s),
           NEW d, disk' = [disk EXCEPT ![k.workspace] = d], Complete(d),
           d.subdirs \/ (chats[s].plan # None => chats[s].plan.workspace # k.workspace),
           WorkMade(label, k, chats[s].policy, d)
    PROVE  MadeInv'
<1> DEFINE c == [chats[s] EXCEPT !.pc = label, !.work = k]
<1>1. chats' = [chats EXCEPT ![s] = c]
  BY DEF GoWith, IInv, ChatInv
<1>2. /\ c.pc = label /\ c.work = k /\ c.plan = chats[s].plan
      /\ c.policy = chats[s].policy
  BY OfChat DEF Chats
<1> HIDE DEF c
<1>3. /\ disk'[k.workspace] = d
      /\ \A w \in Workspaces : w # k.workspace => disk'[w] = disk[w]
  BY DEF IInv, DiskInv, Own
<1>4. \A w \in Own(s) : Complete(disk'[w])
  BY <1>3 DEF MadeInv, Own
<1>5. \A w \in Workspaces : w[2] # s => disk'[w] = disk[w]
  BY <1>3 DEF Own
<1>6. PlanMade(chats[s].plan, disk')
  <2>1. PlanMade(chats[s].plan, disk) /\ PlanOf(chats[s], s, disk)
    BY MadeOf, OfChat
  <2> SUFFICES ASSUME chats[s].plan # None, ~chats[s].plan.cleaned
               PROVE  disk'[chats[s].plan.workspace].subdirs
    BY <2>1 DEF PlanMade
  <2>2. CASE chats[s].plan.workspace = k.workspace
    BY <1>3, <2>2
  <2>3. CASE chats[s].plan.workspace # k.workspace
    BY <1>3, <2>1, <2>3 DEF PlanMade, PlanOf, Own
  <2> QED
    BY <2>2, <2>3
<1>7. Made(c, disk')
  BY <1>2, <1>3, <1>6 DEF Made
<1> QED
  BY <1>1, <1>4, <1>5, <1>7, OneChatMakes

(* The turn is over, and the latest plan is this one. *)
LEMMA ReturnMakes ==
    ASSUME IInv, MadeInv, NEW s \in Sessions, NEW plan, Return(s, plan),
           NEW w \in Own(s), NEW d, disk' = [disk EXCEPT ![w] = d], Complete(d),
           PlanMade(plan, disk')
    PROVE  MadeInv'
<1> DEFINE c == [chats[s] EXCEPT !.pc = "idle", !.work = NoWork, !.plan = plan]
<1>1. chats' = [chats EXCEPT ![s] = c]
  BY DEF Return, IInv, ChatInv
<1>2. c.pc = "idle" /\ c.plan = plan
  BY OfChat DEF Chats
<1> HIDE DEF c
<1>3. /\ \A v \in Own(s) : Complete(disk'[v])
      /\ \A v \in Workspaces : v[2] # s => disk'[v] = disk[v]
  BY DEF IInv, DiskInv, MadeInv, Own
<1>4. Made(c, disk')
  BY <1>2, NoWorkMade DEF Made
<1> QED
  BY <1>1, <1>3, <1>4, OneChatMakes

(* The steps that leave the disk alone.                                    *)
LEMMA StartChatMakes ==
    ASSUME IInv, MadeInv, NEW s \in Sessions, NEW policy \in Policies, StartChat(s, policy)
    PROVE  MadeInv'
<1> DEFINE c == [Off EXCEPT !.pc = "idle", !.policy = policy]
<1>1. c.pc = "idle" /\ c.plan = None
  BY DEF Off
<1> HIDE DEF c
<1>2. Made(c, disk)
  BY <1>1, NoWorkMade DEF Made, PlanMade
<1>3. chats' = [chats EXCEPT ![s] = c] /\ UNCHANGED disk
  BY DEF StartChat, c
<1> QED
  BY <1>2, <1>3, TalkMakes

LEMMA EndChatMakes ==
    ASSUME IInv, MadeInv, NEW s \in Sessions, EndChat(s)
    PROVE  MadeInv'
<1>1. Off.pc = "off" /\ Off.plan = None
  BY DEF Off
<1>2. Made(Off, disk)
  BY <1>1, NoWorkMade DEF Made, PlanMade
<1> QED
  BY <1>2, TalkMakes DEF EndChat

LEMMA TurnMakes ==
    ASSUME IInv, MadeInv, NEW s \in Sessions, UNCHANGED disk,
           NEW c, chats' = [chats EXCEPT ![s] = c],
           c.pc \in {"idle", "create", "resolve"},
           c.plan \in {None, chats[s].plan}
    PROVE  MadeInv'
<1>1. PlanMade(c.plan, disk)
  BY MadeOf DEF PlanMade
<1>2. Made(c, disk)
  BY <1>1, NoWorkMade DEF Made
<1> QED
  BY <1>2, TalkMakes

LEMMA RefusedMakes ==
    ASSUME IInv, MadeInv, NEW s \in Sessions, NEW workflow \in Workflows,
           Refused(s, workflow)
    PROVE  MadeInv'
<1> DEFINE plan == IF workflow = "plan" THEN None ELSE chats[s].plan
           c == [chats[s] EXCEPT !.turn = chats[s].turn + 1, !.plan = plan]
<1>1. chats' = [chats EXCEPT ![s] = c] /\ UNCHANGED disk
  BY DEF Refused, IInv, ChatInv
<1>2. c.pc = "idle" /\ c.plan = plan /\ plan \in {None, chats[s].plan}
  BY OfChat DEF Chats, Refused, BeginTurn, At
<1> HIDE DEF c, plan
<1> QED
  BY <1>1, <1>2, TurnMakes

LEMMA BeginMakes ==
    ASSUME IInv, MadeInv, NEW s \in Sessions, UNCHANGED disk,
           NEW label \in {"create", "resolve"}, NEW k,
           chats' = [chats EXCEPT ![s].turn = chats[s].turn + 1, ![s].pc = label,
                                  ![s].work = k]
    PROVE  MadeInv'
<1> DEFINE c == [chats[s] EXCEPT !.turn = chats[s].turn + 1, !.pc = label, !.work = k]
<1>1. chats' = [chats EXCEPT ![s] = c]
  BY DEF IInv, ChatInv
<1>2. c.pc = label /\ c.plan = chats[s].plan
  BY OfChat DEF Chats
<1> HIDE DEF c
<1> QED
  BY <1>1, <1>2, TurnMakes

(* A step of the audit, which knows what its target is. *)
LEMMA ResolveTargetMakes ==
    ASSUME IInv, MadeInv, NEW s \in Sessions, ResolveTarget(s)
    PROVE  MadeInv'
<1>0. /\ chats[s].pc = "resolve" /\ Work(s) \in Works /\ Work(s).target \in Workspaces
      /\ UNCHANGED disk
  BY AtWork, OfChat DEF ResolveTarget, At, Early, WorkOf
<1>1. PICK label, k : /\ label \in {"inspect", "create"}
                      /\ GoWith(s, label, k) /\ k.target \in Workspaces
  <2> DEFINE seeing == [Work(s) EXCEPT !.seen = disk[Work(s).target].manifest]
             blocked == [Work(s) EXCEPT !.verdict = "blocked"]
  <2>1. seeing.target \in Workspaces /\ blocked.target \in Workspaces
    BY <1>0 DEF Works
  <2>2. GoWith(s, "inspect", seeing) \/ GoWith(s, "create", blocked)
    BY DEF ResolveTarget
  <2> HIDE DEF seeing, blocked
  <2> QED
    BY <2>1, <2>2
<1> DEFINE c == [chats[s] EXCEPT !.pc = label, !.work = k]
<1>3. /\ chats' = [chats EXCEPT ![s] = c]
      /\ c.pc = label /\ c.work = k /\ c.plan = chats[s].plan
  BY <1>1, OfChat DEF GoWith, IInv, ChatInv, Chats
<1> HIDE DEF c
<1>4. Made(c, disk)
  BY <1>1, <1>3, MadeOf DEF Made, WorkMade, Late
<1> QED
  BY <1>0, <1>3, <1>4, TalkMakes

LEMMA InspectMakes ==
    ASSUME IInv, MadeInv, NEW s \in Sessions, Inspect(s)
    PROVE  MadeInv'
<1>1. PICK k : GoWith(s, "create", k)
  BY DEF Inspect
<1> DEFINE c == [chats[s] EXCEPT !.pc = "create", !.work = k]
<1>2. /\ chats' = [chats EXCEPT ![s] = c] /\ UNCHANGED disk
      /\ c.pc = "create" /\ c.plan = chats[s].plan
  BY <1>1, OfChat DEF GoWith, IInv, ChatInv, Chats, Inspect
<1> HIDE DEF c
<1> QED
  BY <1>2, TurnMakes

(* The steps that change the directory.                                    *)

(* A directory without a final manifest promises nothing. *)
LEMMA UnfinishedIsComplete ==
    ASSUME NEW d, d # None => ~Final(d.manifest)
    PROVE  Complete(d)
  BY DEF Complete

(* So does the directory that a chat is at work in. *)
LEMMA CompleteOf ==
    ASSUME IInv, MadeInv, NEW s \in Sessions,
           chats[s].pc \in Early \union Late \union {"clean"}
    PROVE  Complete(Directory(s))
  BY AtWork DEF MadeInv, Directory

(* While a directory is set up, what was there stays. *)
LEMMA MakeWorkspaceMakes ==
    ASSUME IInv, MadeInv, NEW s \in Sessions, MakeWorkspace(s)
    PROVE  MadeInv'
<1> DEFINE d == IF Directory(s) = None THEN Empty ELSE Directory(s)
<1>1. /\ chats[s].pc = "create" /\ chats[s].pc \in Early
      /\ GoWith(s, "subdirs", Work(s))
  BY GoToIsGoWith DEF MakeWorkspace, At, Early, Labels
<1>2. /\ WorkOf(chats[s], s, Directory(s), runs) /\ Work(s) \in Works
      /\ Work(s).workspace \in Own(s) /\ Work(s) = chats[s].work
  BY <1>1, AtWork, OfChat
<1>3. ~Work(s).asked
  BY <1>1, <1>2 DEF WorkOf, Continues, Early, Late
<1>4. Complete(d)
  <2>1. Complete(Empty)
    BY UnfinishedIsComplete DEF Empty, Final, Readable
  <2> QED
    BY <1>1, <2>1, CompleteOf
<1>5. disk' = [disk EXCEPT ![Work(s).workspace] = d]
  BY DEF MakeWorkspace, Directory
<1> HIDE DEF d
<1> QED
  BY <1>1, <1>2, <1>3, <1>4, <1>5, PlanIsApart, NoWorkMade, StepMakes DEF Labels

LEMMA MakeSubdirsMakes ==
    ASSUME IInv, MadeInv, NEW s \in Sessions, MakeSubdirs(s)
    PROVE  MadeInv'
<1> DEFINE d == [Directory(s) EXCEPT !.subdirs = TRUE]
<1>1. /\ chats[s].pc = "subdirs" /\ chats[s].pc \in Early
      /\ GoWith(s, "created", Work(s))
  BY GoToIsGoWith DEF MakeSubdirs, At, Early, Labels
<1>2. /\ WorkOf(chats[s], s, Directory(s), runs) /\ Work(s) \in Works
      /\ Work(s).workspace \in Own(s) /\ Work(s).workspace \in Workspaces
      /\ Work(s) = chats[s].work /\ Directory(s) \in GoodDirectories(runs)
  BY <1>1, AtWork, OfChat
<1>3. Directory(s) # None /\ Directory(s) \in Directories
  BY <1>1, <1>2 DEF WorkOf, GoodDirectories
<1>4. d.subdirs /\ d.manifest = Directory(s).manifest
  BY <1>3 DEF Directories
<1>5. disk' = [disk EXCEPT ![Work(s).workspace] = d]
  BY <1>2 DEF MakeSubdirs, Directory, IInv, DiskInv
<1> HIDE DEF d
<1>6. Complete(d)
  BY <1>1, <1>3, <1>4, CompleteOf DEF Complete
<1>7. WorkMade("created", Work(s), chats[s].policy, d)
  BY <1>4 DEF WorkMade, Late
<1> QED
  BY <1>1, <1>2, <1>4, <1>5, <1>6, <1>7, StepMakes DEF Labels

(* Writing a manifest that is not final, in a directory that has its parts. *)
LEMMA ManifestMakes ==
    ASSUME IInv, MadeInv, NEW s \in Sessions,
           chats[s].pc \in {"created", "creating"} \union Late,
           NEW m \in Manifests \union {Torn}, NEW label \in Labels,
           GoWith(s, label, Work(s)),
           disk' = [disk EXCEPT ![Work(s).workspace].manifest = m],
           Complete([Directory(s) EXCEPT !.manifest = m]),
           [Directory(s) EXCEPT !.manifest = m].subdirs
             => WorkMade(label, Work(s), chats[s].policy,
                         [Directory(s) EXCEPT !.manifest = m])
    PROVE  MadeInv'
<1> DEFINE d == [Directory(s) EXCEPT !.manifest = m]
<1>1. chats[s].pc \in Early \union Late
  BY DEF Early
<1>2. /\ WorkOf(chats[s], s, Directory(s), runs) /\ Work(s) \in Works
      /\ Work(s).workspace \in Own(s) /\ Work(s).workspace \in Workspaces
      /\ Directory(s) \in GoodDirectories(runs)
  BY <1>1, AtWork
<1>3. Directory(s) # None /\ Directory(s) \in Directories
  BY <1>2 DEF WorkOf, GoodDirectories, Late
<1>4. d.subdirs
  <2>1. Directory(s).subdirs
    BY MadeOf DEF WorkMade
  <2> QED
    BY <1>3, <2>1 DEF Directories
<1>5. disk' = [disk EXCEPT ![Work(s).workspace] = d]
  BY <1>2 DEF Directory, IInv, DiskInv
<1>6. Complete(d) /\ WorkMade(label, Work(s), chats[s].policy, d)
  BY <1>4
<1> HIDE DEF d
<1> QED
  BY <1>2, <1>4, <1>5, <1>6, StepMakes

LEMMA OpenCreatedMakes ==
    ASSUME IInv, MadeInv, NEW s \in Sessions, OpenCreated(s)
    PROVE  MadeInv'
<1> DEFINE d == [Directory(s) EXCEPT !.manifest = Torn]
<1>1. /\ chats[s].pc = "created" /\ chats[s].pc \in Early
      /\ GoWith(s, "creating", Work(s))
      /\ disk' = [disk EXCEPT ![Work(s).workspace].manifest = Torn]
  BY GoToIsGoWith DEF OpenCreated, OpenManifest, At, Early, Labels
<1>2. Directory(s) \in Directories
  BY <1>1, AtWork, OfChat DEF WorkOf, GoodDirectories
<1>3. d.manifest = Torn
  BY <1>2 DEF Directories
<1> HIDE DEF d
<1>4. Complete(d)
  BY <1>3, UnfinishedIsComplete DEF Final, Readable
<1>5. d.subdirs => WorkMade("creating", Work(s), chats[s].policy, d)
  BY DEF WorkMade, Late
<1> QED
  BY <1>1, <1>4, <1>5, ManifestMakes DEF Labels, d

LEMMA WriteCreatedMakes ==
    ASSUME IInv, MadeInv, NEW s \in Sessions, WriteCreated(s)
    PROVE  MadeInv'
<1> DEFINE m == [status |-> "created", policy |-> chats[s].policy, refs |-> Work(s).refs,
                 run |-> Work(s).run]
           d == [Directory(s) EXCEPT !.manifest = m]
<1>1. /\ chats[s].pc = "creating" /\ chats[s].pc \in Early
      /\ GoWith(s, "work", Work(s))
      /\ disk' = [disk EXCEPT ![Work(s).workspace].manifest = m]
  BY GoToIsGoWith DEF WriteCreated, WriteManifest, At, Early, Labels
<1>2. Directory(s) \in Directories
  BY <1>1, AtWork, OfChat DEF WorkOf, GoodDirectories
<1>3. m \in Manifests /\ ~Final(m)
  BY <1>1, ManifestOfRun DEF Final
<1> HIDE DEF m
<1>4. d.manifest = m
  BY <1>2 DEF Directories
<1> HIDE DEF d
<1>5. Complete(d)
  BY <1>3, <1>4, UnfinishedIsComplete
<1>6. d.subdirs => WorkMade("work", Work(s), chats[s].policy, d)
  BY DEF WorkMade, Late
<1> QED
  BY <1>1, <1>3, <1>5, <1>6, ManifestMakes DEF Labels, d

LEMMA ResultIsToDo ==
    ASSUME NEW first \in {<<>>, <<"evidence">>}
    PROVE  \E i \in 1 .. Len(first \o <<"display", "result">>) :
               (first \o <<"display", "result">>)[i] = "result"
<1> DEFINE rest == <<"display", "result">>
<1>1. first \in Seq(Paths) /\ rest \in Seq(Paths)
  <2>1. \A S : \A p \in S : <<p>> \in Seq(S)
    OBVIOUS
  <2>2. \A S : \A p, q \in S : <<p, q>> \in Seq(S)
    OBVIOUS
  <2>3. {"evidence", "display", "result"} \subseteq Paths
    BY DEF Paths
  <2>4. rest \in Seq(Paths)
    BY <2>2, <2>3
  <2>5. <<"evidence">> \in Seq(Paths) /\ <<>> \in Seq(Paths)
    BY <2>1, <2>3
  <2> QED
    BY <2>4, <2>5
<1>5. Len(rest) = 2 /\ rest[2] = "result"
  OBVIOUS
<1>2. Len(first) \in Nat
  BY <1>1, LenProperties
<1> HIDE DEF rest
<1>3. /\ Len(first \o rest) = Len(first) + 2
      /\ (first \o rest)[Len(first) + 2] = rest[2]
  <2>1. Len(first) + 2 \in 1 .. Len(first) + Len(rest)
    BY <1>2, <1>5
  <2>2. ~(Len(first) + 2 <= Len(first)) /\ Len(first) + 2 - Len(first) = 2
    BY <1>2
  <2> HIDE DEF rest
  <2>3. /\ Len(first \o rest) = Len(first) + Len(rest)
        /\ \A i \in 1 .. Len(first) + Len(rest) :
             (first \o rest)[i] = IF i <= Len(first) THEN first[i]
                                   ELSE rest[i - Len(first)]
    BY <1>1, ConcatProperties
  <2>4. (first \o rest)[Len(first) + 2] = rest[Len(first) + 2 - Len(first)]
    BY <2>1, <2>2, <2>3
  <2> QED
    BY <1>5, <2>2, <2>3, <2>4
<1>4. Len(first) + 2 \in 1 .. Len(first \o rest)
  BY <1>2, <1>3
<1> QED
  BY <1>3, <1>4, <1>5 DEF rest

(* Every outcome of a run has its result written. *)
LEMMA DoMakes ==
    ASSUME IInv, MadeInv, NEW s \in Sessions, Do(s)
    PROVE  MadeInv'
<1>0. /\ chats[s].pc = "work" /\ Work(s) \in Works
      /\ Work(s).workspace \in Workspaces /\ UNCHANGED disk
  BY AtWork DEF At, Early, Do
<1>8. Work(s).workspace[1] \in Workflows
  BY <1>0 DEF Workspaces
<1>7. Directory(s).subdirs
  BY <1>0, MadeOf DEF WorkMade
<1> PICK outcome \in Outcomes(Work(s).workspace[1]) :
      GoWith(s, "write",
             [Work(s) EXCEPT !.status = outcome[1], !.live = outcome[2],
                             !.todo = outcome[3] \o <<"display", "result">>])
  BY DEF Do
<1> DEFINE todo == outcome[3] \o <<"display", "result">>
           k == [Work(s) EXCEPT !.status = outcome[1], !.live = outcome[2],
                                !.todo = todo]
           c == [chats[s] EXCEPT !.pc = "write", !.work = k]
<1>1. \E i \in 1 .. Len(todo) : todo[i] = "result"
  BY <1>8, OutcomeFacts, ResultIsToDo
<1> HIDE DEF todo
<1>2. ResultDue(k) /\ k.workspace = Work(s).workspace
  BY <1>0, <1>1 DEF ResultDue, Works
<1>3. GoWith(s, "write", k)
  BY DEF todo
<1> HIDE DEF k
<1>4. /\ chats' = [chats EXCEPT ![s] = c]
      /\ c.pc = "write" /\ c.work = k /\ c.plan = chats[s].plan
  BY <1>3, OfChat DEF GoWith, IInv, ChatInv, Chats
<1> HIDE DEF c
<1>5. disk[c.work.workspace].subdirs
  BY <1>2, <1>4, <1>7 DEF Directory
<1>6. Made(c, disk)
  BY <1>2, <1>4, <1>5, MadeOf DEF Made, WorkMade, Late
<1> QED
  BY <1>0, <1>4, <1>6, TalkMakes

LEMMA FileMakes ==
    ASSUME IInv, MadeInv, NEW s \in Sessions, chats[s].pc \in {"write", "fill"},
           NEW label \in {"write", "fill"}, NEW k \in Works, GoWith(s, label, k),
           k.workspace = Work(s).workspace, ResultDue(k), NEW h, NEW f,
           disk' = [disk EXCEPT ![Work(s).workspace] = [Directory(s) EXCEPT !.files[h] = f]]
    PROVE  MadeInv'
<1> DEFINE d == [Directory(s) EXCEPT !.files[h] = f]
<1>0. chats[s].pc \in Late /\ label \in Labels /\ label \in Late
  BY DEF Late, Labels
<1>1. Work(s).workspace \in Own(s) /\ Directory(s) \in Directories
  BY <1>0, LateFacts
<1>2. Directory(s).subdirs
  BY <1>0, MadeOf DEF WorkMade
<1>3. d.subdirs /\ d.manifest = Directory(s).manifest /\ Directory(s) # None
  BY <1>0, <1>1, <1>2, LateFacts DEF Directories
<1>4. disk' = [disk EXCEPT ![k.workspace] = d]
  OBVIOUS
<1> HIDE DEF d
<1>5. Complete(d)
  BY <1>0, <1>3, CompleteOf DEF Complete
<1>6. WorkMade(label, k, chats[s].policy, d)
  BY <1>3 DEF WorkMade
<1> QED
  BY <1>0, <1>1, <1>3, <1>4, <1>5, <1>6, StepMakes

LEMMA OpenFileMakes ==
    ASSUME IInv, MadeInv, NEW s \in Sessions, OpenFile(s)
    PROVE  MadeInv'
<1>1. /\ chats[s].pc = "write" /\ chats[s].pc \in Late
      /\ GoWith(s, "fill", Work(s))
  BY GoToIsGoWith DEF OpenFile, At, Late, Labels
<1>2. /\ Work(s) \in Works /\ Work(s).workspace \in Workspaces
      /\ Directory(s) # None /\ ResultDue(Work(s))
  BY <1>1, LateFacts, MadeOf DEF WorkMade
<1>3. disk' = [disk EXCEPT ![Work(s).workspace] =
                 [Directory(s) EXCEPT !.files[Head(Work(s).todo)] = Torn]]
  BY <1>2 DEF OpenFile, Directory, IInv, DiskInv
<1> QED
  BY <1>1, <1>2, <1>3, FileMakes

LEMMA FillFileMakes ==
    ASSUME IInv, MadeInv, NEW s \in Sessions, FillFile(s)
    PROVE  MadeInv'
<1> DEFINE h == Head(Work(s).todo)
           k == [Work(s) EXCEPT !.todo = Tail(@), !.refs = @ \union {h}]
<1>1. chats[s].pc = "fill" /\ chats[s].pc \in Late /\ GoWith(s, "write", k)
  BY DEF FillFile, At, Late
<1>2. /\ Work(s) \in Works /\ Work(s).workspace \in Workspaces
      /\ Work(s).todo # <<>> /\ ResultDue(Work(s)) /\ Work(s).todo \in Seq(Paths)
  BY <1>1, LateFacts, MadeOf DEF WorkMade, Works
<1>3. h \in Paths /\ Tail(Work(s).todo) \in Seq(Paths)
  BY <1>1, <1>2, HeadOfTodo
<1>4. PICK f : disk' = [disk EXCEPT ![Work(s).workspace].files[h] = f]
  BY DEF FillFile
<1>5. disk' = [disk EXCEPT ![Work(s).workspace] = [Directory(s) EXCEPT !.files[h] = f]]
  BY <1>2, <1>4 DEF Directory, IInv, DiskInv
<1>6. /\ k \in Works /\ k.workspace = Work(s).workspace
      /\ k.todo = Tail(Work(s).todo) /\ k.refs = Work(s).refs \union {h}
  BY <1>2, <1>3 DEF Works
<1>7. ResultDue(k)
  <2>1. CASE "result" \in Work(s).refs
    BY <1>6, <2>1 DEF ResultDue
  <2>2. CASE \E i \in 1 .. Len(Work(s).todo) : Work(s).todo[i] = "result"
    <3> PICK i \in 1 .. Len(Work(s).todo) : Work(s).todo[i] = "result"
      BY <2>2
    <3>1. Len(Work(s).todo) \in Nat /\ Work(s).todo[1] = h
      BY <1>2, LenProperties
    <3>2. CASE i = 1
      BY <1>6, <3>1, <3>2 DEF ResultDue
    <3>3. CASE i # 1
      <4>1. i - 1 \in 1 .. Len(Work(s).todo) - 1
        BY <3>1, <3>3
      <4>2. /\ Len(Tail(Work(s).todo)) = Len(Work(s).todo) - 1
            /\ Tail(Work(s).todo)[i - 1] = Work(s).todo[i]
        BY <1>2, <3>1, <3>3, <4>1, HeadTailProperties
      <4> QED
        BY <1>6, <4>1, <4>2 DEF ResultDue
    <3> QED
      BY <3>2, <3>3
  <2> QED
    BY <1>2, <2>1, <2>2 DEF ResultDue
<1> HIDE DEF k, h
<1> QED
  BY <1>1, <1>5, <1>6, <1>7, FileMakes

LEMMA OpenFinalMakes ==
    ASSUME IInv, MadeInv, NEW s \in Sessions, OpenFinal(s)
    PROVE  MadeInv'
<1> DEFINE d == [Directory(s) EXCEPT !.manifest = Torn]
<1>1. /\ chats[s].pc = "write" /\ chats[s].pc \in Late
      /\ GoWith(s, "finalize", Work(s)) /\ Work(s).todo = <<>>
      /\ disk' = [disk EXCEPT ![Work(s).workspace].manifest = Torn]
  BY GoToIsGoWith DEF OpenFinal, OpenManifest, At, Late, Labels
<1>2. Directory(s) \in Directories /\ ResultDue(Work(s))
  BY <1>1, LateFacts, MadeOf DEF WorkMade
<1>3. d.manifest = Torn
  BY <1>2 DEF Directories
<1> HIDE DEF d
<1>4. Complete(d)
  BY <1>3, UnfinishedIsComplete DEF Final, Readable
<1>5. d.subdirs => WorkMade("finalize", Work(s), chats[s].policy, d)
  BY <1>1, <1>2 DEF WorkMade
<1> QED
  BY <1>1, <1>4, <1>5, ManifestMakes DEF Labels, d

(* All was written when the manifest is, so it names the result. *)
LEMMA WriteFinalMakes ==
    ASSUME IInv, MadeInv, NEW s \in Sessions, WriteFinal(s)
    PROVE  MadeInv'
<1> DEFINE m == [status |-> Work(s).status, policy |-> chats[s].policy,
                 refs |-> Work(s).refs, run |-> Work(s).run]
           d == [Directory(s) EXCEPT !.manifest = m]
<1>1. /\ chats[s].pc = "finalize" /\ chats[s].pc \in Late
      /\ disk' = [disk EXCEPT ![Work(s).workspace].manifest = m]
  BY DEF WriteFinal, WriteManifest, At, Late
<1>2. /\ Directory(s) \in Directories /\ Work(s) \in Works
      /\ Work(s).workspace \in Own(s) /\ Work(s).workspace \in Workspaces
      /\ Work(s).status \in Statuses
  BY <1>1, LateFacts
<1>3. "result" \in Work(s).refs
  <2>1. Work(s).todo = <<>> /\ ResultDue(Work(s))
    BY <1>1, MadeOf DEF WorkMade
  <2> QED
    BY <2>1 DEF ResultDue
<1>4. m \in Manifests /\ m.refs = Work(s).refs
  BY <1>1, <1>2, ManifestOfRun
<1> HIDE DEF m
<1>5. d.subdirs /\ d.manifest = m
  BY <1>1, <1>2, MadeOf DEF WorkMade, Directories
<1>6. disk' = [disk EXCEPT ![Work(s).workspace] = d]
  BY <1>1, <1>2 DEF Directory, IInv, DiskInv
<1> HIDE DEF d
<1>7. Complete(d)
  BY <1>3, <1>4, <1>5 DEF Complete
<1>8. CASE Work(s).asked
  <2>1. Return(s, Snapshot(s, FALSE))
    BY <1>8 DEF WriteFinal
  <2>2. disk'[Work(s).workspace] = d
    BY <1>2, <1>6 DEF IInv, DiskInv
  <2>3. PlanMade(Snapshot(s, FALSE), disk')
    BY <1>3, <1>5, <2>2 DEF PlanMade, Snapshot
  <2> QED
    BY <1>2, <1>6, <1>7, <2>1, <2>3, ReturnMakes
<1>9. CASE ~Work(s).asked
  <2>1. GoWith(s, "clean", Work(s))
    BY <1>9, GoToIsGoWith DEF WriteFinal, Labels
  <2>2. WorkMade("clean", Work(s), chats[s].policy, d)
    BY <1>3, <1>5 DEF WorkMade, Late
  <2> QED
    BY <1>2, <1>5, <1>6, <1>7, <2>1, <2>2, StepMakes DEF Labels
<1> QED
  BY <1>8, <1>9

LEMMA KeepMakes ==
    ASSUME IInv, MadeInv, NEW s \in Sessions, Keep(s)
    PROVE  MadeInv'
<1>1. /\ chats[s].pc = "clean" /\ ~Deletes(chats[s].policy, Work(s).status)
      /\ Return(s, PlanAfter(s, FALSE)) /\ disk' = disk
  BY DEF Keep, At
<1>2. Work(s).workspace \in Own(s) /\ Complete(Directory(s))
  BY <1>1, AtWork, CompleteOf
<1>3. disk' = [disk EXCEPT ![Work(s).workspace] = Directory(s)]
  BY <1>1 DEF Directory, IInv, DiskInv
<1>4. "result" \in Work(s).refs /\ Directory(s).subdirs
  BY <1>1, MadeOf DEF WorkMade
<1>5. PlanMade(PlanAfter(s, FALSE), disk')
  <2>1. PlanMade(Snapshot(s, FALSE), disk')
    BY <1>1, <1>4 DEF PlanMade, Snapshot, Directory
  <2>2. PlanMade(chats[s].plan, disk')
    BY <1>1, MadeOf
  <2> QED
    BY <2>1, <2>2 DEF PlanAfter
<1> QED
  BY <1>1, <1>2, <1>3, <1>5, ReturnMakes

LEMMA RemoveWorkspaceMakes ==
    ASSUME IInv, MadeInv, NEW s \in Sessions, RemoveWorkspace(s)
    PROVE  MadeInv'
<1>1. /\ chats[s].pc = "clean" /\ Return(s, PlanAfter(s, TRUE))
      /\ disk' = [disk EXCEPT ![Work(s).workspace] = None]
  BY DEF RemoveWorkspace, At
<1>2. /\ WorkOf(chats[s], s, Directory(s), runs) /\ Work(s) = chats[s].work
      /\ Work(s).workspace \in Own(s)
  BY <1>1, AtWork, OfChat
<1>3. ~Work(s).asked
  BY <1>1, <1>2 DEF WorkOf, Continues, Late
<1>4. Complete(None)
  BY DEF Complete
<1>5. PlanMade(PlanAfter(s, TRUE), disk')
  <2>1. PlanMade(Snapshot(s, TRUE), disk')
    BY DEF PlanMade, Snapshot
  <2>2. PlanMade(chats[s].plan, disk')
    <3> SUFFICES ASSUME chats[s].plan # None
                 PROVE  disk'[chats[s].plan.workspace] = disk[chats[s].plan.workspace]
      BY MadeOf DEF PlanMade
    <3>1. /\ chats[s].plan.workspace # Work(s).workspace
          /\ chats[s].plan.workspace \in Workspaces
      BY <1>1, <1>3, PlanIsApart, OfChat DEF PlanOf, Own
    <3> QED
      BY <1>1, <3>1 DEF IInv, DiskInv
  <2> QED
    BY <2>1, <2>2 DEF PlanAfter
<1> QED
  BY <1>1, <1>2, <1>4, <1>5, ReturnMakes

(* A manifest that outlives other entries is one whose policy is to delete. *)
LEMMA RemoveEntryMakes ==
    ASSUME IInv, MadeInv, NEW s \in Sessions, RemoveEntry(s)
    PROVE  MadeInv'
<1>1. /\ chats[s].pc = "clean" /\ Deletes(chats[s].policy, Work(s).status)
      /\ UNCHANGED chats
  BY DEF RemoveEntry, At
<1>2. /\ WorkOf(chats[s], s, Directory(s), runs) /\ Work(s) = chats[s].work
      /\ Work(s).workspace \in Own(s) /\ Work(s) \in Works
      /\ Work(s).workspace \in Workspaces
  BY <1>1, AtWork, OfChat
<1>3. PICK entry : disk' = [disk EXCEPT ![Work(s).workspace] = Without(Directory(s), entry)]
  BY <1>2 DEF RemoveEntry, Directory, IInv, DiskInv
<1> DEFINE d == Without(Directory(s), entry)
<1>4. Finished(chats[s], Directory(s)) /\ ~Work(s).asked
  BY <1>1, <1>2 DEF WorkOf, Continues, Late
<1>5. d.manifest \in {None, Directory(s).manifest}
  BY DEF Without
<1> HIDE DEF d
<1>6. Complete(d)
  BY <1>1, <1>2, <1>4, <1>5 DEF Complete, Finished, Final, Readable
<1>7. GoWith(s, "clean", Work(s))
  <2>1. chats[s] = [chats[s] EXCEPT !.pc = "clean", !.work = Work(s)]
    BY <1>1, OfChat DEF Chats
  <2> QED
    BY <1>1, <2>1 DEF GoWith, IInv, ChatInv
<1>8. WorkMade("clean", Work(s), chats[s].policy, d)
  BY <1>1, MadeOf DEF WorkMade, Late
<1> QED
  BY <1>1, <1>2, <1>3, <1>4, <1>6, <1>7, <1>8, PlanIsApart, StepMakes DEF Labels, d

LEMMA ShowStatusMakes ==
    ASSUME IInv, MadeInv, NEW s \in Sessions, ShowStatus(s)
    PROVE  MadeInv'
<1> DEFINE plan == chats[s].plan
           k == [NoWork EXCEPT !.workspace = plan.workspace, !.run = plan.run,
                               !.refs = plan.refs, !.status = plan.status,
                               !.asked = TRUE, !.todo = <<"summary", "summary">>]
           c == [chats[s] EXCEPT !.pc = "write", !.work = k]
<1>1. /\ plan # None /\ ~plan.cleaned
      /\ GoWith(s, "write", k) /\ UNCHANGED disk
  BY DEF ShowStatus, ResumePlan
<1>2. k.workspace = plan.workspace /\ k.refs = plan.refs
  BY DEF NoWork
<1> HIDE DEF k
<1>3. /\ chats' = [chats EXCEPT ![s] = c]
      /\ c.pc = "write" /\ c.work = k /\ c.plan = plan
  BY <1>1, OfChat DEF GoWith, IInv, ChatInv, Chats
<1> HIDE DEF c
<1>4. Made(c, disk)
  BY <1>1, <1>2, <1>3, MadeOf DEF Made, WorkMade, PlanMade, Late, ResultDue
<1> QED
  BY <1>1, <1>3, <1>4, TalkMakes

LEMMA MadeInit == Init => MadeInv
<1> SUFFICES ASSUME Init PROVE MadeInv
  OBVIOUS
<1>1. \A w \in Workspaces : Complete(disk[w])
  BY DEF Init, Complete
<1>2. Off.pc = "off" /\ Off.plan = None
  BY DEF Off
<1>3. ASSUME NEW s \in Sessions PROVE Made(chats[s], disk)
  BY <1>2, NoWorkMade DEF Init, Made, PlanMade
<1> QED
  BY <1>1, <1>3 DEF MadeInv

LEMMA RunMakes ==
    ASSUME IInv, MadeInv, NEW s \in Sessions, Run(s)
    PROVE  MadeInv'
<1>1. CASE ResolveTarget(s) \/ Inspect(s) \/ Do(s)
  BY <1>1, ResolveTargetMakes, InspectMakes, DoMakes
<1>2. CASE MakeWorkspace(s) \/ MakeSubdirs(s) \/ OpenCreated(s) \/ WriteCreated(s)
  BY <1>2, MakeWorkspaceMakes, MakeSubdirsMakes, OpenCreatedMakes, WriteCreatedMakes
<1>3. CASE OpenFile(s) \/ FillFile(s) \/ OpenFinal(s) \/ WriteFinal(s)
  BY <1>3, OpenFileMakes, FillFileMakes, OpenFinalMakes, WriteFinalMakes
<1>4. CASE Keep(s) \/ RemoveEntry(s) \/ RemoveWorkspace(s)
  BY <1>4, KeepMakes, RemoveEntryMakes, RemoveWorkspaceMakes
<1> QED
  BY <1>1, <1>2, <1>3, <1>4 DEF Run

LEMMA TurnOrStatusMakes ==
    ASSUME IInv, MadeInv, NEW s \in Sessions, Turn(s)
    PROVE  MadeInv'
<1>1. ASSUME NEW task \in Tasks, BeginTask(s, task) PROVE MadeInv'
  <2> DEFINE k == NextWork(s, task)
  <2>1. /\ chats' = [chats EXCEPT ![s].turn = chats[s].turn + 1, ![s].pc = "create",
                                  ![s].work = k]
        /\ UNCHANGED disk
    BY <1>1 DEF BeginTask, IInv, ChatInv
  <2> HIDE DEF k
  <2> QED
    BY <2>1, BeginMakes
<1>2. ASSUME NEW target \in Workspaces, BeginAudit(s, target) PROVE MadeInv'
  <2> DEFINE k == [NextWork(s, "audit") EXCEPT !.target = target]
  <2>1. /\ chats' = [chats EXCEPT ![s].turn = chats[s].turn + 1, ![s].pc = "resolve",
                                  ![s].work = k]
        /\ UNCHANGED disk
    BY <1>2 DEF BeginAudit, IInv, ChatInv
  <2> HIDE DEF k
  <2> QED
    BY <2>1, BeginMakes
<1> QED
  BY <1>1, <1>2, RefusedMakes, ShowStatusMakes DEF Turn

(* A finished run that does not delete its directory has all its parts     *)
(* made and its result among its refs, and what the chat does later in     *)
(* that directory keeps both.                                              *)
THEOREM FinishedAreComplete == Spec => []MadeInv
<1>1. IInv /\ MadeInv /\ [Next]_vars => MadeInv'
  <2> SUFFICES ASSUME IInv, MadeInv, [Next]_vars PROVE MadeInv'
    OBVIOUS
  <2>1. ASSUME NEW s \in Sessions, NEW policy \in Policies, StartChat(s, policy)
        PROVE  MadeInv'
    BY <2>1, StartChatMakes
  <2>2. ASSUME NEW s \in Sessions, EndChat(s) PROVE MadeInv'
    BY <2>2, EndChatMakes
  <2>3. ASSUME NEW s \in Sessions, Turn(s) PROVE MadeInv'
    BY <2>3, TurnOrStatusMakes
  <2>4. ASSUME NEW s \in Sessions, Run(s) PROVE MadeInv'
    BY <2>4, RunMakes
  <2>5. CASE UNCHANGED vars
    BY <2>5 DEF vars, MadeInv
  <2> QED
    BY <2>1, <2>2, <2>3, <2>4, <2>5 DEF Next
<1> QED
  BY MadeInit, <1>1, Invariant, PTL DEF Spec

(* A settled directory that does not pass has a file that is there, that   *)
(* the audit reads and that it finds fault with: its parts are made, its   *)
(* result is named, and all that is named is there.                        *)
LEMMA FailsOnlyByContents ==
    ASSUME IInv, MadeInv, NEW w \in Workspaces, Settled(w),
           ~Passes(disk[w], disk[w].manifest.refs)
    PROVE  \E p \in Audited(disk[w], disk[w].manifest.refs) :
              disk[w].files[p] # None /\ Alarming(p, disk[w].files[p])
<1> DEFINE d == disk[w]
           refs == d.manifest.refs
<1>1. /\ d \in Directories /\ d # None /\ Final(d.manifest)
      /\ ~Deletes(d.manifest.policy, d.manifest.status)
      /\ Truthful(d) /\ Complete(d)
  BY DEF Settled, IInv, DiskInv, GoodDirectories, MadeInv
<1>2. d.subdirs /\ "result" \in Audited(d, refs)
  BY <1>1 DEF Complete, Audited
<1>3. \A p \in Audited(d, refs) : d.files[p] # None
  BY <1>1 DEF Truthful, IsOf, Audited
<1>4. PICK p \in Audited(d, refs) : ~(d.files[p] # None /\ ~Alarming(p, d.files[p]))
  BY <1>2 DEF Passes
<1> QED
  BY <1>3, <1>4

(* An audit of the directory of a finished run raises an alarm only about  *)
(* what is in a file that it reads.                                        *)
THEOREM AlarmsAreContents == Spec => AlarmsAreAboutContents
<1> DEFINE Fault(s) ==
             \E p \in Audited(disk[Work(s).target], Work(s).seen.refs) :
                /\ disk[Work(s).target].files[p] # None
                /\ Alarming(p, disk[Work(s).target].files[p])
           Alarm(s) ==
             LET target == disk[Work(s).target] IN
             Inspect(s) /\ Settled(Work(s).target)
               /\ target.manifest = Work(s).seen
               /\ chats'[s].work.verdict = "attention_required" =>
                 \E p \in Audited(target, Work(s).seen.refs) :
                    target.files[p] # None /\ Alarming(p, target.files[p])
<1>1. IInv /\ MadeInv => \A s \in Sessions : Alarm(s)
  <2> SUFFICES ASSUME IInv, MadeInv, NEW s \in Sessions, Inspect(s),
                      Settled(Work(s).target),
                      disk[Work(s).target].manifest = Work(s).seen,
                      chats'[s].work.verdict = "attention_required"
               PROVE  Fault(s)
    OBVIOUS
  <2>1. Work(s).target \in Workspaces
    BY MadeOf DEF WorkMade, Inspect, At
  <2>2. ~Passes(disk[Work(s).target], Work(s).seen.refs)
    <3> DEFINE v == IF disk[Work(s).target] # None
                         /\ Passes(disk[Work(s).target], Work(s).seen.refs)
                    THEN "passed" ELSE "attention_required"
    <3>1. GoWith(s, "create", [Work(s) EXCEPT !.verdict = v])
      BY DEF Inspect
    <3>2. v = "passed" \/ ~Passes(disk[Work(s).target], Work(s).seen.refs)
      BY DEF Settled
    <3> HIDE DEF v
    <3>3. Work(s) \in Works
      BY AtWork DEF Inspect, At, Early
    <3>4. chats'[s].work.verdict = v
      BY <3>1, <3>3, OfChat DEF GoWith, IInv, ChatInv, Chats, Works
    <3> QED
      BY <3>2, <3>4
  <2> QED
    BY <2>1, <2>2, FailsOnlyByContents
<1>2. IInv /\ MadeInv /\ [Next]_vars => [\A s \in Sessions : Alarm(s)]_vars
  BY <1>1
<1> QED
  BY <1>2, Invariant, FinishedAreComplete, PTL DEF Spec, AlarmsAreAboutContents

-----------------------------------------------------------------------------
(* Who changes a directory.                                                *)

Inside(s) ==
    \A w \in Workspaces : w # Work(s).workspace => disk'[w] = disk[w]

LEMMA RunIsInside ==
    ASSUME IInv, NEW s \in Sessions, Run(s)
    PROVE  Inside(s)
<1>1. disk \in [Workspaces -> Directories \union {None}]
  BY DEF IInv, DiskInv, GoodDirectories
<1>2. ResolveTarget(s) \/ Inspect(s) \/ Do(s) \/ Keep(s) => Inside(s)
  BY DEF ResolveTarget, Inspect, Do, Keep, Inside
<1>3. MakeWorkspace(s) \/ MakeSubdirs(s) \/ OpenCreated(s) \/ WriteCreated(s) => Inside(s)
  BY <1>1 DEF MakeWorkspace, MakeSubdirs, OpenCreated, OpenManifest, WriteCreated,
     WriteManifest, Inside
<1>4. OpenFile(s) \/ FillFile(s) => Inside(s)
  BY <1>1 DEF OpenFile, FillFile, Inside
<1>5. OpenFinal(s) \/ WriteFinal(s) => Inside(s)
  BY <1>1 DEF OpenFinal, OpenManifest, WriteFinal, WriteManifest, Inside
<1>6. RemoveEntry(s) \/ RemoveWorkspace(s) => Inside(s)
  BY <1>1 DEF RemoveEntry, RemoveWorkspace, Inside
<1> QED
  BY <1>2, <1>3, <1>4, <1>5, <1>6 DEF Run

(* Every writer stays inside: a step of a run changes no directory but the *)
(* run's own, and no directory changes but by a run that works in it.  So  *)
(* an audit keeps what it says of itself ("does_not_modify_audited_        *)
(* workspace") whenever the directory it looks at is not also its own.     *)
WritesStayInside ==
    [][/\ \A s \in Sessions, w \in Workspaces :
            Run(s) /\ w # Work(s).workspace => disk'[w] = disk[w]
       /\ \A w \in Workspaces :
            disk'[w] # disk[w] => \E s \in Sessions : Run(s) /\ Work(s).workspace = w]_vars

THEOREM WritesStay == Spec => WritesStayInside
<1> DEFINE Stays == /\ \A s \in Sessions, w \in Workspaces :
                         Run(s) /\ w # Work(s).workspace => disk'[w] = disk[w]
                    /\ \A w \in Workspaces :
                         disk'[w] # disk[w] =>
                           \E s \in Sessions : Run(s) /\ Work(s).workspace = w
<1>1. ASSUME IInv, [Next]_vars PROVE Stays
  <2>1. \A s \in Sessions : Run(s) => Inside(s)
    BY <1>1, RunIsInside
  <2>2. \A s \in Sessions : Turn(s) \/ EndChat(s) => UNCHANGED disk
    BY DEF Turn, Refused, BeginTask, BeginAudit, ShowStatus, ResumePlan, EndChat
  <2>3. \/ \E s \in Sessions : Run(s)
        \/ UNCHANGED disk
    BY <1>1, <2>2 DEF Next, StartChat, vars
  <2> QED
    BY <2>1, <2>3 DEF Inside
<1>2. IInv /\ [Next]_vars => [Stays]_vars
  BY <1>1
<1> QED
  BY <1>2, Invariant, PTL DEF Spec, WritesStayInside

=============================================================================
