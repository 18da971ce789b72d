------------------------- MODULE BackgroundProofs -------------------------
(***************************************************************************)
(* Proofs about the plugin's background work, for any hosts, reasons and   *)
(* intervals, and any number of graphs saved during a pass, and about the  *)
(* scores and attack paths it has recomputed, for any networks, CVEs,      *)
(* misconfigurations, marks and feeds.                                     *)
(***************************************************************************)
EXTENDS BackgroundProperties, Scoring, FiniteSetTheorems, WellFoundedInduction, TLAPS

-----------------------------------------------------------------------------
(* The records the actions assign are in the sets TypeOK names.            *)
LEMMA LongestIsNatural == Longest \in Nat /\ Longest > 0
BY BackgroundConstants DEF Longest

LEMMA Ages ==
  \A g \in Graphs : Older(g) \in Graphs /\ Older(g) >= g /\ Older(g) > 0
BY BackgroundConstants DEF Graphs, Older

LEMMA KeyMembers ==
  ASSUME NEW g \in Graphs, NEW S \in SUBSET Hosts
  PROVE  /\ Key(g, S) \in Keys /\ Key(g, S).graph = g /\ Key(g, S).inactive = S
         /\ g <= MaxSaves => Key(g, S) \in Known
BY BackgroundConstants DEF Key, Keys, Known, Graphs

LEMMA KnownKeys == Known \subseteq Keys
BY BackgroundConstants DEF Key, Keys, Known, Graphs

LEMMA DocMembers ==
  ASSUME NEW g \in Graphs, NEW S \in SUBSET Hosts, NEW R \in SUBSET Reasons
  PROVE  /\ Doc(g, S, R) \in Docs
         /\ Doc(g, S, R).graph = g /\ Doc(g, S, R).inactive = S /\ Doc(g, S, R).reasons = R
BY DEF Doc, Docs

LEMMA DocParts ==
  ASSUME liveness \in Docs
  PROVE  /\ liveness.graph \in Graphs
         /\ liveness.inactive \in SUBSET Hosts /\ liveness.reasons \in SUBSET Reasons
         /\ \A g \in Graphs : /\ [liveness EXCEPT !.graph = g] \in Docs
                              /\ [liveness EXCEPT !.graph = g].graph = g
BY DEF Docs

LEMMA PassMembers ==
  ASSUME NEW step \in {"none", "started", "read", "saved"}, NEW g \in 0 .. MaxSaves
  PROVE  PassAt(step, g) \in Passes /\ PassAt(step, g).step = step /\ PassAt(step, g).graph = g
BY DEF PassAt, Passes

LEMMA NoPassIsOne == NoPass \in Passes /\ NoPass.step = "none"
BY PassMembers, BackgroundConstants DEF NoPass

LEMMA TaskMembers ==
  ASSUME NEW kind \in {"none", "recompute", "update"},
         NEW step \in {"none", "read", "write", "written"}, NEW S \in SUBSET Hosts
  PROVE  /\ TaskAt(kind, step, S) \in Tasks /\ TaskAt(kind, step, S).kind = kind
         /\ TaskAt(kind, step, S).step = step /\ TaskAt(kind, step, S).inactive = S
BY DEF TaskAt, Tasks

LEMMA NoTaskIsOne == NoTask \in Tasks /\ NoTask.kind = "none" /\ NoTask.step = "none"
BY TaskMembers DEF NoTask

LEMMA HostsLeftOut ==
  ASSUME liveness \in Docs
  PROVE  /\ InactiveHosts \in SUBSET Hosts
         /\ InactiveHosts # {} => liveness.graph = 0
BY DocParts DEF InactiveHosts

(* What a pass lets autoRescan conclude.                                   *)
LEMMA Conclusions ==
  ASSUME TypeOK, PendingInv, SettledAfterAScan, ~preempted, status # "running",
         NEW R \in SUBSET Reasons
  PROVE  /\ SettledNow(R) \subseteq scanned \cap R
         /\ FailuresSeen \in Nat
BY DEF TypeOK, PendingInv, SettledAfterAScan, SettledNow, FailuresSeen, OneMore

LEMMA Asking ==
  ASSUME TypeOK
  PROVE  Asked \in SUBSET Reasons /\ (pending # None => Asked = pending)
BY DEF TypeOK, Asked

-----------------------------------------------------------------------------
(* One lemma an action: it keeps the invariant.  All but Resume are taken  *)
(* only when no stopped scan's request waits to start its own.             *)
Ready == BackgroundInv /\ ~preempted

LEMMA TickKeeps == Ready /\ Tick => BackgroundInv'
<1> SUFFICES ASSUME Ready, Tick PROVE BackgroundInv'
    OBVIOUS
<1> USE DEF Ready, BackgroundInv, Tick, lockVars, fileVars, rescanVars, recomputeVars, history
<1>1. age' \in 0 .. Longest
      BY LongestIsNatural DEF TypeOK
<1>2. pass' \in Passes /\ (pass' = pass \/ pass'.step = "started")
      BY PassMembers, BackgroundConstants DEF TypeOK
<1>3. TypeOK'
      BY <1>1, <1>2 DEF TypeOK
<1>4. PassInv'
      BY <1>2 DEF PassInv
<1> QED
    BY <1>3, <1>4 DEF LockInv, KeysInv, TaskInv, PendingInv, SettledAfterAScan,
      RoutesLeaveOutTheirOwn

LEMMA PassReadsKeeps == Ready /\ PassReads => BackgroundInv'
<1> SUFFICES ASSUME Ready, PassReads PROVE BackgroundInv'
    OBVIOUS
<1> USE DEF Ready, BackgroundInv, PassReads, passUnchanged, lockVars, scanVars, rescanVars,
      recomputeVars, history
<1>1. pass' \in Passes /\ pass'.step = "read" /\ pass'.graph = 0
      BY PassMembers, BackgroundConstants
<1>2. TypeOK'
      BY <1>1 DEF TypeOK
<1>3. PassInv'
      BY <1>1, DocParts DEF PassInv, TypeOK, Graphs
<1> QED
    BY <1>2, <1>3 DEF LockInv, KeysInv, TaskInv, PendingInv, SettledAfterAScan,
      RoutesLeaveOutTheirOwn

(* A pass is saved whose graph is no newer than that of the one before.    *)
LEMMA PassSavesKeeps == Ready /\ PassSaves => BackgroundInv'
<1> SUFFICES ASSUME Ready, PassSaves PROVE BackgroundInv'
    OBVIOUS
<1> USE DEF Ready, BackgroundInv, PassSaves, passUnchanged, lockVars, scanVars, rescanVars,
      recomputeVars, history
<1>1. pass.graph \in 0 .. MaxSaves /\ pass.graph \in Graphs
      BY BackgroundConstants DEF TypeOK, Passes, Graphs
<1>2. pass' \in Passes /\ pass'.step = "saved" /\ pass'.graph = pass.graph
      BY <1>1, PassMembers
<1>3. liveness' \in Docs /\ liveness'.graph = pass.graph
  <2>1. PICK S \in SUBSET Hosts, R \in SUBSET Reasons :
          liveness' = Doc(pass.graph, S, Carried(pass.graph) \cup R)
        OBVIOUS
  <2>2. Carried(pass.graph) \cup R \in SUBSET Reasons
        BY DocParts DEF Carried, TypeOK
  <2> QED
      BY <1>1, <2>1, <2>2, DocMembers
<1>4. TypeOK'
      BY <1>2, <1>3 DEF TypeOK
<1>5. liveness.graph = 0 => liveness'.graph = 0
      BY <1>1, <1>3 DEF PassInv
<1>6. PassInv'
      BY <1>2, <1>3 DEF PassInv
<1>7. TaskInv' /\ RoutesLeaveOutTheirOwn'
      BY <1>5 DEF TaskInv, RoutesLeaveOutTheirOwn
<1> QED
    BY <1>4, <1>6, <1>7 DEF LockInv, KeysInv, PendingInv, SettledAfterAScan

LEMMA PassFailsKeeps == Ready /\ PassFails => BackgroundInv'
<1> SUFFICES ASSUME Ready, PassFails PROVE BackgroundInv'
    OBVIOUS
<1> USE DEF Ready, BackgroundInv, PassFails, passUnchanged, lockVars, scanVars, rescanVars,
      recomputeVars, history
<1>1. TypeOK'
      BY NoPassIsOne DEF TypeOK
<1>2. PassInv'
      BY NoPassIsOne DEF PassInv
<1> QED
    BY <1>1, <1>2 DEF LockInv, KeysInv, TaskInv, PendingInv, SettledAfterAScan,
      RoutesLeaveOutTheirOwn

-----------------------------------------------------------------------------
(* The hooks of a pass.  What autoRescan does to its own variables:        *)
LEMMA HookSettles ==
  ASSUME Ready, RescanSeen(liveness.reasons), StillListed(liveness.reasons)
  PROVE  /\ settled' \subseteq Reasons /\ failures' \in Nat
         /\ scanned' \subseteq Reasons /\ served' \subseteq scanned'
         /\ SettledAfterAScan'
         /\ status = "running" => UNCHANGED scanned
<1> USE DEF Ready, BackgroundInv, RescanSeen, StillListed, SettledAfterAScan
<1>1. liveness.reasons \in SUBSET Reasons
      BY DocParts DEF TypeOK
<1>2. CASE status = "running"
      BY <1>2 DEF TypeOK
<1>3. CASE status # "running"
      BY <1>1, <1>3, Conclusions DEF TypeOK
<1> QED
    BY <1>2, <1>3

LEMMA OnPassRescansKeeps == Ready /\ OnPassRescans => BackgroundInv'
<1> SUFFICES ASSUME Ready, OnPassRescans PROVE BackgroundInv'
    OBVIOUS
<1> USE DEF Ready, BackgroundInv, OnPassRescans, recomputeVars, lock!StartScan, lock!Free
<1>1. liveness.reasons \in SUBSET Reasons /\ age' = 0 /\ age' \in 0 .. Longest
      BY DocParts, LongestIsNatural DEF TypeOK
<1>2. TypeOK'
      BY <1>1, HookSettles, NoPassIsOne DEF TypeOK
<1>3. LockInv' /\ PendingInv' /\ PassInv'
      BY NoPassIsOne DEF LockInv, PendingInv, PassInv
<1> QED
    BY <1>2, <1>3, HookSettles DEF KeysInv, TaskInv, RoutesLeaveOutTheirOwn

(* And when it starts no scan, whether or not a recompute begins.          *)
LEMMA NotRescannedKeeps ==
  ASSUME Ready, NotRescanned, UNCHANGED <<routes, status, trigger>>
  PROVE  /\ saved' \in BOOLEAN /\ preempted' \in BOOLEAN /\ age' \in 0 .. Longest
         /\ routes' \in Keys /\ liveness' \in Docs /\ pass' \in Passes
         /\ pending' \in (SUBSET Reasons) \cup {None} /\ settled' \subseteq Reasons
         /\ failures' \in Nat /\ done' \in Keys \cup {None}
         /\ scanned' \subseteq Reasons /\ served' \subseteq scanned'
         /\ PassInv' /\ PendingInv' /\ SettledAfterAScan' /\ RoutesLeaveOutTheirOwn'
<1> USE DEF Ready, BackgroundInv, NotRescanned, scanVars
<1>1. pending' \in (SUBSET Reasons) \cup {None} /\ PendingInv'
      BY HookSettles DEF TypeOK, PendingInv
<1>2. PassInv'
      BY NoPassIsOne DEF PassInv
<1> QED
    BY <1>1, <1>2, HookSettles, NoPassIsOne DEF TypeOK, RoutesLeaveOutTheirOwn

LEMMA OnPassRecomputesKeeps == Ready /\ OnPassRecomputes => BackgroundInv'
<1> SUFFICES ASSUME Ready, OnPassRecomputes PROVE BackgroundInv'
    OBVIOUS
<1> USE DEF Ready, BackgroundInv, OnPassRecomputes, lock!BeginTask, lock!Free
<1>1. UNCHANGED <<done, liveness>>
      BY DEF NotRescanned
<1>2. KeyOf(liveness) \in Known
  <2>1. liveness.graph \in Graphs /\ liveness.graph <= MaxSaves
        BY DocParts DEF TypeOK, PassInv, NotRescanned, Passes
  <2> QED
      BY <2>1, DocParts, KeyMembers DEF KeyOf, TypeOK
<1>3. /\ task' \in Tasks /\ task'.kind = "recompute" /\ task'.step = "read"
      BY TaskMembers
<1>4. TypeOK'
      BY <1>2, <1>3, KnownKeys, NotRescannedKeeps DEF TypeOK
<1>5. LockInv' /\ KeysInv' /\ TaskInv'
      BY <1>1, <1>2, <1>3 DEF LockInv, KeysInv, TaskInv
<1> QED
    BY <1>4, <1>5, NotRescannedKeeps

LEMMA OnPassDoesNothingKeeps == Ready /\ OnPassDoesNothing => BackgroundInv'
<1> SUFFICES ASSUME Ready, OnPassDoesNothing PROVE BackgroundInv'
    OBVIOUS
<1> USE DEF Ready, BackgroundInv, OnPassDoesNothing, lockVars
<1>1. UNCHANGED <<done, liveness>>
      BY DEF NotRescanned
<1>2. TypeOK'
      BY NotRescannedKeeps DEF TypeOK
<1>3. LockInv' /\ KeysInv' /\ TaskInv'
      BY <1>1 DEF LockInv, KeysInv, TaskInv
<1> QED
    BY <1>2, <1>3, NotRescannedKeeps

-----------------------------------------------------------------------------
(* Scans.                                                                  *)
LEMMA StartedKeeps ==
  ASSUME BackgroundInv, NEW who \in {"manual", "automatic", "scheduled"}, Started(who),
         preempted' \in BOOLEAN
  PROVE  BackgroundInv'
<1> USE DEF BackgroundInv, Started, lock!StartScan, lock!Free, rescanVars, recomputeVars, history
<1>1. TypeOK'
      BY LongestIsNatural DEF TypeOK
<1>2. LockInv' /\ PendingInv'
      BY DEF LockInv, PendingInv
<1> QED
    BY <1>1, <1>2 DEF KeysInv, PassInv, TaskInv, SettledAfterAScan, RoutesLeaveOutTheirOwn

LEMMA OtherScanKeeps == Ready /\ OtherScan => BackgroundInv'
BY StartedKeeps, BackgroundConstants DEF Ready, BackgroundInv, OtherScan, TypeOK

LEMMA ResumeKeeps == BackgroundInv /\ Resume => BackgroundInv'
BY StartedKeeps DEF Resume

(* A new graph: everything named by a graph is named by an older one.      *)
LEMMA ScanSavesKeeps == Ready /\ ScanSaves => BackgroundInv'
<1> SUFFICES ASSUME Ready, ScanSaves PROVE BackgroundInv'
    OBVIOUS
<1> USE DEF Ready, BackgroundInv, ScanSaves, lockVars, rescanVars, history
<1>1. task.step = "none"
      BY DEF LockInv
<1>2. liveness' \in Docs /\ liveness'.graph = Older(liveness.graph)
      BY DocParts, Ages DEF TypeOK
<1>3. pass' \in Passes /\ PassInv'
  <2>1. CASE pass.step \in {"none", "started"}
        BY <2>1 DEF TypeOK, PassInv
  <2>2. CASE pass.step \notin {"none", "started"}
    <3>1. /\ pass.step \in {"read", "saved"} /\ pass.graph \in 0 .. MaxSaves
          /\ pass.graph < MaxSaves /\ liveness.graph \in Graphs
          BY <2>2, DocParts DEF TypeOK, Passes
    <3>2. /\ Older(pass.graph) = pass.graph + 1 /\ Older(pass.graph) \in 0 .. MaxSaves
          /\ pass.graph <= liveness.graph => Older(pass.graph) <= Older(liveness.graph)
          BY <3>1, BackgroundConstants DEF Older, Graphs
    <3>3. /\ pass' \in Passes /\ pass'.step = pass.step /\ pass'.graph = Older(pass.graph)
          BY <2>2, <3>1, <3>2, PassMembers
    <3> QED
        BY <1>2, <3>2, <3>3 DEF PassInv
  <2> QED
      BY <2>1, <2>2
<1>4. done' \in Known \cup {None}
  <2>1. CASE done = None \/ done.graph = MaxSaves
        BY <2>1 DEF StillKnown
  <2>2. CASE ~(done = None \/ done.graph = MaxSaves)
    <3>1. done \in Known
          BY <2>2 DEF KeysInv
    <3>2. /\ done.graph + 1 \in Graphs /\ done.graph + 1 <= MaxSaves
          /\ done.inactive \in SUBSET Hosts
          BY <2>2, <3>1, BackgroundConstants DEF Known, Graphs
    <3>3. Key(done.graph + 1, done.inactive) \in Known
          BY <3>2, KeyMembers
    <3> QED
        BY <2>2, <3>3 DEF StillKnown
  <2> QED
      BY <2>1, <2>2
<1>5. routes' \in Keys /\ (routes'.graph = 0 => routes'.inactive = {})
  <2>1. {} \in SUBSET Hosts /\ 0 \in Graphs /\ 1 \in Graphs
        BY BackgroundConstants DEF Graphs
  <2>2. \A g \in {0, 1} : Key(g, {}) \in Keys /\ Key(g, {}).inactive = {}
        BY <2>1, KeyMembers
  <2> QED
      BY <2>2
<1>6. TypeOK'
      BY <1>2, <1>3, <1>4, <1>5, KnownKeys DEF TypeOK, recomputeVars
<1>7. KeysInv'
      BY <1>4 DEF KeysInv
<1>8. LockInv' /\ TaskInv' /\ PendingInv' /\ SettledAfterAScan' /\ RoutesLeaveOutTheirOwn'
      BY <1>1, <1>5 DEF LockInv, TaskInv, PendingInv, SettledAfterAScan, RoutesLeaveOutTheirOwn
<1> QED
    BY <1>3, <1>6, <1>7, <1>8

LEMMA ScanCompletesKeeps == Ready /\ ScanCompletes => BackgroundInv'
<1> SUFFICES ASSUME Ready, ScanCompletes PROVE BackgroundInv'
    OBVIOUS
<1> USE DEF Ready, BackgroundInv, ScanCompletes, scanEndUnchanged, rescanVars, recomputeVars,
      lock!EndScan
<1>1. TypeOK'
      BY Asking DEF TypeOK
<1>2. LockInv' /\ PendingInv' /\ SettledAfterAScan'
      BY Asking DEF LockInv, PendingInv, SettledAfterAScan
<1> QED
    BY <1>1, <1>2 DEF KeysInv, PassInv, TaskInv, RoutesLeaveOutTheirOwn

LEMMA ScanFailsKeeps == Ready /\ ScanFails => BackgroundInv'
<1> SUFFICES ASSUME Ready, ScanFails PROVE BackgroundInv'
    OBVIOUS
<1> USE DEF Ready, BackgroundInv, ScanFails, scanEndUnchanged, rescanVars, recomputeVars,
      history, lock!EndScan
<1>1. TypeOK'
      BY DEF TypeOK
<1> QED
    BY <1>1 DEF LockInv, KeysInv, PassInv, TaskInv, PendingInv, SettledAfterAScan,
      RoutesLeaveOutTheirOwn

LEMMA ScanIsStoppedKeeps == Ready /\ ScanIsStopped => BackgroundInv'
<1> SUFFICES ASSUME Ready, ScanIsStopped PROVE BackgroundInv'
    OBVIOUS
<1> USE DEF Ready, BackgroundInv, ScanIsStopped, scanEndUnchanged, rescanVars, recomputeVars,
      history, lock!EndScan
<1>1. TypeOK'
      BY DEF TypeOK
<1> QED
    BY <1>1 DEF LockInv, KeysInv, PassInv, TaskInv, PendingInv, SettledAfterAScan,
      RoutesLeaveOutTheirOwn

-----------------------------------------------------------------------------
(* Tasks.                                                                  *)
LEMMA UpdateBeginsKeeps == Ready /\ UpdateBegins => BackgroundInv'
<1> SUFFICES ASSUME Ready, UpdateBegins PROVE BackgroundInv'
    OBVIOUS
<1> USE DEF Ready, BackgroundInv, UpdateBegins, scanVars, rescanVars, recomputeVars, history,
      lock!BeginTask, lock!Free
<1>1. task' \in Tasks /\ task'.kind = "update" /\ task'.step = "read"
      BY TaskMembers
<1>2. TypeOK'
      BY <1>1 DEF TypeOK
<1> QED
    BY <1>1, <1>2 DEF LockInv, KeysInv, PassInv, TaskInv, PendingInv, SettledAfterAScan,
      RoutesLeaveOutTheirOwn

LEMMA TaskReadsKeeps == Ready /\ TaskReads => BackgroundInv'
<1> SUFFICES ASSUME Ready, TaskReads PROVE BackgroundInv'
    OBVIOUS
<1> USE DEF Ready, BackgroundInv, TaskReads, taskUnchanged, lockVars, scanVars, rescanVars,
      recomputeVars, history
<1>1. /\ InactiveHosts \in SUBSET Hosts /\ task.kind \in {"none", "recompute", "update"}
      BY HostsLeftOut DEF TypeOK, Tasks
<1>2. /\ task' \in Tasks /\ task'.kind = task.kind /\ task'.step = "write"
      /\ task'.inactive = InactiveHosts
      BY <1>1, TaskMembers
<1>3. TypeOK'
      BY <1>2 DEF TypeOK
<1>4. TaskInv'
      BY <1>2, HostsLeftOut DEF TaskInv, TypeOK
<1> QED
    BY <1>2, <1>3, <1>4 DEF LockInv, KeysInv, PassInv, PendingInv, SettledAfterAScan,
      RoutesLeaveOutTheirOwn

LEMMA TaskWritesKeeps == Ready /\ TaskWrites => BackgroundInv'
<1> SUFFICES ASSUME Ready, TaskWrites PROVE BackgroundInv'
    OBVIOUS
<1> USE DEF Ready, BackgroundInv, TaskWrites, taskUnchanged, lockVars, scanVars, rescanVars,
      recomputeVars, history
<1>1. /\ task.inactive \in SUBSET Hosts /\ task.kind \in {"none", "recompute", "update"}
      BY DEF TypeOK, Tasks
<1>2. /\ task' \in Tasks /\ task'.kind = task.kind /\ task'.step = "written"
      BY <1>1, TaskMembers
<1>3. /\ routes' \in Keys /\ routes'.inactive = task.inactive
      BY <1>1, KeyMembers, BackgroundConstants DEF Graphs
<1>4. TypeOK'
      BY <1>2, <1>3 DEF TypeOK
<1>5. RoutesLeaveOutTheirOwn'
      BY <1>3 DEF TaskInv, RoutesLeaveOutTheirOwn
<1> QED
    BY <1>2, <1>4, <1>5 DEF LockInv, KeysInv, PassInv, TaskInv, PendingInv, SettledAfterAScan

LEMMA TaskEndsKeeps == Ready /\ TaskEnds => BackgroundInv'
<1> SUFFICES ASSUME Ready, TaskEnds PROVE BackgroundInv'
    OBVIOUS
<1> USE DEF Ready, BackgroundInv, TaskEnds, taskUnchanged, scanVars, rescanVars, history,
      lock!EndTask, RunningAfter
<1>1. done' \in Known \cup {None}
      BY DEF DoneNow, KeysInv
<1>2. TypeOK'
      BY <1>1, KnownKeys, NoTaskIsOne DEF TypeOK
<1> QED
    BY <1>1, <1>2, NoTaskIsOne DEF LockInv, KeysInv, PassInv, TaskInv, PendingInv,
      SettledAfterAScan, RoutesLeaveOutTheirOwn

LEMMA TaskFailsKeeps == Ready /\ TaskFails => BackgroundInv'
<1> SUFFICES ASSUME Ready, TaskFails PROVE BackgroundInv'
    OBVIOUS
<1> USE DEF Ready, BackgroundInv, TaskFails, taskUnchanged, scanVars, rescanVars, history,
      lock!EndTask, RunningAfter
<1>1. TypeOK'
      BY NoTaskIsOne DEF TypeOK
<1> QED
    BY <1>1, NoTaskIsOne DEF LockInv, KeysInv, PassInv, TaskInv, PendingInv,
      SettledAfterAScan, RoutesLeaveOutTheirOwn

-----------------------------------------------------------------------------
LEMMA InitHolds == Init => BackgroundInv
<1> SUFFICES ASSUME Init PROVE BackgroundInv
    OBVIOUS
<1> USE DEF Init, lock!Init
<1>1. /\ Key(0, {}) \in Keys /\ Key(0, {}).inactive = {}
      /\ NoDoc \in Docs
      BY KeyMembers, DocMembers, BackgroundConstants DEF NoDoc, Graphs
<1>2. TypeOK
  <2>1. failures \in Nat /\ age \in 0 .. Longest
        BY LongestIsNatural
  <2>2. saved \in BOOLEAN /\ preempted \in BOOLEAN
        BY Zenon
  <2>3. pass \in Passes /\ task \in Tasks
        BY NoPassIsOne, NoTaskIsOne
  <2>4. routes \in Keys /\ liveness \in Docs
        BY <1>1
  <2> QED
      BY <2>1, <2>2, <2>3, <2>4 DEF TypeOK
<1> QED
    BY <1>1, <1>2, NoPassIsOne, NoTaskIsOne DEF BackgroundInv, LockInv, KeysInv, PassInv,
      TaskInv, PendingInv, SettledAfterAScan, RoutesLeaveOutTheirOwn

LEMMA StutterKeeps == BackgroundInv /\ UNCHANGED vars => BackgroundInv'
BY DEF BackgroundInv, vars, lockVars, scanVars, fileVars, rescanVars, recomputeVars, history,
  TypeOK, LockInv, KeysInv, PassInv, TaskInv, PendingInv, SettledAfterAScan, RoutesLeaveOutTheirOwn

LEMMA NextKeeps == BackgroundInv /\ Next => BackgroundInv'
<1> SUFFICES ASSUME BackgroundInv, Next PROVE BackgroundInv'
    OBVIOUS
<1>1. CASE Resume
      BY <1>1, ResumeKeeps
<1>2. CASE ~preempted /\ Tick
      BY <1>2, TickKeeps DEF Ready
<1>3. CASE ~preempted /\ PassNext
      BY <1>3, PassReadsKeeps, PassSavesKeeps, PassFailsKeeps DEF Ready, PassNext
<1>4. CASE ~preempted /\ OnPass
      BY <1>4, OnPassRescansKeeps, OnPassRecomputesKeeps, OnPassDoesNothingKeeps DEF Ready, OnPass
<1>5. CASE ~preempted /\ (OtherScan \/ ScanNext)
      BY <1>5, OtherScanKeeps, ScanSavesKeeps, ScanCompletesKeeps, ScanFailsKeeps,
        ScanIsStoppedKeeps DEF Ready, ScanNext
<1>6. CASE ~preempted /\ (UpdateBegins \/ TaskNext)
      BY <1>6, UpdateBeginsKeeps, TaskReadsKeeps, TaskWritesKeeps, TaskEndsKeeps, TaskFailsKeeps
      DEF Ready, TaskNext
<1> QED
    BY <1>1, <1>2, <1>3, <1>4, <1>5, <1>6 DEF Next

(* The inductive invariant of the timer, the hooks and the lock.           *)
THEOREM BackgroundAlways == Spec => []BackgroundInv
<1>1. BackgroundInv /\ [Next]_vars => BackgroundInv'
      BY NextKeeps, StutterKeeps
<1> QED
    BY <1>1, InitHolds, PTL DEF Spec

(* Types, for any number of graphs saved during a pass (Background.tla).   *)
THEOREM TypeCorrect == Spec => []TypeOK
<1>1. BackgroundInv => TypeOK
      BY DEF BackgroundInv
<1> QED
    BY <1>1, BackgroundAlways, PTL

(* autoRescan never gives a reason up without a scan since it asked: not   *)
(* after a scan that failed or was stopped for another                     *)
(* (autoRescan.ts:47-61).                                                  *)
THEOREM NothingSettledUnscanned == Spec => []SettledAfterAScan
<1>1. BackgroundInv => SettledAfterAScan
      BY DEF BackgroundInv
<1> QED
    BY <1>1, BackgroundAlways, PTL

(* An automatic scan asks for all that is listed, and until a scan fails   *)
(* nothing it asked for starts another one while it stays listed, whatever *)
(* scans by hand or on schedule come between (autoRescan.ts:6-10, 47-61).  *)
THEOREM RescansDoNotLoop == Spec => AsksOnce
<1> DEFINE Once ==
             /\ OnPassRescans => liveness'.reasons \subseteq Cleared'
             /\ liveness.reasons \subseteq Cleared /\ status # "failed" =>
                  /\ ~OnPassRescans
                  /\ liveness'.reasons = liveness.reasons => liveness.reasons \subseteq Cleared'
<1>1. ASSUME TypeOK, OnPassRescans PROVE liveness'.reasons \subseteq Cleared'
  <2>1. pending' = liveness.reasons /\ UNCHANGED liveness
    BY <1>1 DEF OnPassRescans
  <2>2. pending' # None
    BY <1>1, <2>1, BackgroundConstants, DocParts DEF TypeOK
  <2> QED BY <2>1, <2>2 DEF Cleared, Asked
<1>2. ASSUME TypeOK, liveness.reasons \subseteq Cleared, status \notin {"failed", "running"}
      PROVE  SettledNow(liveness.reasons) = liveness.reasons
  BY <1>2 DEF SettledNow, Cleared, Asked
<1>3. ASSUME TypeOK, liveness.reasons \subseteq Cleared, status # "failed" PROVE ~OnPassRescans
  BY <1>2, <1>3 DEF OnPassRescans, Asks, Fresh
<1>4. ASSUME TypeOK, Next, liveness.reasons \subseteq Cleared, status # "failed",
             liveness'.reasons = liveness.reasons
      PROVE  liveness.reasons \subseteq Cleared'
  <2>1. CASE UNCHANGED <<pending, settled>>
    BY <1>4, <2>1 DEF Cleared, Asked
  <2>2. CASE NotRescanned
    <3>1. CASE status = "running"
      BY <2>1, <2>2, <3>1 DEF NotRescanned, RescanSeen
    <3>2. CASE status # "running"
      <4>1. settled' = liveness.reasons
        BY <1>2, <1>4, <2>2, <3>2 DEF NotRescanned, RescanSeen
      <4> QED BY <4>1 DEF Cleared
    <3> QED BY <3>1, <3>2
  <2>3. CASE OnPassRescans
    BY <1>3, <1>4, <2>3
  <2>4. ASSUME ~NotRescanned, ~OnPassRescans PROVE UNCHANGED <<pending, settled>>
    BY <1>4, <2>4
       DEF Next, Resume, Started, Tick, PassNext, PassReads, PassSaves, PassFails, passUnchanged,
           OnPass, OnPassRecomputes, OnPassDoesNothing, OtherScan, ScanNext, ScanSaves, ScanCompletes,
           ScanFails, ScanIsStopped, scanEndUnchanged, UpdateBegins, TaskNext, TaskReads, TaskWrites,
           TaskEnds, TaskFails, taskUnchanged, rescanVars
  <2> QED BY <2>1, <2>2, <2>3, <2>4
<1>5. TypeOK /\ [Next]_vars => [Once]_vars
  BY <1>1, <1>3, <1>4
<1> QED
  <2>1. Spec => [][Once]_vars
    BY <1>5, TypeCorrect, PTL DEF Spec
  <2> QED BY <2>1 DEF AsksOnce

(* No pass over an older graph ever has a host left out of the routes,     *)
(* however passes, scans, recomputes and updates overlap                   *)
(* (attackpaths.py:536-545).                                               *)
THEOREM RoutesAreOfTheirGraph == Spec => []RoutesLeaveOutTheirOwn
<1>1. BackgroundInv => RoutesLeaveOutTheirOwn
      BY DEF BackgroundInv
<1> QED
    BY <1>1, BackgroundAlways, PTL

-----------------------------------------------------------------------------
\* Numbers.

LEMMA LeastNatural ==
  ASSUME NEW S \in SUBSET Nat, S # {}
  PROVE  \E m \in S : \A n \in S : m <= n
<1> DEFINE R == OpToRel(<, Nat)
<1>1. IsWellFoundedOn(R, Nat)
  BY NatLessThanWellFounded
<1>2. \A m, n \in Nat : n < m => <<n, m>> \in R
  BY DEF OpToRel
<1> HIDE DEF R
<1>3. \E m \in S : \A n \in S : <<n, m>> \notin R
  BY <1>1, WFMin
<1>4. PICK m \in S : \A n \in S : <<n, m>> \notin R
  BY <1>3
<1>5. ASSUME NEW n \in S PROVE m <= n
  <2>1. m \in Nat /\ n \in Nat
    OBVIOUS
  <2>2. ~(n < m)
    BY <1>2, <1>4, <2>1
  <2> QED
    BY <2>1, <2>2
<1> QED
  BY <1>5

LEMMA ByNumbers ==
  ASSUME NEW S, 0 \in S, \A n \in Nat : n \in S => n + 1 \in S
  PROVE  Nat \subseteq S
<1>1. SUFFICES ASSUME Nat \ S # {} PROVE FALSE
  OBVIOUS
<1>2. PICK m \in Nat \ S : \A n \in Nat \ S : m <= n
  BY <1>1, LeastNatural
<1>3. m # 0 /\ m - 1 \in Nat
  BY <1>2
<1>4. m - 1 \in S
  BY <1>2, <1>3
<1>5. (m - 1) + 1 \in S
  BY <1>3, <1>4
<1> QED
  BY <1>2, <1>5

-----------------------------------------------------------------------------
\* Ranking: what an order makes of a finite set.

IsOrder(S, above) ==
  /\ \A c \in S : <<c, c>> \notin above
  /\ \A c, d \in S : c # d => <<c, d>> \in above \/ <<d, c>> \in above
  /\ \A b, c, d \in S : <<b, c>> \in above /\ <<c, d>> \in above => <<b, d>> \in above

LEMMA PlacesFollow ==
  ASSUME NEW S, NEW above, IsFiniteSet(S), IsOrder(S, above), NEW c \in S, NEW d \in S, <<c, d>> \in above
  PROVE  PlaceIn(S, above, c) < PlaceIn(S, above, d)
<1> DEFINE A == {x \in S : <<x, c>> \in above}
           B == {x \in S : <<x, d>> \in above}
<1>1. A \in SUBSET B /\ c \in B /\ c \notin A BY DEF IsOrder
<1>2. IsFiniteSet(B) BY FS_Subset
<1>3. IsFiniteSet(A) /\ Cardinality(A) <= Cardinality(B) /\ Cardinality(A) # Cardinality(B)
  <2> HIDE DEF A, B
  <2> QED BY <1>1, <1>2, FS_Subset
<1>4. Cardinality(A) \in Nat /\ Cardinality(B) \in Nat
  <2> HIDE DEF A, B
  <2> QED BY <1>2, <1>3, FS_CardinalityType
<1>5. PlaceIn(S, above, c) = Cardinality(A) /\ PlaceIn(S, above, d) = Cardinality(B) BY DEF PlaceIn
<1> HIDE DEF A, B
<1> QED BY <1>3, <1>4, <1>5

LEMMA PlacesAreBelow ==
  ASSUME NEW S, NEW above, IsFiniteSet(S), IsOrder(S, above), NEW c \in S
  PROVE  /\ PlaceIn(S, above, c) \in 0..(Cardinality(S) - 1)
         /\ Cardinality(S) \in Nat
<1> DEFINE A == {x \in S : <<x, c>> \in above}
<1>1. A \in SUBSET S /\ A # S BY DEF IsOrder
<1>2. PlaceIn(S, above, c) = Cardinality(A) BY DEF PlaceIn
<1> HIDE DEF A
<1>3. IsFiniteSet(A) /\ Cardinality(A) <= Cardinality(S) /\ Cardinality(A) # Cardinality(S) BY <1>1, FS_Subset
<1>4. Cardinality(A) \in Nat /\ Cardinality(S) \in Nat BY <1>3, FS_CardinalityType
<1> QED BY <1>2, <1>3, <1>4

LEMMA EveryPlaceIsTaken ==
  ASSUME NEW S, NEW above, IsFiniteSet(S), IsOrder(S, above), NEW i \in 1..Cardinality(S)
  PROVE  \E c \in S : PlaceIn(S, above, c) = i - 1
<1>1. CASE S = {}
  BY <1>1, FS_EmptySet
<1>2. CASE S # {}
  <2> DEFINE n == Cardinality(S)
             f == [c \in S |-> PlaceIn(S, above, c)]
             T == 0..(n - 1)
  <2>1. n \in Nat BY FS_CardinalityType
  <2>2. n # 0 BY <1>2, FS_EmptySet
  <2>3. IsFiniteSet(T) /\ Cardinality(T) = n
    <3>1. n - 1 \in Int /\ 0 \in Int BY <2>1
    <3> HIDE DEF n
    <3> QED BY <2>1, <2>2, <3>1, FS_Interval
  <2>4. f \in [S -> T]
    <3>1. \A c \in S : PlaceIn(S, above, c) \in T BY PlacesAreBelow
    <3> HIDE DEF T
    <3> QED BY <3>1
  <2>5. \A c, d \in S : f[c] = f[d] => c = d
    <3> SUFFICES ASSUME NEW c \in S, NEW d \in S, f[c] = f[d], c # d PROVE FALSE
      OBVIOUS
    <3>1. PlaceIn(S, above, c) = PlaceIn(S, above, d) OBVIOUS
    <3>2. PlaceIn(S, above, c) \in Int /\ PlaceIn(S, above, d) \in Int BY PlacesAreBelow
    <3>3. CASE <<c, d>> \in above BY <3>1, <3>2, <3>3, PlacesFollow
    <3>4. CASE <<d, c>> \in above BY <3>1, <3>2, <3>4, PlacesFollow
    <3> QED BY <3>3, <3>4 DEF IsOrder
  <2>6. f \in Injection(S, T)
    <3> HIDE DEF f, T
    <3> QED BY <2>4, <2>5 DEF Injection, IsInjective
  <2>7. f \in Surjection(S, T)
    <3> HIDE DEF f, T
    <3> QED BY <2>3, <2>6, FS_Injection
  <2>8. i - 1 \in T BY <2>1
  <2>9. \E c \in S : f[c] = i - 1
    <3> HIDE DEF f, T
    <3> QED BY <2>7, <2>8 DEF Surjection
  <2> QED BY <2>9
<1> QED BY <1>1, <1>2

\* In order, the elements of S come once each, each at its place.
LEMMA OrderedKeepsAll ==
  ASSUME NEW S, NEW above, IsFiniteSet(S), IsOrder(S, above), NEW s, s = Ordered(S, above)
  PROVE  /\ s \in Seq(S) /\ Len(s) = Cardinality(S) /\ Len(s) \in Nat
         /\ \A i \in 1..Len(s) : s[i] \in S /\ PlaceIn(S, above, s[i]) = i - 1
         /\ \A c \in S : PlaceIn(S, above, c) + 1 \in 1..Len(s) /\ s[PlaceIn(S, above, c) + 1] = c
<1> DEFINE n == Cardinality(S)
<1>1. n \in Nat BY FS_CardinalityType
<1>2. \A i \in 1..n : s[i] \in S /\ PlaceIn(S, above, s[i]) = i - 1
  <2> SUFFICES ASSUME NEW i \in 1..n PROVE s[i] \in S /\ PlaceIn(S, above, s[i]) = i - 1
    OBVIOUS
  <2>1. \E c \in S : PlaceIn(S, above, c) = i - 1 BY EveryPlaceIsTaken
  <2>2. s[i] = CHOOSE c \in S : PlaceIn(S, above, c) = i - 1 BY DEF Ordered
  <2> QED BY <2>1, <2>2
<1>3. s = [i \in 1..n |-> s[i]] BY DEF Ordered
<1>4. s \in Seq(S) /\ Len(s) = n
  <2> HIDE DEF n
  <2>1. s \in [1..n -> S] BY <1>2, <1>3
  <2> QED BY <1>1, <2>1
<1>5. \A c \in S : PlaceIn(S, above, c) + 1 \in 1..n /\ s[PlaceIn(S, above, c) + 1] = c
  <2> SUFFICES ASSUME NEW c \in S PROVE PlaceIn(S, above, c) + 1 \in 1..n /\ s[PlaceIn(S, above, c) + 1] = c
    OBVIOUS
  <2> DEFINE i == PlaceIn(S, above, c) + 1
             d == s[i]
  <2>1. PlaceIn(S, above, c) \in 0..(n - 1) BY PlacesAreBelow
  <2>2. i \in 1..n BY <1>1, <2>1
  <2>3. d \in S /\ PlaceIn(S, above, d) = PlaceIn(S, above, c) BY <1>2, <2>1, <2>2
  <2>4. d = c
    <3> HIDE DEF d
    <3>1. CASE <<c, d>> \in above BY <2>1, <2>3, <3>1, PlacesFollow
    <3>2. CASE <<d, c>> \in above BY <2>1, <2>3, <3>2, PlacesFollow
    <3> QED BY <2>3, <3>1, <3>2 DEF IsOrder
  <2> QED BY <2>2, <2>4
<1> QED BY <1>1, <1>2, <1>4, <1>5

-----------------------------------------------------------------------------
\* The two orders scoring uses.

TierNames == {"P0", "P1", "P2", "P3"}
Rated(r, c) == r[c].score \in Int /\ r[c].tier \in TierNames

LEMMA RankIs ==
  /\ Rank("P0") = 1 /\ Rank("P1") = 2 /\ Rank("P2") = 3 /\ Rank("P3") = 4
  /\ \A tier \in TierNames : Rank(tier) \in 1..4 /\ Tiers[Rank(tier)] = tier
<1> DEFINE D == DOMAIN Tiers
<1>1. D = 1..4 BY DEF Tiers
<1>2. Tiers[1] = "P0" /\ Tiers[2] = "P1" /\ Tiers[3] = "P2" /\ Tiers[4] = "P3" BY DEF Tiers
<1>3. \A i \in 1..4 : i = 1 \/ i = 2 \/ i = 3 \/ i = 4 OBVIOUS
<1>4. \A tier : (\E i \in 1..4 : Tiers[i] = tier) => Rank(tier) \in 1..4 /\ Tiers[Rank(tier)] = tier
  BY <1>1 DEF Rank
<1>5. \A tier \in TierNames : Rank(tier) \in 1..4 /\ Tiers[Rank(tier)] = tier
  BY <1>2, <1>4 DEF TierNames
<1> QED BY <1>2, <1>3, <1>5 DEF TierNames

AboveIn(S, r) == {p \in S \X S : Higher(r, p[1], p[2])}
WorseIn(S) == {p \in S \X S : Worse(p[1], p[2])}

LEMMA HigherIsOrder ==
  ASSUME NEW S, NEW r, S \subseteq Nat, \A c \in S : Rated(r, c)
  PROVE  IsOrder(S, AboveIn(S, r))
<1> DEFINE k(c) == Rank(r[c].tier)
<1>1. \A c \in S : k(c) \in Int /\ r[c].score \in Int /\ c \in Int BY RankIs DEF Rated
<1>2. \A c, d \in S : <<c, d>> \in AboveIn(S, r) <=>
        \/ k(c) < k(d)
        \/ k(c) = k(d) /\ r[c].score > r[d].score
        \/ k(c) = k(d) /\ r[c].score = r[d].score /\ c < d
  BY DEF AboveIn, Higher
<1> HIDE DEF k
<1> QED BY <1>1, <1>2 DEF IsOrder

LEMMA WorseIsOrder ==
  ASSUME NEW S, S \subseteq Nat, \A c \in S : Flaws[c].cvss \in Int
  PROVE  IsOrder(S, WorseIn(S))
<1>1. \A c, d \in S : <<c, d>> \in WorseIn(S) <=>
        Flaws[c].cvss > Flaws[d].cvss \/ (Flaws[c].cvss = Flaws[d].cvss /\ c < d)
  BY DEF WorseIn, Worse
<1> QED BY <1>1 DEF IsOrder

\* The first few: as many as there are, or Shown.
LEMMA CutoffTakesTheFirst ==
  ASSUME ScoringAssumption, NEW S, NEW s \in Seq(S)
  PROVE  /\ Cutoff(s) \in Seq(S)
         /\ Len(Cutoff(s)) = IF Len(s) <= Shown THEN Len(s) ELSE Shown
         /\ \A i \in 1..Len(Cutoff(s)) : i \in 1..Len(s) /\ Cutoff(s)[i] = s[i]
<1> DEFINE m == Min({Len(s), Shown})
<1>1. Len(s) \in Nat /\ Shown \in Nat BY DEF ScoringAssumption
<1>2. m = IF Len(s) <= Shown THEN Len(s) ELSE Shown
  <2> DEFINE k == IF Len(s) <= Shown THEN Len(s) ELSE Shown
  <2>1. k \in {Len(s), Shown} /\ \A y \in {Len(s), Shown} : k <= y BY <1>1
  <2>2. \A x \in {Len(s), Shown} : (\A y \in {Len(s), Shown} : x <= y) => x = k BY <1>1
  <2> QED BY <2>1, <2>2 DEF Min
<1>3. m \in 0..Len(s) BY <1>1, <1>2
<1>4. Cutoff(s) = SubSeq(s, 1, m) BY DEF Cutoff
<1> HIDE DEF m
<1>5. SubSeq(s, 1, m) \in Seq(S) /\ Len(SubSeq(s, 1, m)) = m /\ \A i \in 1..m : SubSeq(s, 1, m)[i] = s[i]
  BY <1>1, <1>3
<1> QED BY <1>1, <1>2, <1>3, <1>4, <1>5

\* The first few of S in order: none only of none, all when they are few enough, and otherwise those above the rest.
LEMMA FirstFewOfAnOrder ==
  ASSUME ScoringAssumption, NEW S, NEW above, IsFiniteSet(S), IsOrder(S, above),
         NEW s, s = Cutoff(Ordered(S, above))
  PROVE  /\ s \in Seq(S)
         /\ s = << >> <=> S = {}
         /\ ToSet(s) \subseteq S /\ IsFiniteSet(ToSet(s)) /\ Cardinality(ToSet(s)) <= Shown
         /\ Cardinality(S) <= Shown => ToSet(s) = S
         /\ s # << >> => /\ 1 \in DOMAIN s /\ s[1] \in S
                         /\ \A d \in S : d = s[1] \/ <<s[1], d>> \in above
         /\ \A c \in S \ ToSet(s), d \in ToSet(s) : <<d, c>> \in above
<1> DEFINE o == Ordered(S, above)
           P(c) == PlaceIn(S, above, c)
<1>1. /\ o \in Seq(S) /\ Len(o) = Cardinality(S) /\ Len(o) \in Nat
      /\ \A i \in 1..Len(o) : o[i] \in S /\ P(o[i]) = i - 1
      /\ \A c \in S : P(c) + 1 \in 1..Len(o) /\ o[P(c) + 1] = c
  BY OrderedKeepsAll
<1>2. \A c, d \in S : <<c, d>> \in above => P(c) < P(d) BY PlacesFollow
<1>3. \A c \in S : P(c) \in Nat BY PlacesAreBelow
<1> HIDE DEF o, P
<1>4. s = Cutoff(o) BY DEF o
<1>5. /\ s \in Seq(S) /\ Len(s) = (IF Len(o) <= Shown THEN Len(o) ELSE Shown)
      /\ \A i \in 1..Len(s) : i \in 1..Len(o) /\ s[i] = o[i]
  BY <1>1, <1>4, CutoffTakesTheFirst
<1>6. Shown \in Nat \ {0} BY DEF ScoringAssumption
<1>7. DOMAIN s = 1..Len(s) /\ Len(s) \in Nat /\ Len(s) <= Shown /\ Len(s) <= Len(o) BY <1>1, <1>5, <1>6
<1>8. ToSet(s) = {s[i] : i \in 1..Len(s)} BY <1>7 DEF ToSet
<1>9. ToSet(s) \subseteq S BY <1>1, <1>5, <1>8
<1>10. s = << >> <=> S = {}
  <2>1. s = << >> <=> Len(s) = 0 BY <1>5
  <2>2. Len(s) = 0 <=> Len(o) = 0 BY <1>1, <1>5, <1>6
  <2>3. Cardinality(S) = 0 <=> S = {} BY FS_EmptySet
  <2> QED BY <1>1, <2>1, <2>2, <2>3
<1>11. IsFiniteSet(ToSet(s)) /\ Cardinality(ToSet(s)) <= Shown
  <2> DEFINE n == Len(s)
             f == [i \in 1..n |-> s[i]]
             T == ToSet(s)
  <2>1. f \in [1..n -> T] BY <1>8
  <2>2. \A t \in T : \E i \in 1..n : f[i] = t BY <1>8
  <2>3. ExistsSurjection(1..n, T)
    <3> HIDE DEF f, T, n
    <3> QED BY <2>1, <2>2 DEF ExistsSurjection, Surjection
  <2>4. n \in Nat BY <1>7
  <2>5. Cardinality(T) <= n
    <3> HIDE DEF f, T, n
    <3> QED BY <2>3, <2>4, FS_SurjCardinalityBound
  <2>6. IsFiniteSet(T)
    <3> HIDE DEF f
    <3> QED BY <1>9, FS_Subset
  <2>7. Cardinality(T) \in Nat
    <3> HIDE DEF T
    <3> QED BY <2>6, FS_CardinalityType
  <2> HIDE DEF T
  <2>8. Cardinality(T) <= Shown BY <1>6, <1>7, <2>5, <2>7
  <2> QED BY <2>6, <2>8 DEF T
<1>12. \A c \in S : P(c) < Len(s) => c \in ToSet(s)
  <2> SUFFICES ASSUME NEW c \in S, P(c) < Len(s) PROVE c \in ToSet(s)
    OBVIOUS
  <2>1. P(c) + 1 \in 1..Len(s) BY <1>3, <1>7
  <2>2. s[P(c) + 1] = c BY <1>1, <1>5, <2>1
  <2> QED BY <1>8, <2>1, <2>2
<1>13. \A d \in ToSet(s) : P(d) < Len(s)
  <2> SUFFICES ASSUME NEW i \in 1..Len(s) PROVE P(s[i]) < Len(s)
    BY <1>8
  <2>1. P(s[i]) = i - 1 BY <1>1, <1>5
  <2> QED BY <1>7, <2>1
<1>14. Cardinality(S) <= Shown => ToSet(s) = S
  <2> SUFFICES ASSUME Cardinality(S) <= Shown, NEW c \in S PROVE c \in ToSet(s)
    BY <1>9
  <2>1. Len(s) = Len(o) BY <1>1, <1>5
  <2>2. P(c) < Len(s) BY <1>1, <1>3, <2>1
  <2> QED BY <1>12, <2>2
<1>15. s # << >> => /\ 1 \in DOMAIN s /\ s[1] \in S
                    /\ \A d \in S : d = s[1] \/ <<s[1], d>> \in above
  <2> SUFFICES ASSUME s # << >>
               PROVE  1 \in DOMAIN s /\ s[1] \in S /\ \A d \in S : d = s[1] \/ <<s[1], d>> \in above
    OBVIOUS
  <2>1. 1 \in 1..Len(s) BY <1>5, <1>7
  <2>2. s[1] \in S /\ P(s[1]) = 0 BY <1>1, <1>5, <2>1
  <2>3. \A d \in S : <<d, s[1]>> \notin above BY <1>2, <1>3, <2>2
  <2> QED BY <1>7, <2>1, <2>2, <2>3 DEF IsOrder
<1>16. \A c \in S \ ToSet(s), d \in ToSet(s) : <<d, c>> \in above
  <2> SUFFICES ASSUME NEW c \in S \ ToSet(s), NEW d \in ToSet(s) PROVE <<d, c>> \in above
    OBVIOUS
  <2>1. P(d) < Len(s) /\ ~(P(c) < Len(s)) BY <1>12, <1>13
  <2>2. d \in S /\ P(c) \in Nat /\ P(d) \in Nat BY <1>3, <1>9
  <2>3. ~(P(c) < P(d)) BY <1>7, <2>1, <2>2
  <2>4. <<c, d>> \notin above BY <1>2, <2>2, <2>3
  <2> QED BY <2>2, <2>4 DEF IsOrder
<1> QED BY <1>5, <1>9, <1>10, <1>11, <1>14, <1>15, <1>16

-----------------------------------------------------------------------------
\* What a record holds: a number and one of the four tiers.

LEMMA MaxOfTwo == \A x, y \in Int : Max({x, y}) = IF x >= y THEN x ELSE y
<1> SUFFICES ASSUME NEW x \in Int, NEW y \in Int PROVE Max({x, y}) = IF x >= y THEN x ELSE y
  OBVIOUS
<1> DEFINE k == IF x >= y THEN x ELSE y
<1>1. k \in {x, y} /\ \A z \in {x, y} : k >= z OBVIOUS
<1>2. \A u \in {x, y} : (\A z \in {x, y} : u >= z) => u = k OBVIOUS
<1> QED BY <1>1, <1>2 DEF Max

LEMMA MinOfTwo == \A x, y \in Int : Min({x, y}) = IF x <= y THEN x ELSE y
<1> SUFFICES ASSUME NEW x \in Int, NEW y \in Int PROVE Min({x, y}) = IF x <= y THEN x ELSE y
  OBVIOUS
<1> DEFINE k == IF x <= y THEN x ELSE y
<1>1. k \in {x, y} /\ \A z \in {x, y} : k <= z OBVIOUS
<1>2. \A u \in {x, y} : (\A z \in {x, y} : u <= z) => u = k OBVIOUS
<1> QED BY <1>1, <1>2 DEF Min

LEMMA DependencyIsANumber ==
  ASSUME ScoringAssumption, NEW nodes, NEW w \in TargetChoices, NEW n \in Nodes
  PROVE  Dependency(nodes, w, n) \in Int
<1> DEFINE d == Dependants(Bare(nodes), n)
           m == Cardinality(Nodes) - 1
           q == (100 * d) \div Max({m, 1})
<1>1. d \in Nat
  <2> DEFINE H == {h \in Nodes : ~IsDevice(Bare(nodes), h)
                     /\ (Bare(nodes).node[h].parent = n \/ Bare(nodes).node[h].vlan \in Routed(Bare(nodes), n))}
  <2>1. H \in SUBSET Nodes OBVIOUS
  <2>2. d = 0 \/ d = Cardinality(H) BY DEF Dependants
  <2> HIDE DEF H
  <2>3. IsFiniteSet(Nodes) BY DEF ScoringAssumption
  <2>4. Cardinality(H) \in Nat BY <2>1, <2>3, FS_Subset, FS_CardinalityType
  <2> QED BY <2>2, <2>4
<1>2. Cardinality(Nodes) \in Nat BY FS_CardinalityType DEF ScoringAssumption
<1>3. Max({m, 1}) \in Nat \ {0}
  <2>1. m \in Int /\ 1 \in Int BY <1>2
  <2>2. Max({m, 1}) = IF m >= 1 THEN m ELSE 1
    <3> HIDE DEF m
    <3> QED BY <2>1, MaxOfTwo
  <2> QED BY <2>1, <2>2
<1>4. q \in Int
  <2> HIDE DEF d, m
  <2> QED BY <1>1, <1>3
<1>5. Min({100, q}) \in Int
  <2> HIDE DEF q
  <2> QED BY <1>4, MinOfTwo
<1>6. w[n] \in Int BY DEF ScoringAssumption
<1>7. Dependency(nodes, w, n) = Max({w[n], Min({100, q})}) BY DEF Dependency
<1> HIDE DEF q
<1> QED BY <1>5, <1>6, <1>7, MaxOfTwo

LEMMA TierIsOne ==
  ASSUME NEW ovss, NEW kev, NEW potential, NEW exposure
  PROVE  Tier(ovss, kev, potential, exposure) \in TierNames
<1>1. Cut(ovss) \in TierNames BY DEF Cut, TierNames
<1> QED BY <1>1 DEF Tier, TierNames

LEMMA RecordIsRated ==
  ASSUME ScoringAssumption, NEW nodes, NEW w \in TargetChoices, NEW f \in Feeds, NEW n \in Nodes, NEW c \in DOMAIN Flaws,
         NEW r, r = Record(nodes, w, f, n, c)
  PROVE  r.score \in Int /\ r.tier \in TierNames
<1> DEFINE e == Exposure(nodes, n)
           d == Dependency(nodes, w, n)
           t == Threat(f, c)
           s == Ovss(f, c, e, d)
<1>1. e \in Int BY DEF Exposure
<1>2. d \in Int BY DependencyIsANumber
<1>3. t \in Int
  <2> DEFINE p == 10 * f.epss[c]
  <2>1. p \in Int BY DEF ScoringAssumption
  <2>2. t = 100 \/ t = Min({100, p}) BY DEF Threat
  <2>3. Min({100, p}) \in Int
    <3> HIDE DEF p
    <3> QED BY <2>1, MinOfTwo
  <2> HIDE DEF p, t
  <2> QED BY <2>2, <2>3
<1>4. Flaws[c].cvss \in Int BY DEF ScoringAssumption
<1>5. s = (Flaws[c].cvss * (200 + e + d) * (100 + t) + 400) \div 800 BY DEF Ovss
<1>6. s \in Int
  <2> DEFINE a == Flaws[c].cvss
             x == a * (200 + e + d)
             y == x * (100 + t)
  <2>1. x \in Int
    <3> HIDE DEF a, e, d
    <3>1. a \in Int /\ 200 + e + d \in Int BY <1>1, <1>2, <1>4 DEF a
    <3> QED BY <3>1
  <2>2. y \in Int
    <3> HIDE DEF x, t
    <3> QED BY <1>3, <2>1
  <2>3. s = (y + 400) \div 800 BY <1>5
  <2> HIDE DEF y, s
  <2> QED BY <2>2, <2>3
<1>7. r = [score |-> s, tier |-> Tier(s, c \in f.kev, ~nodes[n].managed, e)] BY DEF Record
<1>8. r.score = s /\ r.tier = Tier(s, c \in f.kev, ~nodes[n].managed, e) BY <1>7
<1> QED BY <1>6, <1>8, TierIsOne

-----------------------------------------------------------------------------
\* What the engine takes of the lists: whether one is empty and, where the findings are not known, what is in it.

SameLists(nodes, a, b) ==
  \A n \in Nodes :
    /\ a[n] = << >> <=> b[n] = << >>
    /\ ~nodes[n].known => ToSet(a[n]) = ToSet(b[n])
ViewOf(nodes, lists, hosts) == [node |-> nodes, listed |-> lists, inactive |-> hosts]

LEMMA SameNodesSameEdges ==
  ASSUME NEW x, NEW y, x.node = y.node, \A n \in Nodes : Usable(x, n) = Usable(y, n)
  PROVE  /\ Placed(x) = Placed(y) /\ SpareStarts(x) = SpareStarts(y)
         /\ \A u : \A v \in Nodes : Edge(x, u, v) = Edge(y, u, v)
<1>1. \A n : Placement(x, n) = Placement(y, n) BY DEF Placement, IsDevice, RadioVlans
<1>2. Placed(x) = Placed(y) BY <1>1 DEF Placed
<1>3. \A n : Routed(x, n) = Routed(y, n) BY DEF Routed
<1>4. Routers(x) = Routers(y) BY <1>3 DEF Routers
<1>5. ASSUME NEW A, NEW B, NEW ends PROVE Router(x, A, B, ends) = Router(y, A, B, ends)
  <2> DEFINE X == {r \in Routers(x) \ ends : Routed(x, r) \cap A # {} /\ Routed(x, r) \cap B # {}}
             Y == {r \in Routers(y) \ ends : Routed(y, r) \cap A # {} /\ Routed(y, r) \cap B # {}}
  <2>1. X = Y BY <1>3, <1>4
  <2>2. Router(x, A, B, ends) = IF X = {} THEN 0 ELSE Min(X) BY DEF Router
  <2>3. Router(y, A, B, ends) = IF Y = {} THEN 0 ELSE Min(Y) BY DEF Router
  <2> HIDE DEF X, Y
  <2> QED BY <2>1, <2>2, <2>3
<1>6. \A n \in Nodes : \A cross : Takeover(x, n, cross) = Takeover(y, n, cross)
  BY DEF Takeover, Weaknesses, Misconfigs
<1>7. \A s : Membership(x, s) = Membership(y, s) BY <1>1 DEF Membership
<1>8. ASSUME NEW u, NEW v \in Nodes PROVE Edge(x, u, v) = Edge(y, u, v)
  <2> DEFINE A == Membership(x, u)
             B == Placement(x, v)
             E == {u, v}
  <2>1. Membership(y, u) = A /\ Placement(y, v) = B BY <1>1, <1>7
  <2>2. Edge(x, u, v) = IF u = v \/ v \notin Placed(x) THEN 0 ELSE IF A \cap B # {} THEN Takeover(x, v, FALSE)
                        ELSE IF Router(x, A, B, E) # 0 THEN Takeover(x, v, TRUE) ELSE 0
    BY DEF Edge
  <2>3. Edge(y, u, v) = IF u = v \/ v \notin Placed(y) THEN 0 ELSE IF A \cap B # {} THEN Takeover(y, v, FALSE)
                        ELSE IF Router(y, A, B, E) # 0 THEN Takeover(y, v, TRUE) ELSE 0
    <3> HIDE DEF A, B
    <3> QED BY <2>1 DEF Edge
  <2> HIDE DEF A, B, E
  <2>4. Router(x, A, B, E) = Router(y, A, B, E) BY <1>5
  <2>5. Takeover(x, v, FALSE) = Takeover(y, v, FALSE) /\ Takeover(x, v, TRUE) = Takeover(y, v, TRUE) BY <1>6
  <2>6. CASE u = v \/ v \notin Placed(x) BY <1>2, <2>2, <2>3, <2>6
  <2>7. CASE ~(u = v \/ v \notin Placed(x)) /\ A \cap B # {} BY <1>2, <2>2, <2>3, <2>5, <2>7
  <2>8. CASE ~(u = v \/ v \notin Placed(x)) /\ A \cap B = {}
    <3> DEFINE z == Router(x, A, B, E)
               tx == Takeover(x, v, TRUE)
               ty == Takeover(y, v, TRUE)
    <3>1. Edge(x, u, v) = IF z # 0 THEN tx ELSE 0 BY <2>2, <2>8
    <3>2. Edge(y, u, v) = IF z # 0 THEN ty ELSE 0 BY <1>2, <2>3, <2>4, <2>8
    <3>3. tx = ty BY <1>6
    <3> HIDE DEF z, tx, ty
    <3> QED BY <3>1, <3>2, <3>3
  <2> QED BY <2>6, <2>7, <2>8
<1>9. SpareStarts(x) = SpareStarts(y) BY DEF SpareStarts, IsDevice
<1> QED BY <1>2, <1>8, <1>9

LEMMA EngineIgnoresTheOrder ==
  ASSUME NEW nodes, NEW a, NEW b, NEW hosts, SameLists(nodes, a, b)
  PROVE  Engine(ViewOf(nodes, a, hosts)) = Engine(ViewOf(nodes, b, hosts))
<1> DEFINE x == ViewOf(nodes, a, hosts)
           y == ViewOf(nodes, b, hosts)
<1>1. x.node = y.node /\ x.inactive = y.inactive /\ x.node = nodes /\ x.listed = a /\ y.listed = b BY DEF ViewOf
<1> HIDE DEF x, y
<1>2. \A n \in Nodes : Usable(x, n) = Usable(y, n) BY <1>1 DEF Usable, SameLists
<1>3. Placed(x) = Placed(y) /\ SpareStarts(x) = SpareStarts(y) /\ \A u : \A v \in Nodes : Edge(x, u, v) = Edge(y, u, v)
  BY <1>1, <1>2, SameNodesSameEdges
<1>4. \A n \in Nodes : IsStart(x, n) <=> IsStart(y, n) BY <1>1, <1>3 DEF IsStart, IsDevice, SameLists
<1>5. \A n : CanStart(x, n) <=> CanStart(y, n) BY <1>1 DEF CanStart
<1>6. StartsOf(x) = StartsOf(y) BY <1>3, <1>4, <1>5 DEF StartsOf
<1>7. Engine(x) = Engine(y) BY <1>3, <1>6 DEF Engine
<1> QED BY <1>7 DEF x, y

\* A pass takes starting points away, those of the hosts it names, and leaves the edges.
LEMMA InactiveHostsOnlyLoseStarts ==
  ASSUME ScoringAssumption, NEW nodes, NEW lists, NEW hosts \in SUBSET Nodes,
         NEW g, g = Engine(ViewOf(nodes, lists, hosts)), NEW whole, whole = Engine(ViewOf(nodes, lists, {}))
  PROVE  /\ g.edge = whole.edge
         /\ g.starts = whole.starts \ hosts
         /\ IsFiniteSet(whole.starts) /\ \A s \in whole.starts : s \in Int
<1> DEFINE x == ViewOf(nodes, lists, hosts)
           y == ViewOf(nodes, lists, {})
<1>1. x.node = y.node /\ x.listed = y.listed /\ x.inactive = hosts /\ y.inactive = {} BY DEF ViewOf
<1>2. g.starts = StartsOf(x) /\ g.edge = [u \in Placed(x) \cup StartsOf(x) |-> [v \in Nodes |-> Edge(x, u, v)]]
  BY DEF Engine
<1>3. whole.starts = StartsOf(y) /\ whole.edge = [u \in Placed(y) \cup StartsOf(y) |-> [v \in Nodes |-> Edge(y, u, v)]]
  BY DEF Engine
<1> HIDE DEF x, y
<1>4. \A n : Usable(x, n) = Usable(y, n) BY <1>1 DEF Usable
<1>5. Placed(x) = Placed(y) /\ SpareStarts(x) = SpareStarts(y) /\ \A u : \A v \in Nodes : Edge(x, u, v) = Edge(y, u, v)
  BY <1>1, <1>4, SameNodesSameEdges
<1>6. \A n \in Nodes : IsStart(x, n) <=> IsStart(y, n) BY <1>1, <1>5 DEF IsStart, IsDevice
<1>7. \A n \in Nodes : CanStart(x, n) <=> CanStart(y, n) /\ n \notin hosts BY <1>1 DEF CanStart
<1>8. \A s \in SpareStarts(y) : Spare(s[1], s[2]) \in Int /\ Spare(s[1], s[2]) > FirstSpare /\ Spare(s[1], s[2]) \notin Nodes
  <2> SUFFICES ASSUME NEW n \in Nodes, NEW v \in 1..LastVlan
               PROVE  Spare(n, v) \in Int /\ Spare(n, v) > FirstSpare /\ Spare(n, v) \notin Nodes
    BY DEF SpareStarts
  <2>1. n \in Nat /\ FirstSpare \in Nat /\ LastVlan \in Nat /\ v \in Nat /\ v > 0 BY DEF ScoringAssumption
  <2> DEFINE z == (LastVlan + 1) * n
  <2>2. z \in Nat BY <2>1
  <2>3. Spare(n, v) = FirstSpare + z + v BY DEF Spare
  <2> HIDE DEF z
  <2>4. Spare(n, v) \in Int /\ Spare(n, v) > FirstSpare BY <2>1, <2>2, <2>3
  <2>5. \A m \in Nodes : m \in Int /\ m <= FirstSpare BY DEF ScoringAssumption
  <2> QED BY <2>1, <2>4, <2>5
<1>9. StartsOf(x) = StartsOf(y) \ hosts
  BY <1>5, <1>6, <1>7, <1>8 DEF StartsOf
<1>10. Placed(x) \cup StartsOf(x) = Placed(y) \cup StartsOf(y)
  <2>1. \A n \in Nodes : IsStart(y, n) => n \in Placed(y) BY DEF IsStart
  <2>2. StartsOf(x) = {n \in Nodes : IsStart(y, n) /\ CanStart(x, n)} \cup {Spare(s[1], s[2]) : s \in SpareStarts(y)}
    BY <1>5, <1>6 DEF StartsOf
  <2>3. StartsOf(y) = {n \in Nodes : IsStart(y, n) /\ CanStart(y, n)} \cup {Spare(s[1], s[2]) : s \in SpareStarts(y)}
    BY DEF StartsOf
  <2> QED BY <1>5, <2>1, <2>2, <2>3
<1>11. IsFiniteSet(StartsOf(y)) /\ \A s \in StartsOf(y) : s \in Int
  <2> DEFINE H == {n \in Nodes : IsStart(y, n) /\ CanStart(y, n)}
             L == 1..LastVlan
             T == SpareStarts(y)
             U == {Spare(s[1], s[2]) : s \in T}
  <2>1. H \in SUBSET Nodes /\ IsFiniteSet(Nodes) BY DEF ScoringAssumption
  <2>2. IsFiniteSet(H)
    <3> HIDE DEF H
    <3> QED BY <2>1, FS_Subset
  <2>3. IsFiniteSet(L)
    <3>1. 1 \in Int /\ LastVlan \in Int BY DEF ScoringAssumption
    <3> QED BY <3>1, FS_Interval
  <2>4. T \in SUBSET (Nodes \X L) BY DEF SpareStarts
  <2>5. IsFiniteSet(Nodes \X L)
    <3> HIDE DEF L
    <3> QED BY <2>1, <2>3, FS_Product
  <2>6. IsFiniteSet(T)
    <3> DEFINE X == Nodes \X L
    <3> HIDE DEF T, X
    <3>1. T \in SUBSET X BY <2>4 DEF X
    <3>2. IsFiniteSet(X) BY <2>5 DEF X
    <3> QED BY <3>1, <3>2, FS_Subset
  <2>7. IsFiniteSet(U)
    <3> DEFINE h == [s \in T |-> Spare(s[1], s[2])]
    <3>1. h \in Surjection(T, U) BY DEF Surjection
    <3> HIDE DEF h, T, U
    <3> QED BY <2>6, <3>1, FS_Surjection
  <2>8. StartsOf(y) = H \cup U BY DEF StartsOf
  <2>9. IsFiniteSet(H \cup U)
    <3> HIDE DEF H, U
    <3> QED BY <2>2, <2>7, FS_Union
  <2>10. \A s \in H : s \in Int BY DEF ScoringAssumption
  <2>11. \A s \in U : s \in Int BY <1>8
  <2> QED BY <2>8, <2>9, <2>10, <2>11
<1> QED BY <1>2, <1>3, <1>5, <1>9, <1>10, <1>11

-----------------------------------------------------------------------------
\* The routes of fewer starts.

LEMMA OneRouteAStart ==
  ASSUME NEW edge, NEW risk, NEW s, NEW t
  PROVE  \A r, q \in Routes(edge, risk, s, t) : r.start = s /\ r = q
BY DEF Routes

LEMMA RoutesToAre ==
  ASSUME NEW g, NEW risk, NEW t
  PROVE  \A r : r \in RoutesTo(g, risk, t) <=> \E s \in g.starts \ {t} : r \in Routes(g.edge, risk, s, t)
BY DEF RoutesTo

LEMMA RoutesToAreFinite ==
  ASSUME NEW g, NEW risk, NEW t, IsFiniteSet(g.starts)
  PROVE  IsFiniteSet(RoutesTo(g, risk, t))
<1> DEFINE R == RoutesTo(g, risk, t)
           S == g.starts
           f == [r \in R |-> r.start]
<1>1. \A r \in R : r.start \in S /\ r \in Routes(g.edge, risk, r.start, t) BY RoutesToAre, OneRouteAStart
<1>2. f \in [R -> S]
  <2> HIDE DEF R, S
  <2> QED BY <1>1
<1>3. ASSUME NEW r \in R, NEW q \in R, f[r] = f[q] PROVE r = q
  <2>1. r.start = q.start BY <1>3
  <2> HIDE DEF R, f
  <2>2. r \in Routes(g.edge, risk, r.start, t) /\ q \in Routes(g.edge, risk, r.start, t) BY <1>1, <2>1
  <2> QED BY <2>2, OneRouteAStart
<1> HIDE DEF f
<1>4. f \in Injection(R, S)
  <2> HIDE DEF R, S
  <2> QED BY <1>2, <1>3 DEF Injection, IsInjective
<1> HIDE DEF R, S
<1>5. IsFiniteSet(S) BY DEF S
<1>6. IsFiniteSet(R) BY <1>4, <1>5, FS_Injection
<1> QED BY <1>6 DEF R

\* Who keeps a place among all routes keeps one among fewer.
LEMMA FewerKeepTheirPlace ==
  ASSUME NEW R, NEW S \in SUBSET R, IsFiniteSet(R), Keep \in Nat
  PROVE  \A r \in S : r \in FirstRoutes(R) => r \in FirstRoutes(S)
<1> SUFFICES ASSUME NEW r \in S, r \in FirstRoutes(R) PROVE r \in FirstRoutes(S)
  OBVIOUS
<1> DEFINE A == {q \in R : Precedes(q, r)}
           B == {q \in S : Precedes(q, r)}
<1>1. Cardinality(A) < Keep BY DEF FirstRoutes
<1>2. B \in SUBSET A /\ A \in SUBSET R OBVIOUS
<1>3. Cardinality(B) <= Cardinality(A) /\ Cardinality(B) \in Nat /\ Cardinality(A) \in Nat
  <2> HIDE DEF A, B
  <2> QED BY <1>2, FS_Subset, FS_CardinalityType
<1>4. Cardinality(B) < Keep
  <2> HIDE DEF A, B
  <2> QED BY <1>1, <1>3
<1> QED BY <1>4 DEF FirstRoutes

LEMMA FewerStartsKeepTheirRoutes ==
  ASSUME ScoringAssumption, NEW g, NEW whole, NEW hosts, NEW risk, NEW t,
         g.edge = whole.edge, g.starts = whole.starts \ hosts, IsFiniteSet(whole.starts)
  PROVE  /\ \A r \in FirstRoutes(RoutesTo(g, risk, t)) : r.start \notin hosts
         /\ \A r \in FirstRoutes(RoutesTo(whole, risk, t)) :
              r.start \notin hosts => r \in FirstRoutes(RoutesTo(g, risk, t))
<1> DEFINE S == RoutesTo(g, risk, t)
           R == RoutesTo(whole, risk, t)
<1>1. \A r \in S : r.start \notin hosts BY RoutesToAre, OneRouteAStart
<1>2. S \in SUBSET R BY RoutesToAre
<1>3. \A r \in R : r.start \notin hosts => r \in S BY RoutesToAre, OneRouteAStart
<1>4. IsFiniteSet(R) BY RoutesToAreFinite
<1> HIDE DEF R, S
<1>5. \A r \in S : r \in FirstRoutes(R) => r \in FirstRoutes(S) BY <1>2, <1>4, FewerKeepTheirPlace DEF ScoringAssumption
<1>6. \A r \in FirstRoutes(S) : r.start \notin hosts BY <1>1 DEF FirstRoutes
<1>7. \A r \in FirstRoutes(R) : r.start \notin hosts => r \in FirstRoutes(S) BY <1>3, <1>5 DEF FirstRoutes
<1> QED BY <1>6, <1>7 DEF R, S

-----------------------------------------------------------------------------
\* The lists of a scan and of what is scored after it.

\* What the CVE stages leave each node.
Worst(nodes) == [n \in Nodes |-> WorstOf(nodes[n].cves)]

LEMMA WorstListsAre ==
  ASSUME ScoringAssumption, NEW nodes \in ScoredGraphs, NEW n \in Nodes,
         NEW S, S = FindingRows(nodes, Worst(nodes), n)
  PROVE  /\ S \subseteq DOMAIN Flaws /\ IsFiniteSet(S)
         /\ S = {} <=> nodes[n].cves = {}
         /\ Worst(nodes)[n] = << >> <=> nodes[n].cves = {}
         /\ ~nodes[n].known => S = ToSet(Worst(nodes)[n]) /\ Cardinality(S) <= Shown
<1> DEFINE C == nodes[n].cves
           w == Worst(nodes)[n]
<1>1. C \in SUBSET DOMAIN Flaws BY DEF ScoringAssumption
<1>2. IsFiniteSet(DOMAIN Flaws) /\ \A c \in DOMAIN Flaws : c \in Nat /\ Flaws[c].cvss \in Int BY DEF ScoringAssumption
<1>3. w = Cutoff(Ordered(C, WorseIn(C))) BY DEF Worst, WorstOf, WorseIn
<1>4. S = IF nodes[n].known THEN C ELSE ToSet(w) BY DEF FindingRows
<1> HIDE DEF C, w
<1>5. IsFiniteSet(C) BY <1>1, <1>2, FS_Subset
<1>6. C \subseteq Nat /\ \A c \in C : Flaws[c].cvss \in Int BY <1>1, <1>2
<1>7. IsOrder(C, WorseIn(C)) BY <1>6, WorseIsOrder
<1> DEFINE above == WorseIn(C)
<1>8. w = Cutoff(Ordered(C, above)) /\ IsOrder(C, above) BY <1>3, <1>7
<1> HIDE DEF above
<1>9. /\ w = << >> <=> C = {}
      /\ ToSet(w) \subseteq C /\ IsFiniteSet(ToSet(w)) /\ Cardinality(ToSet(w)) <= Shown
      /\ w # << >> => 1 \in DOMAIN w
  BY <1>5, <1>8, FirstFewOfAnOrder
<1>10. w # << >> => ToSet(w) # {} BY <1>9 DEF ToSet
<1>11. S = {} <=> C = {}
  <2>1. CASE nodes[n].known BY <1>4, <2>1
  <2>2. CASE ~nodes[n].known BY <1>4, <1>9, <1>10, <2>2
  <2> QED BY <2>1, <2>2
<1>12. S \subseteq DOMAIN Flaws /\ IsFiniteSet(S) BY <1>1, <1>4, <1>5, <1>9
<1>13. ~nodes[n].known => S = ToSet(w) /\ Cardinality(S) <= Shown BY <1>4, <1>9
<1> QED BY <1>9, <1>11, <1>12, <1>13 DEF C, w

LEMMA SameListsSameRows ==
  ASSUME NEW nodes, NEW a, NEW b, SameLists(nodes, a, b)
  PROVE  \A n \in Nodes : FindingRows(nodes, a, n) = FindingRows(nodes, b, n)
BY DEF FindingRows, SameLists

\* The records of the rows of a node, as Scores makes them.
RecordsOf(nodes, w, f, n) == [c \in FindingRows(nodes, Worst(nodes), n) |-> Record(nodes, w, f, n, c)]

LEMMA ScoresAreTheRecords ==
  ASSUME NEW nodes, NEW lists, SameLists(nodes, lists, Worst(nodes)), NEW w, NEW f
  PROVE  /\ Scores(nodes, lists, w, f) = Scores(nodes, Worst(nodes), w, f)
         /\ \A n \in Nodes : Scores(nodes, Worst(nodes), w, f)[n] = RecordsOf(nodes, w, f, n)
<1>1. \A n \in Nodes : FindingRows(nodes, lists, n) = FindingRows(nodes, Worst(nodes), n) BY SameListsSameRows
<1>2. Scores(nodes, lists, w, f) = [n \in Nodes |-> RecordsOf(nodes, w, f, n)] BY <1>1 DEF Scores, RecordsOf
<1>3. Scores(nodes, Worst(nodes), w, f) = [n \in Nodes |-> RecordsOf(nodes, w, f, n)] BY DEF Scores, RecordsOf
<1> QED BY <1>2, <1>3

LEMMA RecordsAreRated ==
  ASSUME ScoringAssumption, NEW nodes \in ScoredGraphs, NEW w \in TargetChoices, NEW f \in Feeds, NEW n \in Nodes,
         NEW r, r = RecordsOf(nodes, w, f, n), NEW S, S = FindingRows(nodes, Worst(nodes), n)
  PROVE  /\ DOMAIN r = S /\ S \subseteq Nat /\ IsFiniteSet(S)
         /\ \A c \in S : Rated(r, c) /\ r[c] = Record(nodes, w, f, n, c) /\ c \in DOMAIN Flaws
         /\ IsOrder(S, AboveIn(S, r))
<1>1. S \subseteq DOMAIN Flaws /\ IsFiniteSet(S) BY WorstListsAre
<1>2. r = [c \in S |-> Record(nodes, w, f, n, c)] BY DEF RecordsOf
<1>3. \A c \in S : r[c] = Record(nodes, w, f, n, c) BY <1>2
<1>4. \A c \in S : Rated(r, c) BY <1>1, <1>3, RecordIsRated DEF Rated
<1>5. S \subseteq Nat BY <1>1 DEF ScoringAssumption
<1>6. IsOrder(S, AboveIn(S, r)) BY <1>4, <1>5, HigherIsOrder
<1> QED BY <1>1, <1>2, <1>3, <1>4, <1>5, <1>6

LEMMA TopIs ==
  ASSUME ScoringAssumption, NEW nodes \in ScoredGraphs, NEW w \in TargetChoices, NEW f \in Feeds, NEW n \in Nodes,
         NEW r, r = RecordsOf(nodes, w, f, n), NEW S, S = FindingRows(nodes, Worst(nodes), n),
         NEW s, s = Top(nodes, Worst(nodes), n, r)
  PROVE  /\ s = << >> <=> S = {}
         /\ ToSet(s) \subseteq S
         /\ Cardinality(S) <= Shown => ToSet(s) = S
         /\ s # << >> => s[1] \in S /\ \A d \in S : d = s[1] \/ Higher(r, s[1], d)
         /\ \A c \in S \ ToSet(s), d \in ToSet(s) : Higher(r, d, c)
<1> DEFINE above == AboveIn(S, r)
<1>1. IsFiniteSet(S) /\ IsOrder(S, above) BY RecordsAreRated
<1>2. s = Cutoff(Ordered(S, above)) BY DEF Top, InOrder, AboveIn
<1>3. \A c, d \in S : <<c, d>> \in above <=> Higher(r, c, d) BY DEF AboveIn
<1> HIDE DEF above
<1>4. /\ s = << >> <=> S = {}
      /\ ToSet(s) \subseteq S
      /\ Cardinality(S) <= Shown => ToSet(s) = S
      /\ s # << >> => s[1] \in S /\ \A d \in S : d = s[1] \/ <<s[1], d>> \in above
      /\ \A c \in S \ ToSet(s), d \in ToSet(s) : <<d, c>> \in above
  BY <1>1, <1>2, FirstFewOfAnOrder
<1> QED BY <1>3, <1>4

-----------------------------------------------------------------------------
\* The inductive invariant of scans, rescores and recomputes.

\* The files are of the graph and of today's marks and feeds.
FilesAreKnown ==
  /\ node \in ScoredGraphs /\ weight \in TargetChoices /\ feed \in Feeds
  /\ op \in {"none", "scan", "rescore", "recompute"} /\ phase \in {"score", "roll", "paths", "ended"}
  /\ live \in [current : BOOLEAN, hosts : SUBSET Nodes]
  /\ op = "scan" => ~live.current
  /\ op = "none" => phase = "ended"
\* However often the lists were cut and ordered anew, a node lists as much as the CVE stages left it to be scored from.
ListsAreAsGood == op # "none" => SameLists(node, listed, Worst(node))
\* The scores are those of a scan today.
ScoredToday == op # "none" /\ phase # "score" => score = Scores(node, Worst(node), weight, feed)
RolledUp ==
  op # "none" /\ phase \in {"paths", "ended"} =>
    \A n \in Nodes : listed[n] = Top(node, Worst(node), n, score[n]) /\ rollup[n] = NodeRecord(score[n])
\* The engine is what would be built of the lists now, though it was built of those before.
EngineOfToday ==
  op # "none" /\ phase # "score" => engine = Engine(ViewOf(node, listed, Inactive(live)))
PathsOfToday ==
  Complete => paths = Compute(engine, [n \in Nodes |-> rollup[n].risk], {n \in Nodes : weight[n] > 0})
ScoringInv ==
  FilesAreKnown /\ ListsAreAsGood /\ ScoredToday /\ RolledUp /\ EngineOfToday /\ PathsOfToday

LEMMA SameListsIsAnEquality ==
  ASSUME NEW nodes, NEW a, NEW b, SameLists(nodes, a, b)
  PROVE  SameLists(nodes, b, a) /\ \A c : SameLists(nodes, b, c) => SameLists(nodes, a, c)
BY DEF SameLists

\* Listing the first few of the rows again changes neither whether there are any nor, where these are all there is, which.
LEMMA TopListsAreAsGood ==
  ASSUME ScoringAssumption, NEW nodes \in ScoredGraphs, NEW w \in TargetChoices, NEW f \in Feeds,
         NEW lists, \A n \in Nodes : lists[n] = Top(nodes, Worst(nodes), n, RecordsOf(nodes, w, f, n))
  PROVE  SameLists(nodes, lists, Worst(nodes))
<1> SUFFICES ASSUME NEW n \in Nodes
             PROVE  /\ lists[n] = << >> <=> Worst(nodes)[n] = << >>
                    /\ ~nodes[n].known => ToSet(lists[n]) = ToSet(Worst(nodes)[n])
  BY DEF SameLists
<1> DEFINE S == FindingRows(nodes, Worst(nodes), n)
           r == RecordsOf(nodes, w, f, n)
           s == lists[n]
<1>1. s = Top(nodes, Worst(nodes), n, r) OBVIOUS
<1>2. /\ s = << >> <=> S = {}
      /\ Cardinality(S) <= Shown => ToSet(s) = S
  <2> HIDE DEF s
  <2> QED BY <1>1, TopIs
<1>3. /\ S = {} <=> nodes[n].cves = {}
      /\ Worst(nodes)[n] = << >> <=> nodes[n].cves = {}
      /\ ~nodes[n].known => S = ToSet(Worst(nodes)[n]) /\ Cardinality(S) <= Shown
  BY WorstListsAre
<1> HIDE DEF S, r
<1> QED BY <1>2, <1>3

LEMMA TopOfSameLists ==
  ASSUME NEW nodes, NEW a, NEW b, SameLists(nodes, a, b), NEW r
  PROVE  \A n \in Nodes : Top(nodes, a, n, r) = Top(nodes, b, n, r)
BY SameListsSameRows DEF Top

LEMMA ScoringStarts == ScoringInit => ScoringInv
BY DEF ScoringInit, ScoringInv, FilesAreKnown, ListsAreAsGood, ScoredToday, RolledUp, EngineOfToday, PathsOfToday, Complete

LEMMA ScansKeep == ScoringInv /\ Scans => ScoringInv'
<1> SUFFICES ASSUME ScoringInv, Scans PROVE ScoringInv'
  OBVIOUS
<1> USE DEF ScoringInv, Scans, Begins
<1>1. op' = "scan" /\ phase' = "score" /\ node' = node /\ weight' = weight /\ feed' = feed OBVIOUS
<1>2. live' \in [current : BOOLEAN, hosts : SUBSET Nodes] /\ live'.current = FALSE BY DEF FilesAreKnown
<1>3. FilesAreKnown' BY <1>1, <1>2 DEF FilesAreKnown
<1>4. listed' = Worst(node) BY DEF Worst
<1>5. SameLists(node, listed', Worst(node)) BY <1>4 DEF SameLists
<1>6. ListsAreAsGood' BY <1>1, <1>5 DEF ListsAreAsGood, SameLists, Worst
<1> QED BY <1>1, <1>3, <1>6 DEF ScoredToday, RolledUp, EngineOfToday, PathsOfToday, Complete

LEMMA RescoresKeep == ScoringInv /\ Rescores => ScoringInv'
<1> SUFFICES ASSUME ScoringInv, Rescores PROVE ScoringInv'
  OBVIOUS
<1> USE DEF ScoringInv, Rescores, Begins
<1>1. op' = "rescore" /\ phase' = "score" /\ node' = node /\ listed' = listed /\ live' = live OBVIOUS
<1>2. FilesAreKnown' BY DEF FilesAreKnown
<1>3. ListsAreAsGood' BY <1>1 DEF ListsAreAsGood, SameLists, Worst
<1> QED BY <1>1, <1>2, <1>3 DEF ScoredToday, RolledUp, EngineOfToday, PathsOfToday, Complete

LEMMA RecomputesKeep == ScoringInv /\ Recomputes => ScoringInv'
<1> SUFFICES ASSUME ScoringInv, Recomputes PROVE ScoringInv'
  OBVIOUS
<1> USE DEF ScoringInv
<1>1. PICK S \in SUBSET Nodes : live' = [current |-> TRUE, hosts |-> S] /\ engine' = Built(S) BY DEF Recomputes
<1>2. /\ op # "none" /\ phase = "ended" /\ op' = "recompute" /\ phase' = "paths"
      /\ UNCHANGED <<node, listed, score, rollup, weight, feed>>
  BY DEF Recomputes, Begins
<1>3. FilesAreKnown' BY <1>1, <1>2 DEF FilesAreKnown
<1>4. ListsAreAsGood' BY <1>2 DEF ListsAreAsGood, SameLists, Worst
<1>5. ScoredToday' BY <1>2 DEF ScoredToday, Scores, FindingRows, Record, Worst
<1>6. RolledUp' BY <1>2 DEF RolledUp, Top, FindingRows, Worst
<1>7. EngineOfToday'
  <2>1. Inactive(live') = S BY <1>1 DEF Inactive
  <2>2. engine' = Engine(ViewOf(node, listed, S)) BY <1>1 DEF Built, View, ViewOf
  <2>3. engine' = Engine(ViewOf(node', listed', Inactive(live'))) BY <1>2, <2>1, <2>2
  <2> QED BY <2>3 DEF EngineOfToday
<1> QED BY <1>2, <1>3, <1>4, <1>5, <1>6, <1>7 DEF PathsOfToday, Complete

LEMMA ScoresFindingsKeep == ScoringInv /\ ScoresFindings => ScoringInv'
<1> SUFFICES ASSUME ScoringInv, ScoresFindings PROVE ScoringInv'
  OBVIOUS
<1> USE DEF ScoringInv
<1>1. /\ phase = "score" /\ phase' = "roll" /\ UNCHANGED <<node, listed, rollup, weight, feed, live, paths, op>>
      /\ score' = Scores(node, listed, weight, feed)
      /\ engine' = Built(IF op = "scan" THEN {} ELSE Inactive(live))
  BY DEF ScoresFindings
<1>2. op # "none" BY <1>1 DEF FilesAreKnown
<1>3. FilesAreKnown' BY <1>1 DEF FilesAreKnown
<1>4. ListsAreAsGood' BY <1>1 DEF ListsAreAsGood, SameLists, Worst
<1>5. SameLists(node, listed, Worst(node)) BY <1>2 DEF ListsAreAsGood
<1>6. score' = Scores(node, Worst(node), weight, feed) BY <1>1, <1>5, ScoresAreTheRecords
<1>7. ScoredToday' BY <1>1, <1>6 DEF ScoredToday, Scores, FindingRows, Record, Worst
<1>8. EngineOfToday'
  <2>1. (IF op = "scan" THEN {} ELSE Inactive(live)) = Inactive(live) BY DEF FilesAreKnown, Inactive
  <2>2. engine' = Engine(ViewOf(node, listed, Inactive(live))) BY <1>1, <2>1 DEF Built, View, ViewOf
  <2>3. engine' = Engine(ViewOf(node', listed', Inactive(live'))) BY <1>1, <2>2
  <2> QED BY <2>3 DEF EngineOfToday
<1> QED BY <1>1, <1>3, <1>4, <1>7, <1>8 DEF RolledUp, PathsOfToday, Complete

LEMMA RollsUpKeeps ==
  ASSUME ScoringAssumption
  PROVE  ScoringInv /\ RollsUp => ScoringInv'
<1> SUFFICES ASSUME ScoringInv, RollsUp PROVE ScoringInv'
  OBVIOUS
<1> USE DEF ScoringInv
<1>1. /\ phase = "roll" /\ phase' = "paths" /\ UNCHANGED <<node, score, weight, feed, live, engine, paths, op>>
      /\ listed' = [n \in Nodes |-> Top(node, listed, n, score[n])]
      /\ rollup' = [n \in Nodes |-> NodeRecord(score[n])]
  BY DEF RollsUp
<1>2. op # "none" BY <1>1 DEF FilesAreKnown
<1>3. FilesAreKnown' BY <1>1 DEF FilesAreKnown
<1>4. SameLists(node, listed, Worst(node)) BY <1>2 DEF ListsAreAsGood
<1>5. score = Scores(node, Worst(node), weight, feed) BY <1>1, <1>2 DEF ScoredToday
<1>6. \A n \in Nodes : score[n] = RecordsOf(node, weight, feed, n) BY <1>4, <1>5, ScoresAreTheRecords
<1>7. \A n \in Nodes : listed'[n] = Top(node, Worst(node), n, score[n])
  <2> TAKE n \in Nodes
  <2>1. listed'[n] = Top(node, listed, n, score[n]) BY <1>1
  <2> QED BY <1>4, <2>1, TopOfSameLists
<1>8. SameLists(node, listed', Worst(node))
  <2> DEFINE lists == listed'
  <2>1. \A n \in Nodes : lists[n] = Top(node, Worst(node), n, RecordsOf(node, weight, feed, n)) BY <1>6, <1>7
  <2>2. node \in ScoredGraphs /\ weight \in TargetChoices /\ feed \in Feeds BY DEF FilesAreKnown
  <2> HIDE DEF lists
  <2>3. SameLists(node, lists, Worst(node)) BY <2>1, <2>2, TopListsAreAsGood
  <2> QED BY <2>3 DEF lists
<1>9. ListsAreAsGood' BY <1>1, <1>8 DEF ListsAreAsGood, SameLists, Worst
<1>10. ScoredToday' BY <1>1, <1>2, <1>5 DEF ScoredToday, Scores, FindingRows, Record, Worst
<1>11. RolledUp' BY <1>1, <1>7 DEF RolledUp, Top, FindingRows, Worst
<1>12. EngineOfToday'
  <2> DEFINE lists == listed'
  <2>1. engine = Engine(ViewOf(node, listed, Inactive(live))) BY <1>1, <1>2 DEF EngineOfToday
  <2>2. SameLists(node, listed, lists) BY <1>4, <1>8, SameListsIsAnEquality
  <2> HIDE DEF lists
  <2>3. Engine(ViewOf(node, listed, Inactive(live))) = Engine(ViewOf(node, lists, Inactive(live)))
    BY <2>2, EngineIgnoresTheOrder
  <2>4. engine' = Engine(ViewOf(node', listed', Inactive(live'))) BY <1>1, <2>1, <2>3 DEF lists
  <2> QED BY <2>4 DEF EngineOfToday
<1> QED BY <1>1, <1>3, <1>9, <1>10, <1>11, <1>12 DEF PathsOfToday, Complete

LEMMA ComputesPathsKeeps == ScoringInv /\ ComputesPaths => ScoringInv'
<1> SUFFICES ASSUME ScoringInv, ComputesPaths PROVE ScoringInv'
  OBVIOUS
<1> USE DEF ScoringInv
<1>1. /\ phase = "paths" /\ phase' = "ended" /\ UNCHANGED <<node, listed, score, rollup, weight, feed, live, engine, op>>
      /\ paths' = Compute(engine, [n \in Nodes |-> rollup[n].risk], {n \in Nodes : weight[n] > 0})
  BY DEF ComputesPaths
<1>2. FilesAreKnown' BY <1>1 DEF FilesAreKnown
<1>3. ListsAreAsGood' BY <1>1 DEF ListsAreAsGood, SameLists, Worst
<1>4. ScoredToday' BY <1>1 DEF ScoredToday, Scores, FindingRows, Record, Worst
<1>5. RolledUp' BY <1>1 DEF RolledUp, Top, FindingRows, Worst
<1>6. EngineOfToday' BY <1>1 DEF EngineOfToday
<1>7. PathsOfToday' BY <1>1 DEF PathsOfToday
<1> QED BY <1>2, <1>3, <1>4, <1>5, <1>6, <1>7

LEMMA ScoringStutters == ScoringInv /\ UNCHANGED scoringVars => ScoringInv'
<1> SUFFICES ASSUME ScoringInv, UNCHANGED scoringVars PROVE ScoringInv'
  OBVIOUS
<1> USE DEF ScoringInv
<1>1. UNCHANGED <<node, listed, score, rollup, weight, feed, live, engine, paths, op, phase>> BY DEF scoringVars
<1>2. FilesAreKnown' BY <1>1 DEF FilesAreKnown
<1>3. ListsAreAsGood' BY <1>1 DEF ListsAreAsGood
<1>4. ScoredToday' BY <1>1 DEF ScoredToday
<1>5. RolledUp' BY <1>1 DEF RolledUp
<1>6. EngineOfToday' BY <1>1 DEF EngineOfToday
<1>7. PathsOfToday' BY <1>1 DEF PathsOfToday, Complete
<1> QED BY <1>2, <1>3, <1>4, <1>5, <1>6, <1>7

\* The inductive invariant: however scans, rescores and recomputes follow one another, each with other marks,
\* feeds and passes, the scores, the lists, the engine and the routes are at the end of each those a scan would
\* make today of what the CVE stages left (ovss.py, stage.py, rescore.py, attackpaths.py).
THEOREM ScoringAlways == ScoringSpec => []ScoringInv
<1>1. ScoringInit => ScoringInv BY ScoringStarts
<1>2. ScoringInv /\ [ScoringNext]_scoringVars => ScoringInv'
  <2> SUFFICES ASSUME ScoringInv, [ScoringNext]_scoringVars PROVE ScoringInv'
    OBVIOUS
  <2>1. CASE Scans BY <2>1, ScansKeep
  <2>2. CASE Rescores BY <2>2, RescoresKeep
  <2>3. CASE Recomputes BY <2>3, RecomputesKeep
  <2>4. CASE ScoresFindings BY <2>4, ScoresFindingsKeep
  <2>5. CASE RollsUp BY <2>5, RollsUpKeeps, ScoringAssumption
  <2>6. CASE ComputesPaths BY <2>6, ComputesPathsKeeps
  <2>7. CASE UNCHANGED scoringVars BY <2>7, ScoringStutters
  <2> QED BY <2>1, <2>2, <2>3, <2>4, <2>5, <2>6, <2>7 DEF ScoringNext
<1> QED BY <1>1, <1>2, PTL DEF ScoringSpec

LEMMA LivenessFollows == ScoringInv => LivenessOnlyTakesStarts
<1> SUFFICES ASSUME ScoringInv, Complete PROVE LivenessOnlyTakesStarts
  BY DEF LivenessOnlyTakesStarts
<1> DEFINE risk == [n \in Nodes |-> rollup[n].risk]
           targets == {n \in Nodes : weight[n] > 0}
           hosts == Inactive(live)
           whole == Engine(ViewOf(node, listed, {}))
           plain == Compute(whole, risk, targets)
<1>1. op # "none" /\ phase = "ended" BY DEF Complete
<1>2. engine = Engine(ViewOf(node, listed, hosts)) BY <1>1 DEF ScoringInv, EngineOfToday
<1>3. paths = Compute(engine, risk, targets) BY DEF ScoringInv, PathsOfToday
<1>4. hosts \in SUBSET Nodes /\ (live.current => hosts = live.hosts) /\ (~live.current => hosts = {}) /\ live.current \in BOOLEAN
  BY DEF ScoringInv, FilesAreKnown, Inactive
<1> HIDE DEF risk, targets, hosts, whole
<1>5. engine.edge = whole.edge /\ engine.starts = whole.starts \ hosts /\ IsFiniteSet(whole.starts)
  BY <1>2, <1>4, ScoringAssumption, InactiveHostsOnlyLoseStarts DEF whole
<1>6. \A t : /\ \A r \in FirstRoutes(RoutesTo(engine, risk, t)) : r.start \notin hosts
             /\ \A r \in FirstRoutes(RoutesTo(whole, risk, t)) :
                  r.start \notin hosts => r \in FirstRoutes(RoutesTo(engine, risk, t))
  BY <1>5, ScoringAssumption, FewerStartsKeepTheirRoutes
<1>7. \A t \in DOMAIN paths : t \in targets \cap Nodes /\ paths[t] = FirstRoutes(RoutesTo(engine, risk, t))
  BY <1>3 DEF Compute
<1>8. \A t \in targets \cap Nodes : plain[t] = FirstRoutes(RoutesTo(whole, risk, t)) BY DEF Compute
<1>9. ~live.current => engine = whole BY <1>2, <1>4 DEF whole
<1>10. \A t \in DOMAIN paths :
         /\ live.current => \A r \in paths[t] : r.start \notin live.hosts
         /\ ~live.current => paths[t] = plain[t]
         /\ \A r \in plain[t] : r.start \notin hosts => r \in paths[t]
  <2> HIDE DEF plain
  <2> QED BY <1>4, <1>6, <1>7, <1>8, <1>9
<1>11. \A r : r \notin live.hosts => r \notin hosts BY <1>4
<1>12. Complete => \A t \in DOMAIN paths :
         /\ live.current => \A r \in paths[t] : r.start \notin live.hosts
         /\ ~live.current => paths[t] = plain[t]
         /\ \A r \in plain[t] : r.start \notin live.hosts => r \in paths[t]
  <2> HIDE DEF plain
  <2> QED BY <1>10, <1>11
<1>13. plain = Compute(Engine(View({})), [n \in Nodes |-> rollup[n].risk], {n \in Nodes : weight[n] > 0})
  BY DEF plain, whole, risk, targets, View, ViewOf
<1> HIDE DEF plain
<1> QED BY <1>12, <1>13 DEF LivenessOnlyTakesStarts

\* A liveness pass takes starting points away and nothing else, for any networks, CVEs, marks and hosts that did
\* not answer, and any number of routes kept (attackpaths.py inactive_hosts, find_starts, _target_blocks).
THEOREM LivenessAlwaysOnlyTakesStarts == ScoringSpec => []LivenessOnlyTakesStarts
BY ScoringAlways, LivenessFollows, PTL

-----------------------------------------------------------------------------
\* What the records and the lists say.

LEMMA LeastRankIs ==
  ASSUME NEW r, NEW S, S = DOMAIN r, \A c \in S : Rated(r, c),
         NEW c \in S, \A d \in S : Rank(r[c].tier) <= Rank(r[d].tier)
  PROVE  NodeRecord(r).tier = r[c].tier
<1> DEFINE ranks == {Rank(r[d].tier) : d \in S}
           k == Rank(r[c].tier)
<1>1. \A d \in S : Rank(r[d].tier) \in 1..4 BY RankIs DEF Rated
<1>2. k \in ranks /\ \A x \in ranks : k <= x /\ x \in Int BY <1>1
<1>3. k \in Int BY <1>1
<1> HIDE DEF k
<1>4. \A x \in ranks : (\A y \in ranks : x <= y) => x = k BY <1>2, <1>3
<1>5. Min(ranks) = k
  <2> HIDE DEF ranks
  <2> QED BY <1>2, <1>4 DEF Min
<1>6. NodeRecord(r).tier = Tiers[Min(ranks)] BY DEF NodeRecord
<1>7. Tiers[k] = r[c].tier BY RankIs DEF k, Rated
<1> QED BY <1>5, <1>6, <1>7

LEMMA ExploitedTiers ==
  ASSUME NEW nodes, NEW w, NEW f, NEW n, NEW c \in f.kev, NEW r, r = Record(nodes, w, f, n, c)
  PROVE  /\ r.tier \in {"P0", "P1"}
         /\ nodes[n].role = "router" => r.tier = "P0"
<1> DEFINE e == Exposure(nodes, n)
           s == Ovss(f, c, e, Dependency(nodes, w, n))
           p == ~nodes[n].managed
<1>1. r.tier = Tier(s, c \in f.kev, p, e) BY DEF Record
<1>2. Cut(s) \in TierNames BY DEF Cut, TierNames
<1>3. nodes[n].role = "router" => e = 100 BY DEF Exposure
<1> HIDE DEF e, s, p
<1>4. r.tier = IF e = 100 THEN "P0" ELSE IF Cut(s) \in {"P2", "P3"} THEN "P1" ELSE Cut(s) BY <1>1 DEF Tier
<1> QED BY <1>2, <1>3, <1>4 DEF TierNames

LEMMA ScoresFollow == ScoringInv => ScoresHold
<1> SUFFICES ASSUME ScoringInv, Complete PROVE ScoresHold
  BY DEF ScoresHold, ExploitedIsShown, RescoringLeavesNothing
<1> USE DEF ScoringInv
<1>1. op # "none" /\ phase = "ended" BY DEF Complete
<1>2. node \in ScoredGraphs /\ weight \in TargetChoices /\ feed \in Feeds BY DEF FilesAreKnown
<1>3. score = Scores(node, Worst(node), weight, feed) BY <1>1 DEF ScoredToday
<1>4. \A n \in Nodes : listed[n] = Top(node, Worst(node), n, score[n]) /\ rollup[n] = NodeRecord(score[n])
  BY <1>1 DEF RolledUp
<1>5. SameLists(node, Worst(node), Worst(node)) BY DEF SameLists
<1>6. \A n \in Nodes : score[n] = RecordsOf(node, weight, feed, n) BY <1>3, <1>5, ScoresAreTheRecords
<1>7. RescoringLeavesNothing
  BY <1>3, <1>4 DEF RescoringLeavesNothing, Worst
<1>8. ASSUME NEW n \in Nodes
      PROVE  /\ listed[n] # << >> => rollup[n].tier = score[n][listed[n][1]].tier
             /\ \A c \in feed.kev \cap DOMAIN score[n] :
                  /\ score[n][c].tier \in {"P0", "P1"} /\ (node[n].role = "router" => score[n][c].tier = "P0")
                  /\ c \in ToSet(listed[n]) \/ (\A d \in ToSet(listed[n]) : Rank(score[n][d].tier) <= Rank(score[n][c].tier))
  <2> DEFINE r == score[n]
             s == listed[n]
             S == FindingRows(node, Worst(node), n)
  <2>1. r = RecordsOf(node, weight, feed, n) /\ s = Top(node, Worst(node), n, r) BY <1>4, <1>6
  <2>2. rollup[n] = NodeRecord(r) BY <1>4
  <2> HIDE DEF r, s, S
  <2>3. /\ DOMAIN r = S
        /\ \A c \in S : Rated(r, c) /\ r[c] = Record(node, weight, feed, n, c)
    BY <1>2, <2>1, RecordsAreRated, ScoringAssumption DEF S
  <2>4. /\ ToSet(s) \subseteq S
        /\ s # << >> => s[1] \in S /\ \A d \in S : d = s[1] \/ Higher(r, s[1], d)
        /\ \A c \in S \ ToSet(s), d \in ToSet(s) : Higher(r, d, c)
    BY <1>2, <2>1, TopIs, ScoringAssumption DEF S
  <2>5. \A c \in S : Rank(r[c].tier) \in 1..4 BY <2>3, RankIs DEF Rated
  <2>6. \A c, d \in S : Higher(r, c, d) => Rank(r[c].tier) <= Rank(r[d].tier) BY <2>5 DEF Higher
  <2>7. s # << >> => rollup[n].tier = r[s[1]].tier
    <3> SUFFICES ASSUME s # << >> PROVE rollup[n].tier = r[s[1]].tier
      OBVIOUS
    <3>1. s[1] \in S BY <2>4
    <3>2. \A d \in S : Rank(r[s[1]].tier) <= Rank(r[d].tier) BY <2>4, <2>5, <2>6, <3>1
    <3> QED BY <2>2, <2>3, <3>1, <3>2, LeastRankIs
  <2>8. ASSUME NEW c \in feed.kev \cap DOMAIN r
        PROVE  /\ r[c].tier \in {"P0", "P1"} /\ (node[n].role = "router" => r[c].tier = "P0")
               /\ c \in ToSet(s) \/ (\A d \in ToSet(s) : Rank(r[d].tier) <= Rank(r[c].tier))
    <3>1. c \in S /\ r[c] = Record(node, weight, feed, n, c) BY <2>3
    <3>2. r[c].tier \in {"P0", "P1"} /\ (node[n].role = "router" => r[c].tier = "P0") BY <3>1, ExploitedTiers
    <3>3. c \in ToSet(s) \/ (\A d \in ToSet(s) : Rank(r[d].tier) <= Rank(r[c].tier)) BY <2>4, <2>6, <3>1
    <3> QED BY <3>2, <3>3
  <2> QED BY <2>7, <2>8 DEF r, s
<1>9. ExploitedIsShown BY <1>8 DEF ExploitedIsShown
<1> QED BY <1>7, <1>9 DEF ScoresHold

\* Exploited vulnerabilities are shown and nothing of an earlier score is left, for any findings, feeds, marks
\* and lengths of the lists, after any scans, rescores and recomputes (ovss.py tier, node_record; stage.py
\* top_cves; rescore.py).
THEOREM ScoresAlwaysHold == ScoringSpec => []ScoresHold
BY ScoringAlways, ScoresFollow, PTL

-----------------------------------------------------------------------------
\* An edge of the engine is the best of the ways there are.

LEMMA BestOfTenths ==
  ASSUME NEW T \in SUBSET {2, 6, 9}, NEW m, m = Max({0} \cup T)
  PROVE  /\ m \in {0, 2, 6, 9} /\ (m = 0 <=> T = {}) /\ (m # 0 => m \in T)
         /\ \A w \in T : w <= m
<1> DEFINE X == {0} \cup T
<1>1. ASSUME NEW k \in X, \A y \in X : y <= k PROVE m = k
  <2>1. \A x \in X : x \in Int OBVIOUS
  <2>2. \A x \in X : (\A y \in X : x >= y) => x = k BY <1>1, <2>1
  <2>3. m = CHOOSE x \in X : \A y \in X : x >= y BY DEF Max
  <2>4. \A y \in X : k >= y BY <1>1, <2>1
  <2> HIDE DEF X
  <2> QED BY <1>1, <2>2, <2>3, <2>4
<1>2. CASE 9 \in T BY <1>1, <1>2
<1>3. CASE 9 \notin T /\ 6 \in T BY <1>1, <1>3
<1>4. CASE 9 \notin T /\ 6 \notin T /\ 2 \in T BY <1>1, <1>4
<1>5. CASE T = {} BY <1>1, <1>5
<1> QED BY <1>2, <1>3, <1>4, <1>5

LEMMA ValueIs == \A x \in Complexities : Value(x) \in {2, 6, 9}
BY DEF Complexities, Value

WellKnown(e) == \A n \in Nodes : Usable(e, n) \subseteq DOMAIN Flaws /\ e.node[n].config \subseteq Complexities

\* What a takeover takes: from the VLAN all of these, through a router only what is reached over the network.
FromTheVlan(e, v) ==
  {Value(Flaws[c].complexity) : c \in {d \in Usable(e, v) : Flaws[d].free /\ Flaws[d].vector \in {"NETWORK", "ADJACENT"}}}
    \cup Misconfigs(e, v)
ThroughARouter(e, v) ==
  {Value(Flaws[c].complexity) : c \in {d \in Usable(e, v) : Flaws[d].free /\ Flaws[d].vector = "NETWORK"}}
IsNear(e, A, v) == A \cap Placement(e, v) # {}
IsFar(e, A, u, v) == \E r \in Nodes \ {u, v} : Routed(e, r) \cap A # {} /\ Routed(e, r) \cap Placement(e, v) # {}

LEMMA WaysAre ==
  ASSUME NEW e, NEW A, NEW u, NEW v
  PROVE  Ways(e, A, u, v) = IF IsNear(e, A, v) THEN FromTheVlan(e, v)
                            ELSE IF IsFar(e, A, u, v) THEN ThroughARouter(e, v) ELSE {}
<1> DEFINE near == IsNear(e, A, v)
           far == IsFar(e, A, u, v)
           flaws == {c \in Usable(e, v) : Flaws[c].free}
           N == {Value(Flaws[c].complexity) : c \in {d \in flaws : Flaws[d].vector = "NETWORK" /\ (near \/ far)}}
           J == {Value(Flaws[c].complexity) : c \in {d \in flaws : Flaws[d].vector = "ADJACENT" /\ near}}
           M == IF near THEN Misconfigs(e, v) ELSE {}
<1>1. Ways(e, A, u, v) = N \cup J \cup M BY DEF Ways, IsNear, IsFar
<1> HIDE DEF near, far
<1>2. CASE near BY <1>1, <1>2 DEF FromTheVlan, near
<1>3. CASE ~near /\ far BY <1>1, <1>3 DEF ThroughARouter, near, far
<1>4. CASE ~near /\ ~far BY <1>1, <1>4 DEF near, far
<1> QED BY <1>2, <1>3, <1>4

LEMMA TakeoverIs ==
  ASSUME NEW e, NEW v
  PROVE  /\ Takeover(e, v, FALSE) = Max({0} \cup FromTheVlan(e, v))
         /\ Takeover(e, v, TRUE) = Max({0} \cup ThroughARouter(e, v))
<1> DEFINE x == {0} \cup Weaknesses(e, v, FALSE) \cup Misconfigs(e, v)
           y == {0} \cup Weaknesses(e, v, TRUE) \cup {}
<1>1. Takeover(e, v, FALSE) = Max(x) /\ Takeover(e, v, TRUE) = Max(y) BY DEF Takeover
<1>2. x = {0} \cup FromTheVlan(e, v) BY DEF Weaknesses, Qualifies, FromTheVlan
<1>3. y = {0} \cup ThroughARouter(e, v) BY DEF Weaknesses, Qualifies, ThroughARouter
<1> HIDE DEF x, y
<1> QED BY <1>1, <1>2, <1>3

LEMMA RouterIs ==
  ASSUME ScoringAssumption, NEW e, NEW A, NEW u, NEW v
  PROVE  Router(e, A, Placement(e, v), {u, v}) # 0 <=> IsFar(e, A, u, v)
<1> DEFINE B == Placement(e, v)
           X == {r \in Routers(e) \ {u, v} : Routed(e, r) \cap A # {} /\ Routed(e, r) \cap B # {}}
<1>1. Router(e, A, B, {u, v}) = IF X = {} THEN 0 ELSE Min(X) BY DEF Router
<1>2. IsFar(e, A, u, v) <=> X # {} BY DEF IsFar, Routers
<1>3. X \subseteq Nat \ {0} BY DEF ScoringAssumption, Routers
<1> HIDE DEF X, B
<1>4. X # {} => Min(X) \in X
  <2> SUFFICES ASSUME X # {} PROVE Min(X) \in X
    OBVIOUS
  <2>1. X \in SUBSET Nat BY <1>3
  <2>2. \E m \in X : \A n \in X : m <= n BY <2>1, LeastNatural
  <2> QED BY <2>2 DEF Min
<1> QED BY <1>1, <1>2, <1>3, <1>4 DEF B

LEMMA EdgeIsTheBestWay ==
  ASSUME ScoringAssumption, NEW e, WellKnown(e), NEW u, NEW v \in Nodes, u # v,
         NEW W, W = Ways(e, Membership(e, u), u, v)
  PROVE  /\ Edge(e, u, v) \in {0, 2, 6, 9} /\ (Edge(e, u, v) = 0 <=> W = {}) /\ (Edge(e, u, v) # 0 => Edge(e, u, v) \in W)
         /\ W \subseteq {2, 6, 9} /\ \A w \in W : w <= Edge(e, u, v)
         /\ W # {} => v \in Placed(e)
<1> DEFINE A == Membership(e, u)
           B == Placement(e, v)
           near == IsNear(e, A, v)
           far == IsFar(e, A, u, v)
           k == Edge(e, u, v)
<1>1. \A c \in Usable(e, v) : Value(Flaws[c].complexity) \in {2, 6, 9}
  BY ValueIs DEF WellKnown, ScoringAssumption
<1>2. Misconfigs(e, v) \subseteq {2, 6, 9} BY ValueIs DEF WellKnown, Misconfigs
<1>3. FromTheVlan(e, v) \in SUBSET {2, 6, 9} /\ ThroughARouter(e, v) \in SUBSET {2, 6, 9}
  BY <1>1, <1>2 DEF FromTheVlan, ThroughARouter
<1>4. W = IF near THEN FromTheVlan(e, v) ELSE IF far THEN ThroughARouter(e, v) ELSE {} BY WaysAre
<1>5. v \notin Placed(e) => ~near /\ ~far BY DEF Placed, IsNear, IsFar
<1>6. near <=> A \cap B # {} BY DEF IsNear
<1>7. Router(e, A, B, {u, v}) # 0 <=> far BY RouterIs
<1> DEFINE z == Router(e, A, B, {u, v})
           tf == Takeover(e, v, FALSE)
           tt == Takeover(e, v, TRUE)
<1>8. k = IF v \notin Placed(e) THEN 0 ELSE IF A \cap B # {} THEN tf ELSE IF z # 0 THEN tt ELSE 0
  BY DEF Edge
<1>9. tf = Max({0} \cup FromTheVlan(e, v)) /\ tt = Max({0} \cup ThroughARouter(e, v)) BY TakeoverIs
<1>10. z # 0 <=> far BY <1>7
<1> HIDE DEF A, B, near, far, k, z, tf, tt
<1>11. W \in SUBSET {2, 6, 9} BY <1>3, <1>4
<1>12. k = Max({0} \cup W) \/ (k = 0 /\ W = {})
  <2>1. CASE v \notin Placed(e) BY <1>4, <1>5, <1>8, <2>1
  <2>2. CASE v \in Placed(e) /\ near BY <1>4, <1>6, <1>8, <1>9, <2>2
  <2>3. CASE v \in Placed(e) /\ ~near /\ far BY <1>4, <1>6, <1>8, <1>9, <1>10, <2>3
  <2>4. CASE v \in Placed(e) /\ ~near /\ ~far BY <1>4, <1>6, <1>8, <1>10, <2>4
  <2> QED BY <2>1, <2>2, <2>3, <2>4
<1>13. k \in {0, 2, 6, 9} /\ (k = 0 <=> W = {}) /\ (k # 0 => k \in W) /\ \A w \in W : w <= k
  <2>1. CASE k = Max({0} \cup W) BY <1>11, <2>1, BestOfTenths
  <2>2. CASE k = 0 /\ W = {} BY <2>2
  <2> QED BY <1>12, <2>1, <2>2
<1>14. W # {} => v \in Placed(e) BY <1>4, <1>5
<1> QED BY <1>11, <1>13, <1>14 DEF k

-----------------------------------------------------------------------------
\* The paths of the engine and the places that can be held, a step at a time.

LEMMA GrowingIs ==
  ASSUME NEW edge, NEW s, Steps \in Nat
  PROVE  Growing(edge, s)[0] = {[path |-> <<s>>, likelihood |-> Scale]} /\ \A k \in 0..(Steps - 1) : Growing(edge, s)[k + 1] = Longer(edge, Growing(edge, s)[k])
<1> DEFINE base == {[path |-> <<s>>, likelihood |-> Scale]}
           next(X) == Longer(edge, X)
           IsAfter(f, m) == f = [k \in 0..m |-> IF k = 0 THEN base ELSE next(f[k - 1])]
           S == {m \in Nat : \E f : IsAfter(f, m)}
<1> HIDE DEF base, next
<1>1. 0 \in S
  <2>1. IsAfter([k \in 0..0 |-> base], 0) OBVIOUS
  <2> QED BY <2>1
<1>2. ASSUME NEW m \in Nat, m \in S PROVE m + 1 \in S
  <2>1. PICK f : IsAfter(f, m) BY <1>2
  <2> DEFINE g == [k \in 0..(m + 1) |-> IF k <= m THEN f[k] ELSE next(f[m])]
  <2>2. \A k \in 0..(m + 1) : g[k] = IF k = 0 THEN base ELSE next(g[k - 1])
    <3> TAKE k \in 0..(m + 1)
    <3>1. CASE k = 0 BY <2>1, <3>1
    <3>2. CASE k # 0 /\ k <= m
      <4>1. k \in 0..m /\ k - 1 \in 0..m BY <3>2
      <4>2. f[k] = next(f[k - 1]) BY <2>1, <3>2, <4>1
      <4>3. g[k] = f[k] /\ g[k - 1] = f[k - 1] BY <3>2, <4>1
      <4> QED BY <3>2, <4>2, <4>3
    <3>3. CASE k = m + 1 BY <3>3
    <3> QED BY <3>1, <3>2, <3>3
  <2>3. IsAfter(g, m + 1) BY <2>2
  <2> HIDE DEF IsAfter, g
  <2>4. \E h : IsAfter(h, m + 1) BY <2>3
  <2> QED BY <2>4
<1> HIDE DEF S
<1>3. Steps \in S BY <1>1, <1>2, ByNumbers
<1>4. PICK f : IsAfter(f, Steps) BY <1>3 DEF S
<1> DEFINE on[k \in 0..Steps] == IF k = 0 THEN base ELSE next(on[k - 1])
<1>5. IsAfter(on, Steps) BY <1>4
<1>6. Growing(edge, s) = on BY DEF Growing, base, next
<1> HIDE DEF on
<1>7. ASSUME NEW k \in 0..(Steps - 1) PROVE on[k + 1] = next(on[k])
  <2>1. k + 1 \in 0..Steps /\ k + 1 # 0 /\ (k + 1) - 1 = k OBVIOUS
  <2> QED BY <1>5, <2>1
<1>8. on[0] = base BY <1>5
<1> QED BY <1>6, <1>7, <1>8 DEF base, next

LEMMA HeldAfterIs ==
  ASSUME NEW e, NEW s, Steps \in Nat
  PROVE  HeldAfter(e, s)[0] = {<<s, Scale>>} /\ \A k \in 0..(Steps - 1) : HeldAfter(e, s)[k + 1] = HeldAfter(e, s)[k] \cup Further(e, s, HeldAfter(e, s)[k])
<1> DEFINE base == {<<s, Scale>>}
           next(X) == X \cup Further(e, s, X)
           IsAfter(f, m) == f = [k \in 0..m |-> IF k = 0 THEN base ELSE next(f[k - 1])]
           S == {m \in Nat : \E f : IsAfter(f, m)}
<1> HIDE DEF base, next
<1>1. 0 \in S
  <2>1. IsAfter([k \in 0..0 |-> base], 0) OBVIOUS
  <2> QED BY <2>1
<1>2. ASSUME NEW m \in Nat, m \in S PROVE m + 1 \in S
  <2>1. PICK f : IsAfter(f, m) BY <1>2
  <2> DEFINE g == [k \in 0..(m + 1) |-> IF k <= m THEN f[k] ELSE next(f[m])]
  <2>2. \A k \in 0..(m + 1) : g[k] = IF k = 0 THEN base ELSE next(g[k - 1])
    <3> TAKE k \in 0..(m + 1)
    <3>1. CASE k = 0 BY <2>1, <3>1
    <3>2. CASE k # 0 /\ k <= m
      <4>1. k \in 0..m /\ k - 1 \in 0..m BY <3>2
      <4>2. f[k] = next(f[k - 1]) BY <2>1, <3>2, <4>1
      <4>3. g[k] = f[k] /\ g[k - 1] = f[k - 1] BY <3>2, <4>1
      <4> QED BY <3>2, <4>2, <4>3
    <3>3. CASE k = m + 1 BY <3>3
    <3> QED BY <3>1, <3>2, <3>3
  <2>3. IsAfter(g, m + 1) BY <2>2
  <2> HIDE DEF IsAfter, g
  <2>4. \E h : IsAfter(h, m + 1) BY <2>3
  <2> QED BY <2>4
<1> HIDE DEF S
<1>3. Steps \in S BY <1>1, <1>2, ByNumbers
<1>4. PICK f : IsAfter(f, Steps) BY <1>3 DEF S
<1> DEFINE on[k \in 0..Steps] == IF k = 0 THEN base ELSE next(on[k - 1])
<1>5. IsAfter(on, Steps) BY <1>4
<1>6. HeldAfter(e, s) = on BY DEF HeldAfter, base, next
<1> HIDE DEF on
<1>7. ASSUME NEW k \in 0..(Steps - 1) PROVE on[k + 1] = next(on[k])
  <2>1. k + 1 \in 0..Steps /\ k + 1 # 0 /\ (k + 1) - 1 = k OBVIOUS
  <2> QED BY <1>5, <2>1
<1>8. on[0] = base BY <1>5
<1> QED BY <1>6, <1>7, <1>8 DEF base, next

\* A path of k steps from s: the start, then nodes, none twice, each placed.
IsPath(e, s, k, p) ==
  /\ p.path \in Seq(Nodes \cup {s}) /\ Len(p.path) = k + 1 /\ p.path[1] = s
  /\ \A i \in 2..(k + 1) : p.path[i] \in Nodes
  /\ \A i, j \in 1..(k + 1) : p.path[i] = p.path[j] => i = j
  /\ p.path[k + 1] \in Placed(e) \cup StartsOf(e)
  /\ p.likelihood \in Nat
LongerBy(edge, q, v) ==
  [path |-> Append(q.path, v), likelihood |-> (q.likelihood * edge[Last(q.path)][v]) \div 10]
TakesOver(edge, q, v) == v \in Nodes \ ToSet(q.path) /\ edge[Last(q.path)][v] > 0

LEMMA LongerIs ==
  ASSUME NEW edge, NEW P
  PROVE  \A p : p \in Longer(edge, P) <=> \E q \in P, v \in Nodes : TakesOver(edge, q, v) /\ p = LongerBy(edge, q, v)
<1> DEFINE V(q) == {w \in Nodes \ ToSet(q.path) : edge[Last(q.path)][w] > 0}
           L(q) == {LongerBy(edge, q, v) : v \in V(q)}
<1>1. Longer(edge, P) = UNION {L(q) : q \in P} BY DEF Longer, LongerBy
<1>2. \A q, v : v \in V(q) <=> v \in Nodes /\ TakesOver(edge, q, v) BY DEF TakesOver
<1>3. \A q, p : p \in L(q) <=> \E v \in V(q) : p = LongerBy(edge, q, v) OBVIOUS
<1> HIDE DEF V, L
<1> QED BY <1>1, <1>2, <1>3

LEMMA FurtherIs ==
  ASSUME NEW e, NEW s, NEW H
  PROVE  \A x : x \in Further(e, s, H) <=>
           \E h \in H : \E v \in Nodes \ {s, h[1]} : \E w \in Ways(e, Membership(e, h[1]), h[1], v) :
              x = <<v, (h[2] * w) \div 10>>
<1> DEFINE F(h, v) == {<<v, (h[2] * w) \div 10>> : w \in Ways(e, Membership(e, h[1]), h[1], v)}
           D(h) == UNION {F(h, v) : v \in Nodes \ {s, h[1]}}
<1>1. Further(e, s, H) = UNION {D(h) : h \in H} BY DEF Further
<1>2. \A h, v, x : x \in F(h, v) <=> \E w \in Ways(e, Membership(e, h[1]), h[1], v) : x = <<v, (h[2] * w) \div 10>>
  OBVIOUS
<1> HIDE DEF F
<1>3. \A h, x : x \in D(h) <=> \E v \in Nodes \ {s, h[1]} : x \in F(h, v) OBVIOUS
<1> HIDE DEF D
<1> QED BY <1>1, <1>2, <1>3

LEMMA TenthsOf ==
  /\ \A l \in Nat, w \in {2, 6, 9} : (l * w) \div 10 \in Nat /\ (l * w) \div 10 <= l
  /\ \A l, m \in Nat, w, x \in {2, 6, 9} : l <= m /\ w <= x => (l * w) \div 10 <= (m * x) \div 10
<1>1. \A l \in Nat, w \in {2, 6, 9} : (l * w) \div 10 \in Nat /\ (l * w) \div 10 <= l
  OBVIOUS
<1>2. \A a, b \in Nat : a <= b => a \div 10 <= b \div 10
  OBVIOUS
<1>3. ASSUME NEW l \in Nat, NEW m \in Nat, NEW w \in {2, 6, 9}, NEW x \in {2, 6, 9}, l <= m, w <= x
      PROVE  (l * w) \div 10 <= (m * x) \div 10
  <2> DEFINE a == l * w
             b == m * x
  <2>1. a \in Nat /\ b \in Nat OBVIOUS
  <2>2. a <= b
    <3>1. CASE w = 2 /\ x = 2 BY <1>3, <3>1
    <3>2. CASE w = 2 /\ x = 6 BY <1>3, <3>2
    <3>3. CASE w = 2 /\ x = 9 BY <1>3, <3>3
    <3>4. CASE w = 6 /\ x = 6 BY <1>3, <3>4
    <3>5. CASE w = 6 /\ x = 9 BY <1>3, <3>5
    <3>6. CASE w = 9 /\ x = 9 BY <1>3, <3>6
    <3> QED BY <1>3, <3>1, <3>2, <3>3, <3>4, <3>5, <3>6
  <2> HIDE DEF a, b
  <2>3. a \div 10 <= b \div 10 BY <1>2, <2>1, <2>2
  <2> QED BY <2>3 DEF a, b
<1> QED BY <1>1, <1>3

LEMMA EdgesOfTheEngine ==
  ASSUME NEW e, NEW edge, edge = Engine(e).edge
  PROVE  \A u \in Placed(e) \cup StartsOf(e), v \in Nodes : edge[u][v] = Edge(e, u, v)
BY DEF Engine

\* A step of the engine is one an attacker can make, and the next place is one to go on from.
GoesOn(e, s, k, q, v, p) ==
  /\ IsPath(e, s, k + 1, p) /\ p.likelihood <= q.likelihood
  /\ p.path[k + 2] = v /\ \A i \in 1..(k + 1) : p.path[i] = q.path[i]
  /\ \E w \in Ways(e, Membership(e, q.path[k + 1]), q.path[k + 1], v) : p.likelihood = (q.likelihood * w) \div 10
  /\ v # s /\ v # q.path[k + 1]

LEMMA OneStepFurther ==
  ASSUME ScoringAssumption, NEW e, WellKnown(e), NEW edge, edge = Engine(e).edge, NEW s, NEW k \in Nat,
         NEW q, IsPath(e, s, k, q), NEW v \in Nodes, TakesOver(edge, q, v), NEW p, p = LongerBy(edge, q, v)
  PROVE  GoesOn(e, s, k, q, v, p)
<1> DEFINE u == q.path[k + 1]
           W == Ways(e, Membership(e, u), u, v)
           x == Edge(e, u, v)
<1>1. /\ q.path \in Seq(Nodes \cup {s}) /\ Len(q.path) = k + 1 /\ q.path[1] = s
      /\ \A i \in 2..(k + 1) : q.path[i] \in Nodes
      /\ \A i, j \in 1..(k + 1) : q.path[i] = q.path[j] => i = j
      /\ u \in Placed(e) \cup StartsOf(e) /\ q.likelihood \in Nat
  BY DEF IsPath
<1>2. Last(q.path) = u BY <1>1 DEF Last
<1>3. edge[u][v] = x BY <1>1, EdgesOfTheEngine
<1>4. DOMAIN q.path = 1..(k + 1) BY <1>1
<1>5. \A i \in 1..(k + 1) : q.path[i] # v BY <1>4 DEF TakesOver, ToSet
<1>6. v # s /\ v # u BY <1>1, <1>5
<1> HIDE DEF u
<1>7. /\ x \in {0, 2, 6, 9} /\ (x = 0 <=> W = {}) /\ (x # 0 => x \in W)
      /\ W \subseteq {2, 6, 9} /\ (W # {} => v \in Placed(e))
  BY <1>6, EdgeIsTheBestWay
<1>8. x > 0 BY <1>2, <1>3 DEF TakesOver
<1>9. x \in W /\ v \in Placed(e) /\ x \in {2, 6, 9} BY <1>7, <1>8
<1>10. p.path = Append(q.path, v) /\ p.likelihood = (q.likelihood * x) \div 10 BY <1>2, <1>3 DEF LongerBy
<1> HIDE DEF x, W
<1>11. p.likelihood \in Nat /\ p.likelihood <= q.likelihood BY <1>1, <1>9, <1>10, TenthsOf
<1>12. /\ p.path \in Seq(Nodes \cup {s}) /\ Len(p.path) = k + 2 /\ p.path[k + 2] = v
       /\ \A i \in 1..(k + 1) : p.path[i] = q.path[i]
  BY <1>1, <1>10
<1>13. IsPath(e, s, k + 1, p)
  <2>1. \A i \in 1..(k + 1) : p.path[i] = q.path[i] BY <1>12
  <2>2. \A i \in 2..(k + 1) : q.path[i] \in Nodes BY <1>1
  <2>3. Len(p.path) = (k + 1) + 1 /\ p.path[1] = s
    <3>1. 1 \in 1..(k + 1) OBVIOUS
    <3>2. p.path[1] = q.path[1] BY <2>1, <3>1
    <3>3. Len(p.path) = k + 2 BY <1>12
    <3> QED BY <1>1, <3>2, <3>3
  <2>4. \A i \in 2..((k + 1) + 1) : p.path[i] \in Nodes
    <3> TAKE i \in 2..((k + 1) + 1)
    <3>1. CASE i = k + 2 BY <1>12, <3>1
    <3>2. CASE i # k + 2
      <4>1. i \in 2..(k + 1) /\ i \in 1..(k + 1) BY <3>2
      <4> QED BY <2>1, <2>2, <4>1
    <3> QED BY <3>1, <3>2
  <2>5. \A i, j \in 1..((k + 1) + 1) : p.path[i] = p.path[j] => i = j
    <3> SUFFICES ASSUME NEW i \in 1..((k + 1) + 1), NEW j \in 1..((k + 1) + 1), p.path[i] = p.path[j] PROVE i = j
      OBVIOUS
    <3>1. \A m \in 1..((k + 1) + 1) : m = k + 2 \/ m \in 1..(k + 1) OBVIOUS
    <3>2. CASE i = k + 2 /\ j = k + 2 BY <3>2
    <3>3. CASE i = k + 2 /\ j \in 1..(k + 1) BY <1>5, <1>12, <3>3
    <3>4. CASE i \in 1..(k + 1) /\ j = k + 2 BY <1>5, <1>12, <3>4
    <3>5. CASE i \in 1..(k + 1) /\ j \in 1..(k + 1) BY <1>1, <1>12, <3>5
    <3> QED BY <3>1, <3>2, <3>3, <3>4, <3>5
  <2>6. p.path[(k + 1) + 1] \in Placed(e) \cup StartsOf(e) BY <1>9, <1>12
  <2> QED BY <1>11, <1>12, <2>3, <2>4, <2>5, <2>6 DEF IsPath
<1> QED BY <1>6, <1>9, <1>10, <1>11, <1>12, <1>13 DEF u, W, GoesOn

LEMMA PathsAreShort ==
  ASSUME ScoringAssumption, NEW e, NEW s, NEW k \in Nat, NEW p, IsPath(e, s, k, p)
  PROVE  k <= Steps
<1> DEFINE D == 1..k
           f == [i \in D |-> p.path[i + 1]]
<1>1. IsFiniteSet(D) /\ Cardinality(D) = k
  <2>1. 1 \in Int /\ k \in Int OBVIOUS
  <2> QED BY <2>1, FS_Interval
<1>2. \A i \in D : i + 1 \in 2..(k + 1) /\ i + 1 \in 1..(k + 1) OBVIOUS
<1>3. f \in [D -> Nodes] BY <1>2 DEF IsPath
<1>4. \A i, j \in D : f[i] = f[j] => i = j
  <2> SUFFICES ASSUME NEW i \in D, NEW j \in D, f[i] = f[j] PROVE i = j
    OBVIOUS
  <2>1. p.path[i + 1] = p.path[j + 1] OBVIOUS
  <2>2. i + 1 = j + 1 BY <1>2, <2>1 DEF IsPath
  <2> QED BY <2>2
<1>5. IsFiniteSet(Nodes) BY DEF ScoringAssumption
<1>6. f \in Injection(D, Nodes)
  <2> HIDE DEF f, D
  <2> QED BY <1>3, <1>4 DEF Injection, IsInjective
<1>7. Cardinality(D) <= Cardinality(Nodes)
  <2> HIDE DEF f, D
  <2> QED BY <1>5, <1>6, FS_Injection
<1> QED BY <1>1, <1>7 DEF Steps

LEMMA StepsIsANumber == ScoringAssumption => Steps \in Nat
BY FS_CardinalityType DEF ScoringAssumption, Steps

\* On a path, every place was reached by one of the paths before, as likely or more.
ComesThrough(edge, s, k, p) ==
  \A i \in 1..(k + 1) :
    \E q \in Growing(edge, s)[i - 1] : q.path[i] = p.path[i] /\ q.likelihood \in Nat /\ p.likelihood <= q.likelihood
IsGrown(e, edge, s, k) ==
  \A p \in Growing(edge, s)[k] :
    /\ IsPath(e, s, k, p) /\ ComesThrough(edge, s, k, p)
    /\ <<p.path[k + 1], p.likelihood>> \in HeldAfter(e, s)[k]

LEMMA StartIsGrown ==
  ASSUME ScoringAssumption, NEW e, NEW edge, NEW s \in StartsOf(e)
  PROVE  IsGrown(e, edge, s, 0)
<1> DEFINE p0 == [path |-> <<s>>, likelihood |-> Scale]
<1>1. Steps \in Nat BY StepsIsANumber
<1>2. Growing(edge, s)[0] = {p0} BY <1>1, GrowingIs
<1>3. HeldAfter(e, s)[0] = {<<s, Scale>>} BY <1>1, HeldAfterIs
<1>4. p0.path = <<s>> /\ p0.likelihood = Scale OBVIOUS
<1>5. <<s>> \in Seq(Nodes \cup {s}) /\ Len(<<s>>) = 1 /\ <<s>>[1] = s OBVIOUS
<1> HIDE DEF p0
<1>6. IsPath(e, s, 0, p0) BY <1>4, <1>5 DEF IsPath, ScoringAssumption
<1>7. ComesThrough(edge, s, 0, p0)
  <2> SUFFICES ASSUME NEW i \in 1..1
               PROVE  \E q \in Growing(edge, s)[i - 1] : q.path[i] = p0.path[i] /\ q.likelihood \in Nat /\ p0.likelihood <= q.likelihood
    BY DEF ComesThrough
  <2>1. i = 1 /\ p0 \in Growing(edge, s)[i - 1] BY <1>2
  <2>2. p0.likelihood \in Nat /\ p0.likelihood <= p0.likelihood BY <1>6 DEF IsPath
  <2> QED BY <2>1, <2>2
<1>8. <<p0.path[0 + 1], p0.likelihood>> \in HeldAfter(e, s)[0] BY <1>3, <1>4, <1>5
<1> QED BY <1>2, <1>6, <1>7, <1>8 DEF IsGrown

LEMMA GrowsOn ==
  ASSUME ScoringAssumption, NEW e, WellKnown(e), NEW edge, edge = Engine(e).edge, NEW s,
         NEW k \in Nat, k < Steps, IsGrown(e, edge, s, k)
  PROVE  IsGrown(e, edge, s, k + 1)
<1> SUFFICES ASSUME NEW p \in Growing(edge, s)[k + 1]
             PROVE  /\ IsPath(e, s, k + 1, p) /\ ComesThrough(edge, s, k + 1, p)
                    /\ <<p.path[(k + 1) + 1], p.likelihood>> \in HeldAfter(e, s)[k + 1]
  BY DEF IsGrown
<1>1. Steps \in Nat /\ k \in 0..(Steps - 1) BY StepsIsANumber
<1>2. Growing(edge, s)[k + 1] = Longer(edge, Growing(edge, s)[k]) BY <1>1, GrowingIs
<1>3. HeldAfter(e, s)[k + 1] = HeldAfter(e, s)[k] \cup Further(e, s, HeldAfter(e, s)[k]) BY <1>1, HeldAfterIs
<1>4. PICK q \in Growing(edge, s)[k], v \in Nodes : TakesOver(edge, q, v) /\ p = LongerBy(edge, q, v)
  BY <1>2, LongerIs
<1>5. IsPath(e, s, k, q) /\ ComesThrough(edge, s, k, q) /\ <<q.path[k + 1], q.likelihood>> \in HeldAfter(e, s)[k]
  BY <1>4 DEF IsGrown
<1> DEFINE u == q.path[k + 1]
<1>6. /\ IsPath(e, s, k + 1, p) /\ p.likelihood <= q.likelihood
      /\ p.path[k + 2] = v /\ \A i \in 1..(k + 1) : p.path[i] = q.path[i]
      /\ \E w \in Ways(e, Membership(e, u), u, v) : p.likelihood = (q.likelihood * w) \div 10
      /\ v # s /\ v # u
  <2>1. GoesOn(e, s, k, q, v, p) BY <1>4, <1>5, OneStepFurther
  <2> QED BY <2>1 DEF GoesOn
<1> HIDE DEF u
<1>7. <<v, p.likelihood>> \in Further(e, s, HeldAfter(e, s)[k])
  <2> DEFINE h == <<u, q.likelihood>>
  <2>1. h[1] = u /\ h[2] = q.likelihood OBVIOUS
  <2>2. h \in HeldAfter(e, s)[k] BY <1>5 DEF u
  <2>3. PICK w \in Ways(e, Membership(e, u), u, v) : p.likelihood = (q.likelihood * w) \div 10 BY <1>6
  <2> HIDE DEF h
  <2>4. v \in Nodes \ {s, h[1]} BY <1>6, <2>1
  <2>5. w \in Ways(e, Membership(e, h[1]), h[1], v) /\ <<v, p.likelihood>> = <<v, (h[2] * w) \div 10>> BY <2>1, <2>3
  <2> QED BY <2>2, <2>4, <2>5, FurtherIs
<1>8. (k + 1) + 1 = k + 2 /\ \A i \in 1..((k + 1) + 1) : i \in 1..(k + 1) \/ i = k + 2 OBVIOUS
<1>9. ComesThrough(edge, s, k + 1, p)
  <2> SUFFICES ASSUME NEW i \in 1..((k + 1) + 1)
               PROVE  \E x \in Growing(edge, s)[i - 1] : x.path[i] = p.path[i] /\ x.likelihood \in Nat /\ p.likelihood <= x.likelihood
    BY DEF ComesThrough
  <2>1. CASE i = k + 2
    <3>1. i - 1 = k + 1 BY <2>1
    <3>2. p.likelihood \in Nat /\ p.likelihood <= p.likelihood BY <1>6 DEF IsPath
    <3> QED BY <3>1, <3>2
  <2>2. CASE i \in 1..(k + 1)
    <3>1. PICK x \in Growing(edge, s)[i - 1] : x.path[i] = q.path[i] /\ x.likelihood \in Nat /\ q.likelihood <= x.likelihood
      BY <1>5, <2>2 DEF ComesThrough
    <3>2. x.path[i] = p.path[i] BY <1>6, <2>2, <3>1
    <3>3. p.likelihood \in Nat /\ q.likelihood \in Nat BY <1>5, <1>6 DEF IsPath
    <3>4. p.likelihood <= x.likelihood BY <1>6, <3>1, <3>3
    <3> QED BY <3>1, <3>2, <3>4
  <2> QED BY <1>8, <2>1, <2>2
<1>10. <<p.path[(k + 1) + 1], p.likelihood>> \in HeldAfter(e, s)[k + 1] BY <1>3, <1>6, <1>7, <1>8
<1> QED BY <1>6, <1>9, <1>10

\* Whatever the engine's paths reach can be held, with their likelihood.
LEMMA PathsCanBeHeld ==
  ASSUME ScoringAssumption, NEW e, WellKnown(e), NEW edge, edge = Engine(e).edge, NEW s \in StartsOf(e)
  PROVE  \A k \in 0..Steps : IsGrown(e, edge, s, k)
<1> DEFINE S == {k \in Nat : k <= Steps => IsGrown(e, edge, s, k)}
<1>1. Steps \in Nat BY StepsIsANumber
<1>2. 0 \in S BY StartIsGrown
<1>3. ASSUME NEW k \in Nat, k \in S PROVE k + 1 \in S
  <2> SUFFICES ASSUME k + 1 <= Steps PROVE IsGrown(e, edge, s, k + 1)
    OBVIOUS
  <2>1. k < Steps /\ k <= Steps BY <1>1
  <2>2. IsGrown(e, edge, s, k) BY <1>3, <2>1
  <2> QED BY <2>1, <2>2, GrowsOn
<1> HIDE DEF S
<1>4. Nat \subseteq S BY <1>2, <1>3, ByNumbers
<1> QED BY <1>1, <1>4 DEF S

LEMMA HeldStaysHeld ==
  ASSUME ScoringAssumption, NEW e, NEW s
  PROVE  \A k \in 0..Steps : HeldAfter(e, s)[k] \subseteq Held(e, s)
<1> DEFINE S == {j \in Nat : j <= Steps => HeldAfter(e, s)[Steps - j] \subseteq Held(e, s)}
<1>1. Steps \in Nat BY StepsIsANumber
<1>2. 0 \in S BY <1>1 DEF Held
<1>3. ASSUME NEW j \in Nat, j \in S PROVE j + 1 \in S
  <2> SUFFICES ASSUME j + 1 <= Steps PROVE HeldAfter(e, s)[Steps - (j + 1)] \subseteq Held(e, s)
    OBVIOUS
  <2> DEFINE k == Steps - (j + 1)
  <2>1. k \in 0..(Steps - 1) /\ Steps - j = k + 1 BY <1>1
  <2>2. HeldAfter(e, s)[Steps - j] \subseteq Held(e, s) BY <1>1, <1>3
  <2> HIDE DEF k
  <2>3. HeldAfter(e, s)[k] \subseteq HeldAfter(e, s)[k + 1] BY <1>1, <2>1, HeldAfterIs
  <2> QED BY <2>1, <2>2, <2>3 DEF k
<1> HIDE DEF S
<1>4. Nat \subseteq S BY <1>2, <1>3, ByNumbers
<1>5. ASSUME NEW k \in 0..Steps PROVE HeldAfter(e, s)[k] \subseteq Held(e, s)
  <2>1. Steps - k \in Nat /\ Steps - k <= Steps /\ Steps - (Steps - k) = k BY <1>1
  <2>2. Steps - k \in S BY <1>4, <2>1
  <2> QED BY <2>1, <2>2 DEF S
<1> QED BY <1>5

\* Some path of the engine reaches what can be held, at least as likely.
IsReached(edge, s, h) ==
  /\ h[2] \in Nat
  /\ \E m \in 0..Steps : \E p \in Growing(edge, s)[m] : p.path[m + 1] = h[1] /\ h[2] <= p.likelihood
AllReached(e, edge, s, k) == \A h \in HeldAfter(e, s)[k] : IsReached(edge, s, h)

LEMMA ReachesFurther ==
  ASSUME ScoringAssumption, NEW e, WellKnown(e), NEW edge, edge = Engine(e).edge, NEW s \in StartsOf(e),
         NEW h, IsReached(edge, s, h), NEW v \in Nodes \ {s, h[1]},
         NEW w \in Ways(e, Membership(e, h[1]), h[1], v), NEW l, l = (h[2] * w) \div 10
  PROVE  IsReached(edge, s, <<v, l>>)
<1> DEFINE u == h[1]
           W == Ways(e, Membership(e, u), u, v)
           x == Edge(e, u, v)
<1>1. Steps \in Nat BY StepsIsANumber
<1>2. PICK m \in 0..Steps : \E p \in Growing(edge, s)[m] : p.path[m + 1] = u /\ h[2] <= p.likelihood BY DEF IsReached
<1>3. PICK p \in Growing(edge, s)[m] : p.path[m + 1] = u /\ h[2] <= p.likelihood BY <1>2
<1>4. IsPath(e, s, m, p) /\ ComesThrough(edge, s, m, p) BY PathsCanBeHeld DEF IsGrown
<1>5. /\ p.path \in Seq(Nodes \cup {s}) /\ Len(p.path) = m + 1 /\ p.path[1] = s
      /\ u \in Placed(e) \cup StartsOf(e) /\ p.likelihood \in Nat
  BY <1>3, <1>4 DEF IsPath
<1>6. u # v /\ v # s OBVIOUS
<1> HIDE DEF u
<1>7. x \in {0, 2, 6, 9} /\ (x = 0 <=> W = {}) /\ W \subseteq {2, 6, 9} /\ \A y \in W : y <= x
  BY <1>6, EdgeIsTheBestWay
<1>8. w \in W BY DEF u
<1>9. w \in {2, 6, 9} /\ x \in {2, 6, 9} /\ w <= x /\ x > 0 BY <1>7, <1>8
<1> HIDE DEF W
<1>10. edge[u][v] = x BY <1>5, EdgesOfTheEngine
<1> HIDE DEF x
<1>11. h[2] \in Nat BY DEF IsReached
<1>12. l \in Nat /\ l <= h[2] BY <1>9, <1>11, TenthsOf
<1>13. l <= (p.likelihood * x) \div 10 BY <1>3, <1>5, <1>9, <1>11, TenthsOf
<1>14. <<v, l>>[1] = v /\ <<v, l>>[2] = l OBVIOUS
<1> SUFFICES \E k \in 0..Steps : \E q \in Growing(edge, s)[k] : q.path[k + 1] = v /\ l <= q.likelihood
  BY <1>12, <1>14 DEF IsReached
<1>15. CASE v \in ToSet(p.path)
  <2>1. DOMAIN p.path = 1..(m + 1) BY <1>5
  <2>2. PICK i \in 1..(m + 1) : p.path[i] = v BY <1>15, <2>1 DEF ToSet
  <2>3. i # 1 BY <1>5, <1>6, <2>2
  <2>4. PICK q \in Growing(edge, s)[i - 1] : q.path[i] = p.path[i] /\ q.likelihood \in Nat /\ p.likelihood <= q.likelihood
    BY <1>4, <2>2 DEF ComesThrough
  <2>5. i - 1 \in 0..Steps /\ (i - 1) + 1 = i BY <1>1, <2>2
  <2>6. l <= q.likelihood BY <1>3, <1>5, <1>11, <1>12, <2>4
  <2> QED BY <2>2, <2>4, <2>5, <2>6
<1>16. CASE v \notin ToSet(p.path)
  <2> DEFINE q == LongerBy(edge, p, v)
  <2>1. Last(p.path) = u BY <1>3, <1>5 DEF Last
  <2>2. TakesOver(edge, p, v) BY <1>9, <1>10, <1>16, <2>1 DEF TakesOver
  <2>3. q.likelihood = (p.likelihood * x) \div 10 BY <1>10, <2>1 DEF LongerBy
  <2> HIDE DEF q
  <2>4. GoesOn(e, s, m, p, v, q)
    <3>1. m \in Nat /\ v \in Nodes OBVIOUS
    <3>2. q = LongerBy(edge, p, v) BY DEF q
    <3> QED BY <1>4, <2>2, <3>1, <3>2, OneStepFurther
  <2>5. IsPath(e, s, m + 1, q) /\ q.path[m + 2] = v BY <2>4 DEF GoesOn
  <2>6. m + 1 <= Steps
    <3>1. m + 1 \in Nat OBVIOUS
    <3> QED BY <2>5, <3>1, PathsAreShort
  <2>7. q \in Growing(edge, s)[m + 1]
    <3>1. m \in 0..(Steps - 1) BY <1>1, <2>6
    <3>2. Growing(edge, s)[m + 1] = Longer(edge, Growing(edge, s)[m]) BY <1>1, <3>1, GrowingIs
    <3> QED BY <1>3, <2>2, <3>2, LongerIs DEF q
  <2>8. m + 1 \in 0..Steps /\ (m + 1) + 1 = m + 2 BY <1>1, <2>6
  <2> QED BY <1>13, <2>3, <2>5, <2>7, <2>8
<1> QED BY <1>15, <1>16

LEMMA HeldIsReached ==
  ASSUME ScoringAssumption, NEW e, WellKnown(e), NEW edge, edge = Engine(e).edge, NEW s \in StartsOf(e)
  PROVE  \A h \in Held(e, s) : IsReached(edge, s, h)
<1> DEFINE S == {k \in Nat : k <= Steps => AllReached(e, edge, s, k)}
<1>1. Steps \in Nat BY StepsIsANumber
<1>2. 0 \in S
  <2> DEFINE h == <<s, Scale>>
             p0 == [path |-> <<s>>, likelihood |-> Scale]
  <2>1. HeldAfter(e, s)[0] = {h} /\ Growing(edge, s)[0] = {p0} BY <1>1, HeldAfterIs, GrowingIs
  <2>2. h[1] = s /\ h[2] = Scale /\ p0.path[0 + 1] = s /\ p0.likelihood = Scale OBVIOUS
  <2>3. Scale \in Nat /\ 0 \in 0..Steps BY <1>1 DEF ScoringAssumption
  <2> HIDE DEF h, p0
  <2>4. h[2] <= p0.likelihood BY <2>2, <2>3
  <2>5. p0 \in Growing(edge, s)[0] /\ p0.path[0 + 1] = h[1] BY <2>1, <2>2
  <2>6. IsReached(edge, s, h) BY <2>2, <2>3, <2>4, <2>5 DEF IsReached
  <2> QED BY <2>1, <2>6 DEF AllReached
<1>3. ASSUME NEW k \in Nat, k \in S PROVE k + 1 \in S
  <2> SUFFICES ASSUME k + 1 <= Steps, NEW h \in HeldAfter(e, s)[k + 1] PROVE IsReached(edge, s, h)
    BY DEF AllReached
  <2>1. k \in 0..(Steps - 1) /\ k <= Steps BY <1>1
  <2>2. AllReached(e, edge, s, k) BY <1>3, <2>1
  <2>3. HeldAfter(e, s)[k + 1] = HeldAfter(e, s)[k] \cup Further(e, s, HeldAfter(e, s)[k]) BY <1>1, <2>1, HeldAfterIs
  <2>4. CASE h \in HeldAfter(e, s)[k] BY <2>2, <2>4 DEF AllReached
  <2>5. CASE h \in Further(e, s, HeldAfter(e, s)[k])
    <3>1. PICK x \in HeldAfter(e, s)[k] : \E v \in Nodes \ {s, x[1]} : \E w \in Ways(e, Membership(e, x[1]), x[1], v) :
            h = <<v, (x[2] * w) \div 10>>
      BY <2>5, FurtherIs
    <3>2. PICK v \in Nodes \ {s, x[1]} : \E w \in Ways(e, Membership(e, x[1]), x[1], v) : h = <<v, (x[2] * w) \div 10>>
      BY <3>1
    <3>3. PICK w \in Ways(e, Membership(e, x[1]), x[1], v) : h = <<v, (x[2] * w) \div 10>> BY <3>2
    <3>4. IsReached(edge, s, x) BY <2>2 DEF AllReached
    <3> QED BY <3>3, <3>4, ReachesFurther
  <2> QED BY <2>3, <2>4, <2>5
<1> HIDE DEF S
<1>4. Nat \subseteq S BY <1>2, <1>3, ByNumbers
<1>5. Steps \in S BY <1>1, <1>4
<1> QED BY <1>1, <1>5 DEF S, AllReached, Held

-----------------------------------------------------------------------------
\* The route the engine takes is as likely as the best that can be held.

LEMMA GreatestNatural ==
  ASSUME NEW S \in SUBSET Nat, S # {}, NEW b \in Nat, \A x \in S : x <= b
  PROVE  /\ Max(S) \in S /\ \A x \in S : x <= Max(S)
<1> DEFINE T == {y \in Nat : b - y \in S}
<1>1. T # {}
  <2>1. PICK x \in S : TRUE OBVIOUS
  <2>2. b - x \in Nat /\ b - (b - x) = x BY <2>1
  <2> QED BY <2>2
<1>2. PICK m \in T : \A y \in T : m <= y
  <2>1. T \in SUBSET Nat OBVIOUS
  <2> HIDE DEF T
  <2> QED BY <1>1, <2>1, LeastNatural
<1>3. b - m \in S /\ m \in Nat BY <1>2
<1>4. \A x \in S : x <= b - m
  <2> SUFFICES ASSUME NEW x \in S PROVE x <= b - m
    OBVIOUS
  <2>1. b - x \in Nat /\ b - (b - x) = x OBVIOUS
  <2>2. b - x \in T BY <2>1
  <2>3. m <= b - x BY <1>2, <2>2
  <2> QED BY <1>3, <2>3
<1>5. \A x \in S : b - m >= x BY <1>3, <1>4
<1>6. Max(S) \in S /\ \A y \in S : Max(S) >= y BY <1>3, <1>5 DEF Max
<1> QED BY <1>6

\* Paths of the engine to t: every likelihood is that of a place held, and each place held has one as likely.
PathsTo(edge, s, t) == {p \in Paths(edge, s) : Last(p.path) = t}

LEMMA PathsToAre ==
  ASSUME ScoringAssumption, NEW e, WellKnown(e), NEW edge, edge = Engine(e).edge, NEW s \in StartsOf(e),
         NEW t \in Nodes, t # s
  PROVE  /\ \A p \in PathsTo(edge, s, t) :
              /\ <<t, p.likelihood>> \in Held(e, s) /\ p.likelihood \in 0..Scale
              /\ \E k \in 0..Steps : IsPath(e, s, k, p)
         /\ \A h \in Held(e, s) : h[2] \in Nat
         /\ \A h \in Held(e, s) : h[1] = t => \E p \in PathsTo(edge, s, t) : h[2] <= p.likelihood
<1>1. Steps \in Nat BY StepsIsANumber
<1>2. \A k \in 0..Steps : IsGrown(e, edge, s, k) BY PathsCanBeHeld
<1>3. ASSUME NEW p, NEW k \in 0..Steps, p \in Growing(edge, s)[k]
      PROVE  /\ IsPath(e, s, k, p) /\ Last(p.path) = p.path[k + 1]
             /\ <<Last(p.path), p.likelihood>> \in Held(e, s)
  <2>1. IsPath(e, s, k, p) /\ <<p.path[k + 1], p.likelihood>> \in HeldAfter(e, s)[k] BY <1>2, <1>3 DEF IsGrown
  <2>2. Last(p.path) = p.path[k + 1] BY <2>1 DEF IsPath, Last
  <2>3. HeldAfter(e, s)[k] \subseteq Held(e, s) BY HeldStaysHeld
  <2> QED BY <2>1, <2>2, <2>3
<1>4. \A p : p \in Paths(edge, s) <=> \E k \in 1..Steps : p \in Growing(edge, s)[k] BY DEF Paths
<1>5. ASSUME NEW p \in PathsTo(edge, s, t)
      PROVE  /\ <<t, p.likelihood>> \in Held(e, s) /\ p.likelihood \in 0..Scale
             /\ \E k \in 0..Steps : IsPath(e, s, k, p)
  <2>1. PICK k \in 1..Steps : p \in Growing(edge, s)[k] BY <1>4 DEF PathsTo
  <2>2. k \in 0..Steps /\ Last(p.path) = t BY <2>1 DEF PathsTo
  <2>3. IsPath(e, s, k, p) /\ <<t, p.likelihood>> \in Held(e, s) BY <1>3, <2>1, <2>2
  <2>4. ComesThrough(edge, s, k, p) BY <1>2, <2>1, <2>2 DEF IsGrown
  <2>5. PICK q \in Growing(edge, s)[1 - 1] : p.likelihood <= q.likelihood
    <3>1. 1 \in 1..(k + 1) OBVIOUS
    <3> QED BY <2>4, <3>1 DEF ComesThrough
  <2>6. q.likelihood = Scale
    <3>1. 1 - 1 = 0 OBVIOUS
    <3>2. Growing(edge, s)[0] = {[path |-> <<s>>, likelihood |-> Scale]} BY <1>1, GrowingIs
    <3> QED BY <2>5, <3>1, <3>2
  <2>7. p.likelihood \in 0..Scale BY <2>3, <2>5, <2>6 DEF IsPath, ScoringAssumption
  <2> QED BY <2>2, <2>3, <2>7
<1>6. \A h \in Held(e, s) : IsReached(edge, s, h) BY HeldIsReached
<1>7. ASSUME NEW h \in Held(e, s), h[1] = t
      PROVE  \E p \in PathsTo(edge, s, t) : h[2] <= p.likelihood
  <2>1. PICK m \in 0..Steps : \E p \in Growing(edge, s)[m] : p.path[m + 1] = h[1] /\ h[2] <= p.likelihood
    BY <1>6 DEF IsReached
  <2>2. PICK p \in Growing(edge, s)[m] : p.path[m + 1] = h[1] /\ h[2] <= p.likelihood BY <2>1
  <2>3. IsPath(e, s, m, p) /\ Last(p.path) = t BY <1>3, <1>7, <2>2
  <2>4. m # 0 BY <1>7, <2>2, <2>3 DEF IsPath
  <2>5. m \in 1..Steps BY <2>4
  <2> QED BY <1>4, <2>2, <2>3, <2>5 DEF PathsTo
<1> QED BY <1>5, <1>6, <1>7 DEF IsReached

LEMMA FiniteHasItsMax ==
  ASSUME NEW S \in SUBSET Int, S # {}, IsFiniteSet(S)
  PROVE  /\ Max(S) \in S /\ \A x \in S : x <= Max(S)
<1> DEFINE above == {p \in S \X S : p[1] > p[2]}
<1>1. \A c, d \in S : <<c, d>> \in above <=> c > d OBVIOUS
<1> HIDE DEF above
<1>2. IsOrder(S, above) BY <1>1 DEF IsOrder
<1>3. Cardinality(S) \in Nat /\ Cardinality(S) # 0 BY FS_CardinalityType, FS_EmptySet
<1>4. PICK c \in S : PlaceIn(S, above, c) = 1 - 1
  <2>1. 1 \in 1..Cardinality(S) BY <1>3
  <2> QED BY <1>2, <2>1, EveryPlaceIsTaken
<1>5. \A d \in S : ~(d > c)
  <2> DEFINE A == {d \in S : <<d, c>> \in above}
  <2>1. A \in SUBSET S /\ Cardinality(A) = 0 BY <1>4 DEF PlaceIn
  <2>2. A = {}
    <3> HIDE DEF A
    <3> QED BY <2>1, FS_Subset, FS_EmptySet
  <2> QED BY <1>1, <2>2
<1>6. \A d \in S : c >= d BY <1>5
<1>7. Max(S) \in S /\ \A y \in S : Max(S) >= y BY <1>6 DEF Max
<1> QED BY <1>7

LEMMA RouteIsTheBest ==
  ASSUME ScoringAssumption, NEW e, WellKnown(e), NEW edge, edge = Engine(e).edge, NEW s \in StartsOf(e),
         NEW t \in Nodes, t # s, NEW risk, \A n \in Nodes : risk[n] \in Int,
         NEW R, R = Routes(edge, risk, s, t)
  PROVE  /\ R = {} => BestHold(e, s, t) = 0
         /\ \A r \in R :
              /\ r.start = s /\ r.likelihood = BestHold(e, s, t)
              /\ r.likelihood \in Int /\ r.highest \in Int /\ Len(r.path) \in Int
<1> DEFINE P == PathsTo(edge, s, t)
           best == MostLikely(P)
           H == {h[2] : h \in {x \in Held(e, s) : x[1] = t}}
           top == BestHold(e, s, t)
<1>1. /\ \A p \in P : <<t, p.likelihood>> \in Held(e, s) /\ p.likelihood \in 0..Scale /\ \E k \in 0..Steps : IsPath(e, s, k, p)
      /\ \A h \in Held(e, s) : h[2] \in Nat
      /\ \A h \in Held(e, s) : h[1] = t => \E p \in P : h[2] <= p.likelihood
  BY PathsToAre
<1>2. top = Max({0} \cup H) BY DEF BestHold
<1>3. R = IF P = {} THEN {}
          ELSE {[start |-> s, path |-> best.path, likelihood |-> best.likelihood,
                 highest |-> Max({0} \cup {risk[n] : n \in ToSet(best.path) \cap Nodes})]}
  BY DEF Routes, PathsTo
<1>4. \A x \in H : x \in Nat /\ \E p \in P : x <= p.likelihood BY <1>1
<1>5. \A p \in P : p.likelihood \in H
  <2> SUFFICES ASSUME NEW p \in P PROVE p.likelihood \in H
    OBVIOUS
  <2> DEFINE h == <<t, p.likelihood>>
  <2>1. h \in Held(e, s) BY <1>1
  <2>2. h[1] = t /\ h[2] = p.likelihood OBVIOUS
  <2> HIDE DEF h
  <2> QED BY <2>1, <2>2
<1>6. Scale \in Nat BY DEF ScoringAssumption
<1> HIDE DEF P, H, top
<1>7. CASE P = {}
  <2>1. H = {} BY <1>4, <1>7
  <2>2. {0} \cup H = {0} BY <2>1
  <2>3. Max({0}) = 0 BY DEF Max
  <2>4. top = 0 BY <1>2, <2>2, <2>3
  <2> QED BY <1>3, <1>7, <2>4 DEF top
<1>8. CASE P # {}
  <2> DEFINE L == {p.likelihood : p \in P}
  <2>1. L \in SUBSET Nat /\ L # {} /\ \A x \in L : x <= Scale
    <3>1. ASSUME NEW p \in P PROVE p.likelihood \in Nat /\ p.likelihood <= Scale
      <4>1. p.likelihood \in 0..Scale BY <1>1
      <4> QED BY <1>6, <4>1
    <3> QED BY <1>8, <3>1
  <2>2. Max(L) \in L /\ \A x \in L : x <= Max(L)
    <3> HIDE DEF L
    <3> QED BY <1>6, <2>1, GreatestNatural
  <2>3. \E p \in P : \A q \in P : q.likelihood <= p.likelihood BY <2>2
  <2>4. best \in P /\ \A q \in P : q.likelihood <= best.likelihood BY <2>3 DEF MostLikely
  <2> HIDE DEF best
  <2> DEFINE b == best.likelihood
             X == {0} \cup H
  <2>5. b \in Nat /\ b \in X BY <1>1, <1>5, <1>6, <2>4
  <2>6. \A x \in X : x \in Nat /\ x <= b
    <3>1. ASSUME NEW x \in H PROVE x <= b
      <4>1. PICK p \in P : x <= p.likelihood BY <1>4
      <4>2. p.likelihood \in Nat /\ p.likelihood <= b /\ x \in Nat BY <1>1, <1>4, <1>6, <2>4
      <4> QED BY <2>5, <4>1, <4>2
    <3> QED BY <1>4, <2>5, <3>1
  <2> HIDE DEF b, X
  <2>7. \A x \in X : (\A y \in X : x >= y) => x = b BY <2>5, <2>6
  <2>8. \A y \in X : b >= y BY <2>5, <2>6
  <2>9. Max(X) = b BY <2>5, <2>7, <2>8 DEF Max
  <2>10. top = b BY <1>2, <2>9 DEF X
  <2> DEFINE N == ToSet(best.path) \cap Nodes
             Y == {0} \cup {risk[n] : n \in N}
  <2>11. Max(Y) \in Int
    <3>1. N \in SUBSET Nodes /\ IsFiniteSet(Nodes) BY DEF ScoringAssumption
    <3>2. IsFiniteSet(N)
      <4> HIDE DEF N
      <4> QED BY <3>1, FS_Subset
    <3> DEFINE Z == {risk[n] : n \in N}
               f == [n \in N |-> risk[n]]
    <3>3. f \in Surjection(N, Z) BY DEF Surjection
    <3>4. IsFiniteSet(Z)
      <4> HIDE DEF f, N, Z
      <4> QED BY <3>2, <3>3, FS_Surjection
    <3>5. IsFiniteSet({0}) BY FS_Singleton
    <3>6. IsFiniteSet({0} \cup Z)
      <4> HIDE DEF Z
      <4> QED BY <3>4, <3>5, FS_Union
    <3>7. Y \in SUBSET Int /\ Y # {} BY <3>1
    <3> HIDE DEF N
    <3>8. IsFiniteSet(Y) BY <3>6
    <3> HIDE DEF Y, Z
    <3>9. Max(Y) \in Y BY <3>7, <3>8, FiniteHasItsMax
    <3> QED BY <3>7, <3>9
  <2>12. Len(best.path) \in Int BY <1>1, <2>4 DEF IsPath
  <2>13. R = {[start |-> s, path |-> best.path, likelihood |-> b, highest |-> Max(Y)]} BY <1>3, <1>8 DEF b, best
  <2> HIDE DEF Y, N
  <2>14. \A r \in R : r.start = s /\ r.likelihood = b /\ r.path = best.path /\ r.highest = Max(Y) BY <2>13
  <2>15. R # {} BY <2>13
  <2> QED BY <2>5, <2>10, <2>11, <2>12, <2>14, <2>15 DEF top
<1> QED BY <1>7, <1>8

-----------------------------------------------------------------------------
\* The routes kept.

\* As many as are kept, when one is not, and each before it.
LEMMA FirstOfAnOrder ==
  ASSUME NEW S, NEW above, IsFiniteSet(S), IsOrder(S, above), NEW n \in Nat,
         NEW F, F = {c \in S : PlaceIn(S, above, c) < n}, NEW c \in S \ F
  PROVE  /\ Cardinality(F) = n
         /\ \A d \in F : <<d, c>> \in above
<1> DEFINE P(d) == PlaceIn(S, above, d)
           T == 0..(n - 1)
           f == [d \in F |-> P(d)]
<1>1. \A d \in S : P(d) \in 0..(Cardinality(S) - 1) /\ Cardinality(S) \in Nat BY PlacesAreBelow
<1>2. \A a, d \in S : <<a, d>> \in above => P(a) < P(d) BY PlacesFollow
<1>3. \A i \in 1..Cardinality(S) : \E d \in S : P(d) = i - 1 BY EveryPlaceIsTaken
<1>4. F \in SUBSET S /\ \A d \in S : d \in F <=> P(d) < n OBVIOUS
<1> HIDE DEF P
<1>5. n <= P(c) /\ n <= Cardinality(S) /\ Cardinality(S) \in Nat BY <1>1, <1>4
<1>6. \A d \in F : <<d, c>> \in above
  <2> SUFFICES ASSUME NEW d \in F PROVE <<d, c>> \in above
    OBVIOUS
  <2>1. d \in S /\ P(d) < P(c) /\ P(d) \in Int /\ P(c) \in Int BY <1>1, <1>4, <1>5
  <2>2. <<c, d>> \notin above /\ c # d BY <1>2, <2>1
  <2> QED BY <2>1, <2>2 DEF IsOrder
<1>7. IsFiniteSet(F) BY <1>4, FS_Subset
<1>8. IsFiniteSet(T) /\ Cardinality(T) = n
  <2>1. 0 \in Int /\ n - 1 \in Int OBVIOUS
  <2> QED BY <2>1, FS_Interval
<1>9. f \in [F -> T] BY <1>1, <1>4
<1>10. \A a, d \in F : f[a] = f[d] => a = d
  <2> SUFFICES ASSUME NEW a \in F, NEW d \in F, P(a) = P(d), a # d PROVE FALSE
    OBVIOUS
  <2>1. a \in S /\ d \in S /\ P(a) \in Int BY <1>1, <1>4
  <2>2. CASE <<a, d>> \in above
    <3>1. P(a) < P(d) BY <1>2, <2>1, <2>2
    <3> QED BY <2>1, <3>1
  <2>3. CASE <<d, a>> \in above
    <3>1. P(d) < P(a) BY <1>2, <2>1, <2>3
    <3> QED BY <2>1, <3>1
  <2> QED BY <2>1, <2>2, <2>3 DEF IsOrder
<1>11. \A i \in T : \E d \in F : f[d] = i
  <2> SUFFICES ASSUME NEW i \in T PROVE \E d \in F : P(d) = i
    OBVIOUS
  <2>1. i + 1 \in 1..Cardinality(S) /\ (i + 1) - 1 = i BY <1>5
  <2>2. PICK d \in S : P(d) = i BY <1>3, <2>1
  <2>3. d \in F BY <1>4, <2>2
  <2> QED BY <2>2, <2>3
<1> HIDE DEF f, T
<1>12. f \in Injection(F, T) BY <1>9, <1>10 DEF Injection, IsInjective
<1>13. f \in Surjection(F, T) BY <1>9, <1>11 DEF Surjection
<1>14. Cardinality(F) = Cardinality(T) BY <1>7, <1>12, <1>13, FS_Surjection
<1> QED BY <1>6, <1>8, <1>14

\* What is kept of a target for one starting point: its own best route, or none because the others are as likely.
KeepsTheBest(F, s, best) ==
  LET own == {r \in F : r.start = s}
  IN IF own = {} THEN best = 0 \/ (Cardinality(F) = Keep /\ \A l \in {r.likelihood : r \in F} : l >= best)
     ELSE \A r \in own : r.likelihood = best

LEMMA KeptAreTheMostLikely == ScoringInv => RoutesAreTheMostLikely
<1> SUFFICES ASSUME ScoringInv, Complete PROVE RoutesAreTheMostLikely
  BY DEF RoutesAreTheMostLikely
<1> USE ScoringAssumption DEF ScoringInv
<1> DEFINE hosts == Inactive(live)
           e == View(hosts)
           risk == [n \in Nodes |-> rollup[n].risk]
           targets == {n \in Nodes : weight[n] > 0}
           edge == Engine(e).edge
           starts == Engine(e).starts
<1>1. op # "none" /\ phase = "ended" BY DEF Complete
<1>2. node \in ScoredGraphs /\ weight \in TargetChoices /\ feed \in Feeds /\ hosts \in SUBSET Nodes
  BY DEF FilesAreKnown, Inactive
<1>3. e = ViewOf(node, listed, hosts) /\ e.node = node /\ e.listed = listed BY DEF View, ViewOf
<1>4. engine = Engine(e) BY <1>1, <1>3 DEF EngineOfToday
<1>5. paths = Compute(engine, risk, targets) BY DEF PathsOfToday
<1>6. SameLists(node, listed, Worst(node)) BY <1>1 DEF ListsAreAsGood
<1>7. WellKnown(e)
  <2> SUFFICES ASSUME NEW n \in Nodes PROVE Usable(e, n) \subseteq DOMAIN Flaws /\ e.node[n].config \subseteq Complexities
    BY DEF WellKnown
  <2>1. node[n].config \subseteq Complexities /\ node[n].cves \subseteq DOMAIN Flaws BY <1>2 DEF ScoringAssumption
  <2> DEFINE S == FindingRows(node, Worst(node), n)
  <2>2. S \subseteq DOMAIN Flaws /\ (~node[n].known => S = ToSet(Worst(node)[n])) BY <1>2, WorstListsAre
  <2>3. ~node[n].known => ToSet(listed[n]) = ToSet(Worst(node)[n]) BY <1>6 DEF SameLists
  <2> HIDE DEF S, e
  <2> QED BY <1>3, <2>1, <2>2, <2>3 DEF Usable
<1>8. starts = StartsOf(e) BY DEF Engine
<1>9. IsFiniteSet(starts) /\ \A s \in starts : s \in Int
  <2> DEFINE whole == Engine(ViewOf(node, listed, {}))
  <2>1. starts = whole.starts \ hosts /\ IsFiniteSet(whole.starts) /\ \A s \in whole.starts : s \in Int
    BY <1>2, <1>3, InactiveHostsOnlyLoseStarts
  <2> HIDE DEF whole, starts
  <2> QED BY <2>1, FS_Subset
<1>10. \A n \in Nodes : risk[n] \in Int
  <2> SUFFICES ASSUME NEW n \in Nodes PROVE rollup[n].risk \in Int
    OBVIOUS
  <2> DEFINE r == score[n]
             S == FindingRows(node, Worst(node), n)
             Z == {r[c].score : c \in DOMAIN r}
             f == [c \in S |-> r[c].score]
  <2>1. rollup[n] = NodeRecord(r) BY <1>1 DEF RolledUp
  <2>2. score = Scores(node, Worst(node), weight, feed) BY <1>1 DEF ScoredToday
  <2>3. r = RecordsOf(node, weight, feed, n) BY <1>6, <2>2, ScoresAreTheRecords
  <2> HIDE DEF r, S
  <2>4. DOMAIN r = S /\ IsFiniteSet(S) /\ \A c \in S : r[c].score \in Int BY <1>2, <2>3, RecordsAreRated DEF S, Rated
  <2>5. f \in Surjection(S, Z) BY <2>4 DEF Surjection
  <2>6. IsFiniteSet(Z)
    <3> HIDE DEF f, Z
    <3> QED BY <2>4, <2>5, FS_Surjection
  <2>7. IsFiniteSet({0}) BY FS_Singleton
  <2>8. IsFiniteSet({0} \cup Z)
    <3> HIDE DEF Z
    <3> QED BY <2>6, <2>7, FS_Union
  <2>9. {0} \cup Z \in SUBSET Int BY <2>4
  <2>10. NodeRecord(r).risk = Max({0} \cup Z) BY DEF NodeRecord
  <2> DEFINE Y == {0} \cup Z
  <2>11. Y # {} OBVIOUS
  <2> HIDE DEF Y, Z
  <2>12. Max(Y) \in Int BY <2>8, <2>9, <2>11, FiniteHasItsMax DEF Y
  <2> QED BY <2>1, <2>10, <2>12 DEF Y
<1> HIDE DEF e, hosts, risk, targets, edge, starts
<1>11. ASSUME NEW t \in Nodes, NEW s \in StartsOf(e) \ {t}, NEW R, R = Routes(edge, risk, s, t)
       PROVE  /\ R = {} => BestHold(e, s, t) = 0
              /\ \A r \in R :
                   /\ r.start = s /\ r.likelihood = BestHold(e, s, t)
                   /\ r.likelihood \in Int /\ r.highest \in Int /\ Len(r.path) \in Int
  BY <1>7, <1>10, <1>11, RouteIsTheBest DEF edge
<1>12. \A t \in DOMAIN paths : \A s \in StartsOf(e) \ {t} : KeepsTheBest(paths[t], s, BestHold(e, s, t))
  <2> SUFFICES ASSUME NEW t \in DOMAIN paths, NEW s \in StartsOf(e) \ {t}, NEW best, best = BestHold(e, s, t)
               PROVE  KeepsTheBest(paths[t], s, best)
    OBVIOUS
  <2> SUFFICES ASSUME NEW own, own = {r \in paths[t] : r.start = s}
               PROVE  IF own = {} THEN best = 0 \/ (Cardinality(paths[t]) = Keep /\ \A r \in paths[t] : r.likelihood >= best)
                      ELSE \A r \in own : r.likelihood = best
    BY DEF KeepsTheBest
  <2> DEFINE C == RoutesTo(engine, risk, t)
             above == {p \in C \X C : Precedes(p[1], p[2])}
             Q == Routes(edge, risk, s, t)
  <2>1. t \in Nodes /\ paths[t] = FirstRoutes(C) BY <1>5 DEF Compute
  <2>2. \A r : r \in C <=> \E x \in starts \ {t} : r \in Routes(edge, risk, x, t)
    BY <1>4, RoutesToAre DEF edge, starts
  <2>3. \A r \in C : /\ r.start \in starts \ {t} /\ r \in Routes(edge, risk, r.start, t)
                     /\ r.likelihood \in Int /\ r.highest \in Int /\ Len(r.path) \in Int /\ r.start \in Int
    <3> SUFFICES ASSUME NEW r \in C
                 PROVE  /\ r.start \in starts \ {t} /\ r \in Routes(edge, risk, r.start, t)
                        /\ r.likelihood \in Int /\ r.highest \in Int /\ Len(r.path) \in Int /\ r.start \in Int
      OBVIOUS
    <3>1. PICK x \in starts \ {t} : r \in Routes(edge, risk, x, t) BY <2>2
    <3>2. r.start = x /\ r.likelihood \in Int /\ r.highest \in Int /\ Len(r.path) \in Int BY <1>8, <1>11, <2>1, <3>1
    <3> QED BY <1>9, <3>1, <3>2
  <2>4. \A r, q \in C : r.start = q.start => r = q BY <2>3, OneRouteAStart
  <2>5. IsFiniteSet(C) BY <1>4, <1>9, RoutesToAreFinite DEF starts
  <2>6. \A r, q \in C : <<r, q>> \in above <=> Precedes(r, q) OBVIOUS
  <2>7. \A r \in C : {q \in C : <<q, r>> \in above} = {q \in C : Precedes(q, r)} BY <2>6
  <2>8. paths[t] = {r \in C : PlaceIn(C, above, r) < Keep} BY <2>1, <2>7 DEF FirstRoutes, PlaceIn
  <2> HIDE DEF C, above, Q
  <2>9. IsOrder(C, above)
    <3>1. \A r, q \in C : <<r, q>> \in above <=>
            \/ r.likelihood > q.likelihood
            \/ r.likelihood = q.likelihood /\ r.highest > q.highest
            \/ r.likelihood = q.likelihood /\ r.highest = q.highest /\ Len(r.path) < Len(q.path)
            \/ r.likelihood = q.likelihood /\ r.highest = q.highest /\ Len(r.path) = Len(q.path) /\ r.start < q.start
      BY <2>6 DEF Precedes
    <3>2. \A r \in C : r.likelihood \in Int /\ r.highest \in Int /\ Len(r.path) \in Int /\ r.start \in Int BY <2>3
    <3>3. \A r \in C : <<r, r>> \notin above BY <3>1, <3>2
    <3>4. ASSUME NEW r \in C, NEW q \in C, r # q PROVE <<r, q>> \in above \/ <<q, r>> \in above
      <4>1. r.start # q.start BY <2>4, <3>4
      <4>2. r.likelihood = q.likelihood \/ r.likelihood > q.likelihood \/ q.likelihood > r.likelihood BY <3>2
      <4>3. r.highest = q.highest \/ r.highest > q.highest \/ q.highest > r.highest BY <3>2
      <4>4. Len(r.path) = Len(q.path) \/ Len(r.path) < Len(q.path) \/ Len(q.path) < Len(r.path) BY <3>2
      <4>5. r.start < q.start \/ q.start < r.start BY <3>2, <4>1
      <4> QED BY <3>1, <4>2, <4>3, <4>4, <4>5
    <3>5. ASSUME NEW r \in C, NEW q \in C, NEW x \in C, <<r, q>> \in above, <<q, x>> \in above PROVE <<r, x>> \in above
      <4> DEFINE Before(y, z) ==
            \/ y.likelihood > z.likelihood
            \/ y.likelihood = z.likelihood /\ y.highest > z.highest
            \/ y.likelihood = z.likelihood /\ y.highest = z.highest /\ Len(y.path) < Len(z.path)
            \/ y.likelihood = z.likelihood /\ y.highest = z.highest /\ Len(y.path) = Len(z.path) /\ y.start < z.start
      <4>1. Before(r, q) /\ Before(q, x) BY <3>1, <3>5
      <4>2. Before(r, x) BY <3>2, <4>1
      <4> QED BY <3>1, <4>2
    <3> QED BY <3>3, <3>4, <3>5 DEF IsOrder
  <2>10. /\ Q = {} => best = 0
         /\ \A r \in Q : r.start = s /\ r.likelihood = best
    BY <1>11, <2>1 DEF Q
  <2>11. \A r \in C : r.start = s => r \in Q BY <2>3 DEF Q
  <2>12. Q \subseteq C BY <1>8, <2>2 DEF Q
  <2>13. CASE own # {}
    <3>1. \A r \in own : r \in C /\ r.start = s BY <2>8
    <3> QED BY <2>10, <2>11, <2>13, <3>1
  <2>14. CASE own = {} /\ Q = {} BY <2>10, <2>14
  <2>15. CASE own = {} /\ Q # {}
    <3>1. PICK q \in Q : TRUE BY <2>15
    <3>2. q \in C /\ q.start = s /\ q.likelihood = best BY <2>10, <2>12, <3>1
    <3>3. q \notin paths[t] BY <2>15, <3>2
    <3> DEFINE F == paths[t]
    <3>4. F = {r \in C : PlaceIn(C, above, r) < Keep} /\ q \in C \ F BY <2>8, <3>2, <3>3
    <3> HIDE DEF F
    <3>5. Cardinality(F) = Keep /\ \A d \in F : <<d, q>> \in above
      BY <2>5, <2>9, <3>4, FirstOfAnOrder DEF ScoringAssumption
    <3>6. \A d \in F : d \in C /\ Precedes(d, q) BY <2>6, <3>2, <3>4, <3>5
    <3>7. \A d \in F : d.likelihood >= best BY <2>3, <3>2, <3>6 DEF Precedes
    <3> QED BY <2>15, <3>5, <3>7 DEF F
  <2> QED BY <2>13, <2>14, <2>15
<1> QED BY <1>12 DEF RoutesAreTheMostLikely, KeepsTheBest, e, hosts

\* Every route kept is as likely as anything an attacker can do from its start, and a start without one can hold
\* the target no more likely than those kept, for any networks, CVEs, misconfigurations, marks, hosts that did
\* not answer and number of routes kept (attackpaths.py REACHABILITY, route, _order_key, _target_blocks).
THEOREM RoutesAlwaysTheMostLikely == ScoringSpec => []RoutesAreTheMostLikely
BY ScoringAlways, KeptAreTheMostLikely, PTL
=============================================================================
