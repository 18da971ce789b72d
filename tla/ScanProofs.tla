---------------------------- MODULE ScanProofs ----------------------------
(***************************************************************************)
(* Proofs about the scan service, for any number of scans and requests.    *)
(***************************************************************************)
EXTENDS ScanProperties, TLAPS

(* The values the actions assign are in the sets TypeOK names.             *)
LEMMA Members ==
  /\ Runs \subseteq Versions /\ 0 \in Versions /\ Versions \subseteq Int
  /\ \A c \in {"none", "read", "write", "renameVulns", "renamePaths", "copyGraph",
               "copyVulns", "copyPaths", "ending", "done"} : c \in Completions
  /\ \A e \in {"none", "idle", "failed", "stopped"} : e \in Endings
  /\ \A c \in {"none", "awaiting", "handled"} : c \in Closings
  /\ \A c \in {"unborn", "scanning", "written", "fetching", "dead", "closed"} : c \in ChildStates
  /\ \A o \in {"none", "broken", "empty", "devices"} : o \in Outputs
  /\ \A q \in {"none", "waiting", "resolved", "answered"} : q \in RequestStates
  /\ \A o \in {"none", "completed", "partial", "failed", "stopped"} : o \in Outcomes
  /\ \A p \in {"none", "ok", "failed"} : p \in Reports
BY ConstantsOK DEF Runs, Versions, Completions, Swapping, Endings, Closings, ChildStates,
  Outputs, RequestStates, Outcomes, Reports

LEMMA FlagMembers ==
  \A f \in {"ended", "timedOut", "stopped", "saved", "exited", "timer", "replaceEmpty",
            "killed", "eof", "late"} : f \in Flags
BY DEF Flags

(* How the operators on the module state change its fields.                *)
LEMMA RefiningOverUpdate ==
  ASSUME scan \in ScanStates
  PROVE  /\ RefiningOver \in ScanStates
         /\ RefiningOver.run = scan.run /\ RefiningOver.status = scan.status
         /\ RefiningOver.trigger = scan.trigger
         /\ RefiningOver.refining = FALSE
BY DEF ScanStates, RefiningOver

LEMMA ScanUpdates ==
  ASSUME scan \in ScanStates, NEW r \in Runs
  PROVE  /\ Saved(r) \in ScanStates
         /\ Saved(r).run = scan.run /\ Saved(r).status = "idle"
         /\ Released(r) \in ScanStates
         /\ Released(r).run = scan.run /\ Released(r).status \in {"idle", "failed"}
BY DEF ScanStates, Saved, Released

LEMMA TaskUpdates ==
  ASSUME NEW owner \in Versions, NEW kind \in {"none", "recompute", "rescore"},
         NEW step \in {"none", "read"}
  PROVE  TaskOf(kind, owner, step) \in Tasks
BY Members DEF Tasks, TaskOf

LEMMA TaskMoves ==
  ASSUME TypeOK
  PROVE  /\ FilesRead \in Tasks
         /\ FilesRead.kind = task.kind /\ FilesRead.owner = task.owner
         /\ FilesRead.graph = graph /\ FilesRead.vulns = vulns
         /\ FilesRead.step \in {"vulns", "paths"}
         /\ \A step \in {"none", "paths", "graph"} :
              /\ TaskAt(step) \in Tasks
              /\ TaskAt(step).kind = task.kind /\ TaskAt(step).owner = task.owner
              /\ TaskAt(step).graph = task.graph /\ TaskAt(step).vulns = task.vulns
              /\ TaskAt(step).step = step
BY DEF TypeOK, Tasks, FilesRead, TaskAt

LEMMA Idle ==
  TypeOK /\ UNCHANGED vars => TypeOK'
BY DEF TypeOK, vars, moduleVars, closureVars, childVars, mapVars, tempVars, archiveVars,
  taskVars, ghostVars

LEMMA CopyUpdates ==
  ASSUME TypeOK
  PROVE  GraphCopied \in Copies /\ VulnsCopied \in Copies /\ Entry \in Copies /\ NoCopy \in Copies
BY Members DEF TypeOK, Copies, GraphCopied, VulnsCopied, Entry, NoCopy

LEMMA ResolvedType == 
  ASSUME TypeOK, NEW r \in Runs PROVE Resolved(r) \in [Requests -> RequestStates]
BY Members DEF TypeOK, Resolved

LEMMA ForgetType ==
  ASSUME TypeOK, NEW r \in Runs, Forget(r)
  PROVE  /\ flags' \in [Runs -> SUBSET Flags]
         /\ whenStopped' \in [Runs -> Requests \cup {NoRequest}]
         /\ output' \in [Runs -> Outputs]
BY Members DEF TypeOK, Forget

LEMMA FinishType ==
  ASSUME TypeOK, NEW status, Finish(status)
  PROVE  stopRunning' \in Versions /\ onScanDone' \in Versions /\ reported' \in [Runs -> Reports]
BY Members DEF TypeOK, Finish

(* The ways complete() leaves a step.                                      *)
LEMMA CompleteType ==
  ASSUME TypeOK, NEW r \in Runs,
         \/ \E next \in Swapping : GoOn(r, next)
         \/ \E status \in {"idle", "failed"}, how \in {"partial", "failed"} : GiveUp(r, status, how)
  PROVE  /\ completion' \in [Runs -> Completions] /\ flags' \in [Runs -> SUBSET Flags]
         /\ ending' \in [Runs -> Endings] /\ outcome' \in [Runs -> Outcomes]
<1>1. CASE \E next \in Swapping : GoOn(r, next)
  <2>1. Swapping \subseteq Completions
    BY DEF Completions
  <2> QED BY <1>1, <2>1 DEF TypeOK, GoOn
<1>2. CASE \E status \in {"idle", "failed"}, how \in {"partial", "failed"} : GiveUp(r, status, how)
  BY <1>2, Members, FlagMembers DEF TypeOK, GiveUp, End
<1> QED BY <1>1, <1>2

(* Every value a variable of scan.ts can take, and every program counter   *)
(* of its handlers, stays in its declared range.                           *)
LEMMA TypePreserved == TypeOK /\ [Next]_vars => TypeOK'
<1> SUFFICES ASSUME TypeOK, [Next]_vars PROVE TypeOK'
  OBVIOUS
<1> USE Members, FlagMembers
    DEF moduleVars, closureVars, childVars, mapVars, tempVars, archiveVars, taskVars, ghostVars
<1>1. ASSUME NEW trigger \in Triggers, NEW options \in SUBSET {"replaceEmpty"},
             StartScan(trigger, options), request' \in [Requests -> RequestStates]
      PROVE  TypeOK'
  <2>1. NextRun \in Runs /\ NextRun \in Versions
    BY <1>1 DEF StartScan
  <2>2. scan' \in ScanStates
    BY <1>1, <2>1 DEF StartScan, ScanStates
  <2>3. flags' \in [Runs -> SUBSET Flags]
    BY <1>1, <2>1 DEF TypeOK, StartScan, Killed
  <2>4. child' \in [Runs -> ChildStates] /\ onScanDone' \in Versions /\ stopRunning' \in Versions
    BY <1>1, <2>1 DEF TypeOK, StartScan
  <2> QED BY <1>1, <2>2, <2>3, <2>4 DEF TypeOK, StartScan
<1>2. ASSUME NEW q \in Requests, StartOrRefuse(q) PROVE TypeOK'
  <2>1. request' \in [Requests -> RequestStates]
    BY <1>2 DEF TypeOK, StartOrRefuse
  <2>2. "manual" \in Triggers
    BY DEF Triggers
  <2>3. CASE \E options \in SUBSET {"replaceEmpty"} : StartScan("manual", options)
    BY <2>3, <2>1, <2>2, <1>1
  <2>4. CASE ~ \E options \in SUBSET {"replaceEmpty"} : StartScan("manual", options)
    BY <1>2, <2>4, <2>1 DEF TypeOK, StartOrRefuse
  <2> QED BY <2>3, <2>4
<1>3. CASE BackgroundStart
  <2>1. request' \in [Requests -> RequestStates]
    BY <1>3 DEF TypeOK, BackgroundStart
  <2>2. PICK trigger \in {"automatic", "scheduled"} : StartScan(trigger, {})
    BY <1>3 DEF BackgroundStart
  <2>3. trigger \in Triggers /\ {} \in SUBSET {"replaceEmpty"}
    BY DEF Triggers
  <2> QED BY <1>1, <2>1, <2>2, <2>3
<1>4. CASE BeginTask
  <2>1. task' \in Tasks
    BY <1>4, TaskUpdates, ConstantsOK DEF BeginTask
  <2> QED BY <1>4, <2>1 DEF TypeOK, BeginTask
<1>5. CASE TaskNext
  <2>1. scan' \in ScanStates
    BY <1>5, RefiningOverUpdate DEF TypeOK, TaskNext, TaskRead, TaskWriteVulns, TaskWritePaths,
       TaskWriteGraph, TaskEnd, taskUnchanged
  <2>2. task' \in Tasks
    BY <1>5, TaskUpdates, TaskMoves DEF TaskNext, TaskRead, TaskWriteVulns, TaskWritePaths,
       TaskWriteGraph, TaskEnd, NoTask
  <2>3. task.graph \in Versions /\ task.vulns \in Versions
    BY DEF TypeOK, Tasks
  <2>4. graph' \in Versions /\ vulns' \in Versions /\ paths' \in Versions
    BY <1>5, <2>3 DEF TypeOK, TaskNext, TaskRead, TaskWriteVulns, TaskWritePaths, TaskWriteGraph,
       TaskEnd
  <2> QED BY <1>5, <2>1, <2>2, <2>4 DEF TypeOK, TaskNext, TaskRead, TaskWriteVulns,
       TaskWritePaths, TaskWriteGraph, TaskEnd, taskUnchanged
<1>6. ASSUME NEW q \in Requests, PostPreempt(q) PROVE TypeOK'
  BY <1>6 DEF TypeOK, PostPreempt
<1>7. ASSUME NEW r \in Runs, ChildWrites(r) \/ ChildEmits(r) \/ ChildExits(r) PROVE TypeOK'
  <2>1. CASE ChildWrites(r)
    BY <2>1 DEF TypeOK, ChildWrites, childUnchanged
  <2>2. CASE ChildEmits(r)
    BY <2>2 DEF TypeOK, ChildEmits, childUnchanged
  <2>3. CASE ChildExits(r)
    <3>1. PICK logged \in SUBSET Flags : flags' = [flags EXCEPT ![r] = @ \cup logged]
      BY <2>3 DEF ChildExits
    <3>2. flags' \in [Runs -> SUBSET Flags]
      BY <3>1 DEF TypeOK
    <3>3. child' \in [Runs -> ChildStates]
      BY <2>3 DEF TypeOK, ChildExits
    <3> QED BY <2>3, <3>2, <3>3 DEF TypeOK, ChildExits, childUnchanged
  <2> QED BY <1>7, <2>1, <2>2, <2>3
<1>8. ASSUME NEW r \in Runs, ChildFails(r) \/ ChildKilled(r) PROVE TypeOK'
  BY <1>8 DEF TypeOK, ChildFails, ChildKilled, Dies, childUnchanged
<1>9. ASSUME NEW r \in Runs, Timeout(r) PROVE TypeOK'
  BY <1>9 DEF TypeOK, Timeout, childUnchanged
<1>10. ASSUME NEW r \in Runs, SpawnError(r) PROVE TypeOK'
  BY <1>10 DEF TypeOK, SpawnError, End
<1>11. ASSUME NEW r \in Runs, StdoutEnd(r) PROVE TypeOK'
  BY <1>11 DEF TypeOK, StdoutEnd, End
<1>12. ASSUME NEW r \in Runs, CompleteRead(r) \/ CompleteWrite(r) \/ CompleteRenameVulns(r)
                                \/ CompleteRenamePaths(r) PROVE TypeOK'
  <2>1. {"write", "renameVulns", "renamePaths", "copyGraph"} \subseteq Swapping
    BY DEF Swapping
  <2>2. \/ \E next \in Swapping : GoOn(r, next)
        \/ \E status \in {"idle", "failed"}, how \in {"partial", "failed"} : GiveUp(r, status, how)
    BY <1>12, <2>1 DEF CompleteRead, CompleteWrite, CompleteRenameVulns, CompleteRenamePaths
  <2>3. graph' \in Versions /\ vulns' \in Versions /\ paths' \in Versions
        /\ vulnsTmp' \in Versions /\ pathsTmp' \in Versions /\ UNCHANGED archiveVars
    BY <1>12 DEF TypeOK, CompleteRead, CompleteWrite, CompleteRenameVulns, CompleteRenamePaths
  <2>4. UNCHANGED completeUnchanged
    BY <1>12 DEF CompleteRead, CompleteWrite, CompleteRenameVulns, CompleteRenamePaths
  <2> QED BY <2>2, <2>3, <2>4, CompleteType DEF TypeOK, completeUnchanged
<1>13. ASSUME NEW r \in Runs, CompleteCopyGraph(r) \/ CompleteCopyVulns(r) PROVE TypeOK'
  <2>1. {"copyVulns", "copyPaths"} \subseteq Swapping
    BY DEF Swapping
  <2>2. \E next \in Swapping : GoOn(r, next)
    BY <1>13, <2>1 DEF CompleteCopyGraph, CompleteCopyVulns
  <2>3. copy' \in Copies
    BY <1>13, CopyUpdates DEF CompleteCopyGraph, CompleteCopyVulns
  <2> QED BY <1>13, <2>2, <2>3, CompleteType
          DEF TypeOK, CompleteCopyGraph, CompleteCopyVulns, completeUnchanged
<1>14. ASSUME NEW r \in Runs, CompleteArchive(r) PROVE TypeOK'
  <2>1. stopRunning' \in Versions /\ onScanDone' \in Versions /\ reported' \in [Runs -> Reports]
    BY <1>14, FinishType DEF CompleteArchive
  <2>2. copy' \in Copies /\ archive' \subseteq Copies
    BY <1>14, CopyUpdates DEF TypeOK, CompleteArchive
  <2>3. scan' \in ScanStates
    BY <1>14, ScanUpdates DEF TypeOK, CompleteArchive
  <2>4. flags' \in [Runs -> SUBSET Flags] /\ completion' \in [Runs -> Completions]
    BY <1>14 DEF TypeOK, CompleteArchive
  <2>5. refiner' \in Versions /\ outcome' \in [Runs -> Outcomes]
    BY <1>14 DEF TypeOK, CompleteArchive
  <2> QED BY <1>14, <2>1, <2>2, <2>3, <2>4, <2>5 DEF TypeOK, CompleteArchive
<1>15. ASSUME NEW r \in Runs, Close(r) PROVE TypeOK'
  <2>1. closing' \in [Runs -> Closings] /\ child' \in [Runs -> ChildStates]
    BY <1>15 DEF TypeOK, Close
  <2>2. /\ flags' \in [Runs -> SUBSET Flags] /\ output' \in [Runs -> Outputs]
        /\ whenStopped' \in [Runs -> Requests \cup {NoRequest}]
    BY <1>15, ForgetType DEF TypeOK, Close
  <2>3. ending' \in [Runs -> Endings] /\ outcome' \in [Runs -> Outcomes]
    BY <1>15 DEF TypeOK, Close, End
  <2> QED BY <1>15, <2>1, <2>2, <2>3 DEF TypeOK, Close
<1>16. ASSUME NEW r \in Runs, Discarded(r) PROVE TypeOK'
  <2>1. scan' \in ScanStates /\ vulnsTmp' \in Versions /\ pathsTmp' \in Versions
    BY <1>16, ScanUpdates DEF TypeOK, Discarded, DiscardTemps
  <2>2. ending' \in [Runs -> Endings] /\ completion' \in [Runs -> Completions]
    BY <1>16 DEF TypeOK, Discarded
  <2>3. /\ stopRunning' \in Versions /\ onScanDone' \in Versions
        /\ reported' \in [Runs -> Reports] /\ request' \in [Requests -> RequestStates]
    BY <1>16, FinishType, ResolvedType DEF TypeOK, Discarded
  <2>4. /\ flags' \in [Runs -> SUBSET Flags] /\ output' \in [Runs -> Outputs]
        /\ whenStopped' \in [Runs -> Requests \cup {NoRequest}]
    BY <1>16, ForgetType DEF TypeOK, Discarded
  <2> QED BY <1>16, <2>1, <2>2, <2>3, <2>4 DEF TypeOK, Discarded
<1>17. ASSUME NEW r \in Runs, Refined(r) PROVE TypeOK'
  BY <1>17, RefiningOverUpdate, TaskUpdates, ForgetType, ResolvedType DEF TypeOK, Refined
<1>18. CASE UNCHANGED vars
  BY <1>18, Idle
<1> QED
  BY <1>2, <1>3, <1>4, <1>5, <1>6, <1>7, <1>8, <1>9, <1>10, <1>11, <1>12, <1>13, <1>14, <1>15,
     <1>16, <1>17, <1>18
     DEF Next, ContinuationNext, RunNext, HandlerNext, ChildNext, CompleteNext, Post, Resume

(* Every variable of every reachable state is in its declared range.       *)
THEOREM TypeCorrect == Spec => []TypeOK
<1>1. ASSUME Init PROVE TypeOK
  <2>1. scan \in ScanStates
    BY <1>1, Members DEF Init, ScanStates, Triggers
  <2>2. task \in Tasks /\ copy \in Copies
    BY <1>1, Members, TaskUpdates DEF Init, NoTask, NoCopy, Copies
  <2> QED BY <1>1, <2>1, <2>2, Members DEF Init, TypeOK
<1> QED BY <1>1, TypePreserved, PTL DEF Spec

-----------------------------------------------------------------------------
(* A scan that starts: the lock was free, so no run still owes work on the *)
(* files, and the new one has only begun.                                  *)
LEMMA StartExclusion ==
  ASSUME TypeOK, ExclusionInv, NEW trigger, NEW options \in SUBSET {"replaceEmpty"},
         StartScan(trigger, options)
  PROVE  ExclusionInv'
<1> USE DEF MidSwap, Running
<1>0. scan.run \in Int /\ NextRun \in Int /\ NextRun > scan.run /\ Runs \subseteq Int
  <2>1. scan.run \in Versions
    BY DEF TypeOK, ScanStates
  <2>2. scan.run \in Int /\ Runs \subseteq Int
    BY <2>1, Members
  <2> QED BY <2>2 DEF NextRun
<1>1. /\ ~Running /\ ~exclusiveTask /\ NextRun \in Runs
      /\ Running' /\ scan'.run = NextRun /\ ~exclusiveTask' /\ task' = task
  BY DEF StartScan, Unlocked, taskVars
<1>2. vulnsTmp = 0 /\ pathsTmp = 0 /\ vulnsTmp' = 0 /\ pathsTmp' = 0
  BY <1>1 DEF ExclusionInv, TempsOfTheRunningScan, StartScan, tempVars
<1>3. ASSUME NEW r \in Runs PROVE ClosureInv(r)'
  <2>1. completion' = completion /\ ending' = ending /\ closing' = closing
    BY DEF StartScan
  <2>2. ClosureInv(r)
    BY DEF ExclusionInv
  <2>3. CASE r = NextRun
    <3>1. child[r] = "unborn" /\ child'[r] = "scanning"
      BY <1>0, <1>1, <2>2, <2>3 DEF ClosureInv, StartScan, TypeOK
    <3>2. "ended" \notin flags'[r]
      <4>1. flags'[r] = {"timer"} \cup options
        BY <1>1, <2>3 DEF StartScan, Killed
      <4> QED BY <4>1
    <3>3. completion[r] = "none" /\ ending[r] = "none" /\ closing[r] = "none"
      BY <2>2, <3>1 DEF ClosureInv
    <3>4. ~(r > scan'.run)
      BY <1>0, <1>1, <2>3
    <3> QED BY <1>1, <2>1, <2>3, <3>1, <3>2, <3>3, <3>4 DEF ClosureInv
  <2>4. CASE r # NextRun
    <3>1. child'[r] = child[r] /\ ("ended" \in flags'[r] <=> "ended" \in flags[r])
      BY <1>1, <2>4 DEF StartScan, TypeOK, Killed
    <3>2. r > scan'.run => r > scan.run
      BY <1>0, <1>1 DEF NextRun
    <3> QED BY <1>1, <2>1, <2>2, <3>1, <3>2 DEF ClosureInv
  <2> QED BY <2>3, <2>4
<1>4. ASSUME NEW r \in Runs PROVE RenamedInv(r)'
  BY <1>2 DEF RenamedInv
<1> QED BY <1>1, <1>2, <1>3, <1>4 DEF ExclusionInv, TempsOfTheRunningScan

(* A run none of whose closure or process changes, while the scan state    *)
(* still describes the same run.                                           *)
SameClosure(s) ==
  /\ completion'[s] = completion[s] /\ ending'[s] = ending[s] /\ closing'[s] = closing[s]
  /\ child'[s] = child[s] /\ ("ended" \in flags'[s] <=> "ended" \in flags[s])
SameScan == scan'.run = scan.run /\ scan'.status = scan.status

LEMMA ClosureFrame ==
  ASSUME NEW s \in Runs, ClosureInv(s), SameClosure(s), SameScan
  PROVE  ClosureInv(s)'
BY DEF ClosureInv, SameClosure, SameScan, MidSwap, Running

(* The others when the running scan releases the lock.                     *)
LEMMA ReleaseFrame ==
  ASSUME NEW s \in Runs, ClosureInv(s), SameClosure(s), scan'.run = scan.run, scan.run # s
  PROVE  ClosureInv(s)'
BY DEF ClosureInv, SameClosure, MidSwap, Running

(* A step that changes one run's closure and process, and no temp file.    *)
LEMMA OneRunExclusion ==
  ASSUME ExclusionInv, NEW r \in Runs, SameScan, UNCHANGED <<tempVars, taskVars>>,
         \A s \in Runs : s # r => SameClosure(s),
         ClosureInv(r)', RenamedInv(r)'
  PROVE  ExclusionInv'
<1>1. ASSUME NEW s \in Runs PROVE ClosureInv(s)' /\ RenamedInv(s)'
  <2>1. ClosureInv(s) /\ RenamedInv(s)
    BY DEF ExclusionInv
  <2>2. CASE s # r
    BY <2>1, <2>2, ClosureFrame DEF RenamedInv, SameClosure, tempVars
  <2> QED BY <2>2
<1> QED BY <1>1 DEF ExclusionInv, TempsOfTheRunningScan, Running, SameScan, tempVars, taskVars

(* A step that touches no closure, process or temp file.                   *)
LEMMA NoRunExclusion ==
  ASSUME ExclusionInv, SameScan, UNCHANGED tempVars,
         \A s \in Runs : SameClosure(s),
         Running' => ~exclusiveTask', task'.step # "none" => exclusiveTask'
  PROVE  ExclusionInv'
<1>1. ASSUME NEW s \in Runs PROVE ClosureInv(s)' /\ RenamedInv(s)'
  <2>1. ClosureInv(s) /\ RenamedInv(s)
    BY DEF ExclusionInv
  <2> QED BY <2>1, ClosureFrame DEF RenamedInv, SameClosure, tempVars
<1> QED BY <1>1 DEF ExclusionInv, TempsOfTheRunningScan, Running, SameScan, tempVars

(* The steps of the scanner, the timer and a stop.                         *)
LEMMA ChildExclusion ==
  ASSUME TypeOK, ExclusionInv, NEW r \in Runs,
         ChildEmits(r) \/ ChildExits(r) \/ ChildFails(r) \/ ChildKilled(r) \/ Timeout(r)
  PROVE  ExclusionInv'
<1>1. ClosureInv(r) /\ RenamedInv(r)
  BY DEF ExclusionInv
<1>2. UNCHANGED <<scan, completion, ending, closing, tempVars, taskVars>>
  BY DEF ChildEmits, ChildExits, ChildFails, ChildKilled, Dies, Timeout, childUnchanged, moduleVars,
     childVars
<1>3. SameScan
  BY <1>2 DEF SameScan
<1>4. ASSUME NEW s \in Runs, s # r PROVE SameClosure(s)
  BY <1>2, <1>4 DEF SameClosure, TypeOK, ChildEmits, ChildExits, ChildFails, ChildKilled, Dies, Timeout,
     childVars
<1>5. "ended" \in flags'[r] <=> "ended" \in flags[r]
  BY DEF TypeOK, ChildEmits, ChildExits, ChildFails, ChildKilled, Dies, Timeout
<1>6. \/ child'[r] = child[r]
      \/ child[r] \in {"scanning", "written", "fetching"} /\ child'[r] \in {"fetching", "dead"}
  BY DEF TypeOK, ChildEmits, ChildExits, ChildFails, ChildKilled, Dies, Timeout, Alive, childVars
<1>7. ClosureInv(r)'
  BY <1>1, <1>2, <1>5, <1>6 DEF ClosureInv, MidSwap, Running
<1>8. RenamedInv(r)'
  BY <1>1, <1>2 DEF RenamedInv, tempVars
<1> QED BY <1>2, <1>3, <1>4, <1>7, <1>8, OneRunExclusion

LEMMA WritesExclusion ==
  ASSUME TypeOK, ExclusionInv, NEW r \in Runs, ChildWrites(r)
  PROVE  ExclusionInv'
<1>1. /\ ClosureInv(r) /\ child[r] = "scanning"
      /\ UNCHANGED <<scan, completion, ending, closing, flags, taskVars>>
  BY DEF ExclusionInv, ChildWrites, childUnchanged, moduleVars
<1>2. SameScan
  BY <1>1 DEF SameScan
<1>3. Running /\ scan.run = r /\ completion[r] = "none"
  BY <1>1 DEF ClosureInv
<1>4. ASSUME NEW s \in Runs PROVE ClosureInv(s)' /\ RenamedInv(s)'
  <2>1. ClosureInv(s)
    BY DEF ExclusionInv
  <2>2. completion[s] \notin Swapping
    BY <1>3, <2>1 DEF ClosureInv, MidSwap, Swapping
  <2>3. RenamedInv(s)'
    BY <1>1, <2>2 DEF RenamedInv, Swapping
  <2>4. CASE s = r
    <3>1. child'[r] = "written"
      BY DEF ChildWrites, TypeOK
    <3> QED BY <1>1, <2>1, <2>3, <2>4, <3>1 DEF ClosureInv, MidSwap, Running
  <2>5. CASE s # r
    <3>1. SameClosure(s)
      BY <1>1, <2>5 DEF SameClosure, ChildWrites, TypeOK
    <3> QED BY <1>2, <2>1, <2>3, <3>1, ClosureFrame
  <2> QED BY <2>4, <2>5
<1>5. vulnsTmp' = r /\ pathsTmp' \in {0, r}
  BY <1>3 DEF ChildWrites, ExclusionInv, TempsOfTheRunningScan
<1>6. TempsOfTheRunningScan'
  BY <1>1, <1>3, <1>5 DEF TempsOfTheRunningScan, Running
<1> QED BY <1>1, <1>4, <1>6 DEF ExclusionInv, Running, taskVars

LEMMA SpawnExclusion ==
  ASSUME TypeOK, ExclusionInv, NEW r \in Runs, SpawnError(r)
  PROVE  ExclusionInv'
<1>1. /\ ClosureInv(r) /\ RenamedInv(r) /\ child[r] = "scanning"
      /\ UNCHANGED <<scan, completion, closing, tempVars, taskVars>>
  BY DEF ExclusionInv, SpawnError, moduleVars
<1>2. Running /\ scan.run = r /\ completion[r] = "none" /\ closing[r] = "none"
  BY <1>1 DEF ClosureInv
<1>3. child'[r] = "dead" /\ "ended" \in flags'[r] /\ ending'[r] = "failed"
  BY DEF SpawnError, End, TypeOK
<1>4. ASSUME NEW s \in Runs, s # r PROVE SameClosure(s)
  BY <1>1, <1>4 DEF SameClosure, SpawnError, End, TypeOK
<1>5. ClosureInv(r)' /\ RenamedInv(r)'
  BY <1>1, <1>2, <1>3, Members DEF ClosureInv, RenamedInv, MidSwap, Running, Swapping
<1> QED BY <1>1, <1>4, <1>5, OneRunExclusion DEF SameScan

(* stdout 'end' of a run that is not over: it is the running scan.         *)
LEMMA StdoutExclusion ==
  ASSUME TypeOK, ExclusionInv, NEW r \in Runs, StdoutEnd(r)
  PROVE  ExclusionInv'
<1>1. /\ ClosureInv(r) /\ RenamedInv(r) /\ child[r] \in {"fetching", "dead"}
      /\ UNCHANGED <<scan, closing, child, tempVars, taskVars>>
  BY DEF ExclusionInv, StdoutEnd, moduleVars, childVars
<1>2. closing[r] = "none"
  BY <1>1 DEF ClosureInv
<1>3. ASSUME NEW s \in Runs, s # r PROVE SameClosure(s)
  BY <1>1, <1>3 DEF SameClosure, StdoutEnd, End, TypeOK
<1>4. ClosureInv(r)' /\ RenamedInv(r)'
  <2>1. CASE ~Printed(r)
    <3>1. /\ completion' = completion /\ ending' = ending
          /\ "ended" \in flags'[r] <=> "ended" \in flags[r]
      BY <2>1 DEF StdoutEnd, TypeOK
    <3> QED BY <1>1, <3>1 DEF ClosureInv, RenamedInv, MidSwap, Running, tempVars
  <2>2. CASE Printed(r)
    <3>1. "ended" \notin flags[r] /\ Running /\ scan.run = r /\ ending[r] = "none"
      BY <1>1, <1>2, <2>2 DEF Printed, ClosureInv
    <3>2. \/ completion'[r] = "ending" /\ ending'[r] = "failed" /\ "ended" \in flags'[r]
          \/ completion'[r] = "read" /\ ending'[r] = "none" /\ "ended" \notin flags'[r]
      BY <2>2, <3>1 DEF StdoutEnd, End, TypeOK
    <3> QED BY <1>1, <1>2, <3>1, <3>2 DEF ClosureInv, RenamedInv, MidSwap, Running, Swapping
  <2> QED BY <2>1, <2>2
<1> QED BY <1>1, <1>3, <1>4, OneRunExclusion DEF SameScan

(* The steps of complete() before the archive is done: the scan is still   *)
(* the running one, on its way to the next file or ending.                 *)
CompleteStep(r) ==
  CompleteRead(r) \/ CompleteWrite(r) \/ CompleteRenameVulns(r) \/ CompleteRenamePaths(r)
    \/ CompleteCopyGraph(r) \/ CompleteCopyVulns(r)

LEMMA CompleteExclusion ==
  ASSUME TypeOK, ExclusionInv, NEW r \in Runs, CompleteStep(r)
  PROVE  ExclusionInv'
<1>1. /\ ClosureInv(r) /\ RenamedInv(r) /\ completion[r] \in Swapping
      /\ UNCHANGED <<scan, closing, child, taskVars>>
  BY DEF ExclusionInv, CompleteStep, CompleteRead, CompleteWrite, CompleteRenameVulns,
     CompleteRenamePaths, CompleteCopyGraph, CompleteCopyVulns, completeUnchanged, Swapping,
     moduleVars, childVars
<1>2. /\ Running /\ scan.run = r /\ ending[r] = "none" /\ closing[r] # "handled"
      /\ child[r] \notin {"unborn", "scanning", "written"}
  BY <1>1 DEF ClosureInv, MidSwap, Swapping
<1>3. \/ \E next \in Swapping : GoOn(r, next)
      \/ \E status \in {"idle", "failed"}, how \in {"partial", "failed"} : GiveUp(r, status, how)
  BY DEF CompleteStep, CompleteRead, CompleteWrite, CompleteRenameVulns,
     CompleteRenamePaths, CompleteCopyGraph, CompleteCopyVulns, Swapping
<1>4. ASSUME NEW s \in Runs, s # r PROVE SameClosure(s)
  BY <1>1, <1>3, <1>4 DEF SameClosure, GoOn, GiveUp, End, TypeOK
<1>5. ClosureInv(r)'
  <2>1. CASE \E next \in Swapping : GoOn(r, next)
    <3>1. completion'[r] \in Swapping /\ UNCHANGED <<flags, ending>>
      BY <2>1 DEF GoOn, TypeOK
    <3> QED BY <1>1, <1>2, <3>1 DEF ClosureInv, MidSwap, Running
  <2>2. CASE \E status \in {"idle", "failed"}, how \in {"partial", "failed"} : GiveUp(r, status, how)
    <3>1. completion'[r] = "ending" /\ "ended" \in flags'[r] /\ ending'[r] # "none"
      BY <2>2 DEF GiveUp, End, TypeOK
    <3> QED BY <1>1, <1>2, <3>1 DEF ClosureInv, MidSwap, Running, Swapping
  <2> QED BY <1>3, <2>1, <2>2
<1>6. ASSUME NEW s \in Runs PROVE ClosureInv(s)' /\ RenamedInv(s)'
  <2>1. ClosureInv(s) /\ RenamedInv(s)
    BY DEF ExclusionInv
  <2>2. CASE s # r
    <3>1. completion[s] \notin Swapping /\ completion'[s] \notin Swapping
      BY <1>2, <1>4, <2>1, <2>2 DEF ClosureInv, MidSwap, SameClosure
    <3>2. RenamedInv(s)'
      BY <3>1 DEF RenamedInv, Swapping
    <3> QED BY <1>1, <1>4, <2>1, <2>2, <3>2, ClosureFrame DEF SameScan
  <2>3. CASE s = r
    <3>1. RenamedInv(r)'
      BY <1>1 DEF RenamedInv, CompleteStep, CompleteRead, CompleteWrite,
         CompleteRenameVulns, CompleteRenamePaths, CompleteCopyGraph, CompleteCopyVulns,
         GoOn, GiveUp, TypeOK, tempVars
    <3> QED BY <1>5, <2>3, <3>1
  <2> QED BY <2>2, <2>3
<1>7. vulnsTmp' \in {0, vulnsTmp} /\ pathsTmp' \in {0, pathsTmp}
  BY DEF CompleteStep, CompleteRead, CompleteWrite, CompleteRenameVulns,
     CompleteRenamePaths, CompleteCopyGraph, CompleteCopyVulns, tempVars
<1>8. TempsOfTheRunningScan'
  BY <1>1, <1>2, <1>7 DEF ExclusionInv, TempsOfTheRunningScan, Running
<1> QED BY <1>1, <1>6, <1>8 DEF ExclusionInv, Running, taskVars

(* A step that ends the running scan and frees the lock: the one run that  *)
(* owed work owes none any more, and no temp file is left.                 *)
LEMMA ReleaseExclusion ==
  ASSUME ExclusionInv, NEW r \in Runs, Running, scan.run = r,
         scan'.run = r, scan'.status # "running", UNCHANGED taskVars,
         vulnsTmp' = 0, pathsTmp' = 0,
         \A s \in Runs : s # r => SameClosure(s), ClosureInv(r)'
  PROVE  ExclusionInv'
<1>1. ASSUME NEW s \in Runs PROVE ClosureInv(s)'
  <2>1. ClosureInv(s)
    BY DEF ExclusionInv
  <2> QED BY <2>1, ReleaseFrame
<1>2. ASSUME NEW s \in Runs PROVE RenamedInv(s)'
  BY DEF RenamedInv
<1> QED BY <1>1, <1>2 DEF ExclusionInv, TempsOfTheRunningScan, Running, taskVars

LEMMA ArchiveExclusion ==
  ASSUME TypeOK, ExclusionInv, NEW r \in Runs, CompleteArchive(r)
  PROVE  ExclusionInv'
<1>1. /\ ClosureInv(r) /\ RenamedInv(r) /\ completion[r] = "copyPaths"
      /\ UNCHANGED <<ending, closing, child, taskVars, tempVars>>
  BY DEF ExclusionInv, CompleteArchive, childVars
<1>2. /\ Running /\ scan.run = r /\ ending[r] = "none" /\ closing[r] # "handled"
      /\ child[r] \notin {"unborn", "scanning", "written"} /\ vulnsTmp = 0 /\ pathsTmp = 0
  BY <1>1 DEF ClosureInv, RenamedInv, MidSwap, Swapping
<1>3. scan'.run = r /\ scan'.status = "idle"
  BY <1>2, ScanUpdates DEF CompleteArchive, TypeOK
<1>4. completion'[r] = "done" /\ "ended" \in flags'[r]
  BY DEF CompleteArchive, TypeOK
<1>5. ASSUME NEW s \in Runs, s # r PROVE SameClosure(s)
  BY <1>1, <1>5 DEF SameClosure, CompleteArchive, TypeOK
<1>6. ClosureInv(r)'
  <2>1. r \in Int
    BY Members
  <2> QED BY <1>1, <1>2, <1>3, <1>4, <2>1 DEF ClosureInv, MidSwap, Running, Swapping
<1>7. vulnsTmp' = 0 /\ pathsTmp' = 0
  BY <1>1, <1>2 DEF tempVars
<1> QED BY <1>1, <1>2, <1>3, <1>5, <1>6, <1>7, ReleaseExclusion

LEMMA DiscardedExclusion ==
  ASSUME TypeOK, ExclusionInv, NEW r \in Runs, Discarded(r)
  PROVE  ExclusionInv'
<1>1. /\ ClosureInv(r) /\ ending[r] # "none"
      /\ UNCHANGED <<closing, child, taskVars>> /\ vulnsTmp' = 0 /\ pathsTmp' = 0
  BY DEF ExclusionInv, Discarded, DiscardTemps
<1>2. /\ Running /\ scan.run = r /\ completion[r] \notin Swapping
      /\ child[r] \notin {"unborn", "scanning", "written"}
  BY <1>1 DEF ClosureInv, MidSwap
<1>3. scan'.run = r /\ scan'.status # "running"
  BY <1>2, ScanUpdates DEF Discarded, TypeOK
<1>4. /\ ending'[r] = "none"
      /\ completion'[r] = IF completion[r] = "ending" THEN "done" ELSE completion[r]
  BY DEF Discarded, TypeOK
<1>5. "ended" \in flags'[r] \/ closing[r] = "handled"
  BY <1>1 DEF Discarded, ClosureInv
<1>6. ASSUME NEW s \in Runs, s # r PROVE SameClosure(s)
  BY <1>1, <1>6 DEF SameClosure, Discarded, Forget, TypeOK
<1>7. ClosureInv(r)'
  <2>1. r \in Int
    BY Members
  <2>2. "done" \notin Swapping
    BY DEF Swapping
  <2> QED BY <1>1, <1>2, <1>3, <1>4, <1>5, <2>1, <2>2 DEF ClosureInv, MidSwap, Running
<1> QED BY <1>1, <1>2, <1>3, <1>6, <1>7, ReleaseExclusion

(* 'close' of a run that is not over: it is the running scan.              *)
LEMMA CloseExclusion ==
  ASSUME TypeOK, ExclusionInv, NEW r \in Runs, Close(r)
  PROVE  ExclusionInv'
<1>1. /\ ClosureInv(r) /\ RenamedInv(r) /\ child[r] = "dead" /\ child'[r] = "closed"
      /\ UNCHANGED <<scan, completion, tempVars, taskVars>>
  BY DEF ExclusionInv, Close, TypeOK, moduleVars
<1>2. closing[r] = "none"
  BY <1>1 DEF ClosureInv
<1>3. ASSUME NEW s \in Runs, s # r PROVE SameClosure(s)
  BY <1>1, <1>3 DEF SameClosure, Close, Forget, End, TypeOK
<1>4. \/ /\ completion[r] # "none" /\ closing'[r] = "awaiting" /\ ending'[r] = ending[r]
         /\ "ended" \in flags'[r] <=> "ended" \in flags[r]
      \/ /\ completion[r] = "none" /\ "ended" \in flags[r]
         /\ closing'[r] = "handled" /\ ending'[r] = ending[r]
      \/ /\ completion[r] = "none" /\ "ended" \notin flags[r]
         /\ closing'[r] = "handled" /\ "ended" \in flags'[r]
  BY DEF Close, End, TypeOK
<1>5. ClosureInv(r)'
  BY <1>1, <1>2, <1>4 DEF ClosureInv, MidSwap, Running, Swapping
<1>6. RenamedInv(r)'
  BY <1>1 DEF RenamedInv, tempVars
<1> QED BY <1>1, <1>3, <1>5, <1>6, OneRunExclusion DEF SameScan

(* The last turn of a handled run; its rescore takes a lock that is free.  *)
LEMMA RefinedExclusion ==
  ASSUME TypeOK, ExclusionInv, NEW r \in Runs, Refined(r)
  PROVE  ExclusionInv'
<1>1. /\ closing[r] = "awaiting" /\ completion[r] = "done" /\ closing'[r] = "handled"
      /\ UNCHANGED <<completion, ending, child, tempVars>>
  BY DEF Refined, TypeOK
<1>2. scan'.run = scan.run /\ scan'.status = scan.status
  BY RefiningOverUpdate DEF Refined, TypeOK
<1>3. ASSUME NEW s \in Runs PROVE ClosureInv(s)' /\ RenamedInv(s)'
  <2>1. ClosureInv(s) /\ RenamedInv(s)
    BY DEF ExclusionInv
  <2>2. RenamedInv(s)'
    BY <1>1, <2>1 DEF RenamedInv, tempVars
  <2>3. CASE s # r
    <3>1. SameClosure(s)
      BY <1>1, <2>3 DEF SameClosure, Refined, Forget, TypeOK
    <3> QED BY <1>2, <2>1, <2>2, <3>1, ClosureFrame DEF SameScan
  <2>4. CASE s = r
    <3>1. child[r] = "closed"
      BY <1>1, <2>1, <2>4 DEF ClosureInv
    <3> QED BY <1>1, <1>2, <2>1, <2>2, <2>4, <3>1 DEF ClosureInv, MidSwap, Running, Swapping
  <2> QED BY <2>3, <2>4
<1>4. \/ ~Running /\ exclusiveTask'
      \/ UNCHANGED taskVars
  BY DEF Refined, Unlocked, Running
<1>5. TempsOfTheRunningScan'
  BY <1>1, <1>2 DEF ExclusionInv, TempsOfTheRunningScan, Running, tempVars
<1> QED BY <1>2, <1>3, <1>4, <1>5 DEF ExclusionInv, Running, taskVars

(* The file-only tasks and a request that stops a scan.                    *)
LEMMA TaskExclusion ==
  ASSUME TypeOK, ExclusionInv, BeginTask \/ TaskNext
  PROVE  ExclusionInv'
<1>1. UNCHANGED <<closureVars, child, tempVars>>
  BY DEF BeginTask, TaskNext, TaskRead, TaskWriteVulns, TaskWritePaths, TaskWriteGraph, TaskEnd,
     taskUnchanged, childVars
<1>2. SameScan
  BY RefiningOverUpdate DEF SameScan, TypeOK, BeginTask, TaskNext, TaskRead, TaskWriteVulns,
     TaskWritePaths, TaskWriteGraph, TaskEnd, taskUnchanged, moduleVars
<1>3. \A s \in Runs : SameClosure(s)
  BY <1>1 DEF SameClosure, closureVars
<1>4. /\ Running' => ~exclusiveTask'
      /\ task'.step # "none" => exclusiveTask'
  <2>1. CASE BeginTask
    BY <1>2, <2>1 DEF BeginTask, Unlocked, SameScan, Running
  <2>2. CASE TaskEnd
    BY <2>2 DEF TaskEnd, NoTask, TaskOf
  <2>3. CASE TaskRead \/ TaskWriteVulns \/ TaskWritePaths \/ TaskWriteGraph
    <3>1. task.step # "none" /\ exclusiveTask' = exclusiveTask
      BY <2>3 DEF TaskRead, TaskWriteVulns, TaskWritePaths, TaskWriteGraph, taskUnchanged
    <3> QED BY <1>2, <3>1 DEF ExclusionInv, Running, SameScan
  <2> QED BY <2>1, <2>2, <2>3 DEF TaskNext
<1> QED BY <1>1, <1>2, <1>3, <1>4, NoRunExclusion

LEMMA PreemptExclusion ==
  ASSUME TypeOK, ExclusionInv, NEW q \in Requests, PostPreempt(q)
  PROVE  ExclusionInv'
<1>1. UNCHANGED <<scan, completion, ending, closing, child, tempVars, taskVars>>
  BY DEF PostPreempt, moduleVars, childVars
<1>2. \A s \in Runs : SameClosure(s)
  BY <1>1 DEF SameClosure, PostPreempt, TypeOK
<1> QED BY <1>1, <1>2, NoRunExclusion DEF SameScan, ExclusionInv, Running, taskVars

LEMMA RequestExclusion ==
  ASSUME TypeOK, ExclusionInv, NEW q \in Requests, Post(q) \/ Resume(q)
  PROVE  ExclusionInv'
<1>1. StartOrRefuse(q)
  BY DEF Post, Resume
<1>2. CASE \E options \in SUBSET {"replaceEmpty"} : StartScan("manual", options)
  BY <1>2, StartExclusion
<1>3. CASE ~ \E options \in SUBSET {"replaceEmpty"} : StartScan("manual", options)
  <2>1. UNCHANGED <<moduleVars, closureVars, childVars, tempVars, taskVars>>
    BY <1>1, <1>3 DEF StartOrRefuse
  <2> QED BY <2>1, NoRunExclusion DEF SameScan, SameClosure, ExclusionInv, Running, moduleVars,
          closureVars, childVars, taskVars
<1> QED BY <1>2, <1>3

LEMMA StutterExclusion == ExclusionInv /\ UNCHANGED vars => ExclusionInv'
BY NoRunExclusion DEF vars, SameScan, SameClosure, ExclusionInv, Running, moduleVars, closureVars,
   childVars, taskVars

LEMMA ExclusionPreserved == TypeOK /\ ExclusionInv /\ [Next]_vars => ExclusionInv'
<1> SUFFICES ASSUME TypeOK, ExclusionInv, [Next]_vars PROVE ExclusionInv'
  OBVIOUS
<1>1. CASE BackgroundStart
  <2>1. {} \in SUBSET {"replaceEmpty"}
    OBVIOUS
  <2> QED BY <1>1, <2>1, StartExclusion DEF BackgroundStart
<1>2. ASSUME NEW r \in Runs, RunNext(r) PROVE ExclusionInv'
  BY <1>2, ChildExclusion, WritesExclusion, SpawnExclusion, StdoutExclusion, CompleteExclusion,
     ArchiveExclusion, CloseExclusion, DiscardedExclusion
     DEF RunNext, ChildNext, HandlerNext, CompleteNext, CompleteStep
<1>3. ASSUME NEW q \in Requests, Post(q) \/ PostPreempt(q) \/ Resume(q) PROVE ExclusionInv'
  BY <1>3, PreemptExclusion, RequestExclusion
<1>4. ASSUME NEW r \in Runs, Refined(r) PROVE ExclusionInv'
  BY <1>4, RefinedExclusion
<1>5. CASE BeginTask \/ TaskNext
  BY <1>5, TaskExclusion
<1>6. CASE UNCHANGED vars
  BY <1>6, StutterExclusion
<1> QED BY <1>1, <1>2, <1>3, <1>4, <1>5, <1>6 DEF Next, ContinuationNext

(* The lock: one scan or one file-only task at a time, and whatever a scan *)
(* still owes the files it owes while it is the running scan.              *)
THEOREM Exclusion == Spec => []ExclusionInv
<1>1. ASSUME Init PROVE ExclusionInv
  <2>1. ASSUME NEW r \in Runs PROVE ClosureInv(r) /\ RenamedInv(r)
    BY <1>1, <2>1 DEF Init, ClosureInv, RenamedInv, MidSwap, Swapping
  <2> QED BY <1>1, <2>1 DEF Init, ExclusionInv, TempsOfTheRunningScan, NoTask, TaskOf, Running
<1> QED BY <1>1, ExclusionPreserved, TypeCorrect, PTL DEF Spec

THEOREM OneScanAtATime == Spec => []OneAtATime
<1>1. ExclusionInv => OneAtATime
  BY DEF ExclusionInv, ClosureInv, OneAtATime
<1> QED BY <1>1, Exclusion, PTL

(* A temp file is the running scan's own.                                  *)
THEOREM TempFilesAreCurrent == Spec => []TempsOfTheRunningScan
<1>1. ExclusionInv => TempsOfTheRunningScan
  BY DEF ExclusionInv
<1> QED BY <1>1, Exclusion, PTL

(* The graph, the CVE list and the routes change only under the lock.      *)
THEOREM FilesUnderTheLock == Spec => FilesChangeUnderTheLock
<1> DEFINE Locked == mapVars' # mapVars => (Running <=> ~exclusiveTask) /\ UNCHANGED <<scan, exclusiveTask>>
<1>1. ASSUME TypeOK, ExclusionInv, Next PROVE Locked
  <2>1. ASSUME NEW r \in Runs, CompleteWrite(r) \/ CompleteRenameVulns(r) \/ CompleteRenamePaths(r)
        PROVE  Locked
    <3>1. completion[r] \in Swapping /\ UNCHANGED <<scan, exclusiveTask>>
      BY <2>1 DEF CompleteWrite, CompleteRenameVulns, CompleteRenamePaths, Swapping,
         completeUnchanged, moduleVars, taskVars
    <3>2. Running /\ ~exclusiveTask
      BY <1>1, <3>1 DEF ExclusionInv, ClosureInv, MidSwap
    <3> QED BY <3>1, <3>2
  <2>2. CASE TaskWriteVulns \/ TaskWritePaths \/ TaskWriteGraph
    <3>1. task.step # "none" /\ UNCHANGED <<scan, exclusiveTask>>
      BY <2>2 DEF TaskWriteVulns, TaskWritePaths, TaskWriteGraph, taskUnchanged, moduleVars
    <3>2. ~Running /\ exclusiveTask
      BY <1>1, <3>1 DEF ExclusionInv
    <3> QED BY <3>1, <3>2
  <2>3. ASSUME NEW r \in Runs, RunNext(r) PROVE Locked
    <3>1. CASE ChildNext(r) \/ Timeout(r)
      BY <3>1 DEF ChildNext, ChildWrites, ChildEmits, ChildExits, ChildFails, ChildKilled, Dies,
         Timeout, childUnchanged
    <3>2. CASE SpawnError(r) \/ StdoutEnd(r) \/ Close(r) \/ Discarded(r)
      BY <3>2 DEF SpawnError, StdoutEnd, Close, Discarded
    <3>3. CASE CompleteRead(r) \/ CompleteCopyGraph(r) \/ CompleteCopyVulns(r) \/ CompleteArchive(r)
      BY <3>3 DEF CompleteRead, CompleteCopyGraph, CompleteCopyVulns, CompleteArchive
    <3> QED BY <2>1, <2>3, <3>1, <3>2, <3>3 DEF RunNext, HandlerNext, CompleteNext
  <2>4. CASE BackgroundStart \/ BeginTask \/ TaskRead \/ TaskEnd
    BY <2>4 DEF BackgroundStart, StartScan, BeginTask, TaskRead, TaskEnd
  <2>5. ASSUME NEW q \in Requests, Post(q) \/ PostPreempt(q) \/ Resume(q) PROVE Locked
    BY <2>5 DEF Post, PostPreempt, Resume, StartOrRefuse, StartScan
  <2>6. ASSUME NEW r \in Runs, Refined(r) PROVE Locked
    BY <2>6 DEF Refined
  <2> QED BY <1>1, <2>2, <2>3, <2>4, <2>5, <2>6 DEF Next, ContinuationNext, TaskNext
<1>2. TypeOK /\ ExclusionInv /\ [Next]_vars => [Locked]_vars
  BY <1>1
<1> QED BY <1>2, TypeCorrect, Exclusion, PTL DEF Spec, FilesChangeUnderTheLock, Locked

-----------------------------------------------------------------------------
(* The lock a state of the service shows, and how a step of the service    *)
(* moves it.                                                               *)
LEMMA TriggerStays ==
  ASSUME scan \in ScanStates, NEW r \in Runs
  PROVE  Saved(r).trigger = scan.trigger /\ Released(r).trigger = scan.trigger
BY DEF ScanStates, Saved, Released

LEMMA LockStutters ==
  ASSUME scan'.status = scan.status, scan'.trigger = scan.trigger,
         UNCHANGED <<exclusiveTask, mapVars>>
  PROVE  UNCHANGED Lock!vars
BY DEF Lock!vars, Lock!lockVars, Holder, Running

LEMMA LockIsTaken ==
  ASSUME NEW who \in Triggers, NEW options, StartScan(who, options)
  PROVE  Lock!StartScan(who)
BY DEF StartScan, Unlocked, Lock!StartScan, Lock!Free, Holder, Running, taskVars, mapVars

LEMMA LockIsReleased ==
  ASSUME Running, ~exclusiveTask, scan'.status \in {"idle", "failed"},
         scan'.trigger = scan.trigger, UNCHANGED <<exclusiveTask, mapVars>>
  PROVE  Lock!Next
<1>1. Lock!EndScan(scan'.status)
  BY DEF Lock!EndScan, Holder, Running
<1> QED BY <1>1 DEF Lock!Next

LEMMA LockIsWrittenUnder ==
  ASSUME Running \/ exclusiveTask, UNCHANGED <<scan, exclusiveTask>>
  PROVE  Lock!Next
BY DEF Lock!Next, Lock!Write, Lock!Free, Lock!lockVars, Holder, Running

(* The service implements the abstract lock: every step of a scan, of its  *)
(* child, of a request or of a task takes, releases or uses the lock as    *)
(* ScanLock allows, or leaves it alone.                                    *)
THEOREM ImplementsTheLock == Spec => KeepsTheLock
<1>1. Init => Lock!Init
  BY DEF Init, Lock!Init, Holder, Running, Triggers, TypeOK
<1>2. ASSUME TypeOK, ExclusionInv, Next PROVE Lock!Next \/ UNCHANGED Lock!vars
  <2>1. scan \in ScanStates
    BY <1>2 DEF TypeOK
  <2>2. ASSUME NEW r \in Runs, RunNext(r) PROVE Lock!Next \/ UNCHANGED Lock!vars
    <3>1. CASE ChildNext(r) \/ Timeout(r)
      <4>1. UNCHANGED <<scan, exclusiveTask, mapVars>>
        BY <3>1 DEF ChildNext, ChildWrites, ChildEmits, ChildExits, ChildFails, ChildKilled, Dies,
           Timeout, childUnchanged, moduleVars, taskVars
      <4> QED BY <4>1, LockStutters
    <3>2. CASE SpawnError(r) \/ StdoutEnd(r) \/ Close(r)
      <4>1. UNCHANGED <<scan, exclusiveTask, mapVars>>
        BY <3>2 DEF SpawnError, StdoutEnd, Close, moduleVars, taskVars
      <4> QED BY <4>1, LockStutters
    <3>3. CASE CompleteRead(r) \/ CompleteCopyGraph(r) \/ CompleteCopyVulns(r)
      <4>1. UNCHANGED <<scan, exclusiveTask, mapVars>>
        BY <3>3 DEF CompleteRead, CompleteCopyGraph, CompleteCopyVulns, completeUnchanged,
           moduleVars, taskVars
      <4> QED BY <4>1, LockStutters
    <3>4. CASE CompleteWrite(r) \/ CompleteRenameVulns(r) \/ CompleteRenamePaths(r)
      <4>1. completion[r] \in Swapping /\ UNCHANGED <<scan, exclusiveTask>>
        BY <3>4 DEF CompleteWrite, CompleteRenameVulns, CompleteRenamePaths, Swapping,
           completeUnchanged, moduleVars, taskVars
      <4>2. Running
        BY <1>2, <2>2, <4>1 DEF ExclusionInv, ClosureInv, MidSwap
      <4> QED BY <4>1, <4>2, LockIsWrittenUnder
    <3>5. CASE CompleteArchive(r)
      <4>1. completion[r] \in Swapping /\ scan' = Saved(r) /\ UNCHANGED <<exclusiveTask, mapVars>>
        BY <3>5 DEF CompleteArchive, Swapping, taskVars
      <4>2. Running /\ ~exclusiveTask
        BY <1>2, <2>2, <4>1 DEF ExclusionInv, ClosureInv, MidSwap
      <4> QED BY <2>1, <2>2, <4>1, <4>2, ScanUpdates, TriggerStays, LockIsReleased
    <3>6. CASE Discarded(r)
      <4>1. ending[r] # "none" /\ scan' = Released(r) /\ UNCHANGED <<exclusiveTask, mapVars>>
        BY <3>6 DEF Discarded, taskVars
      <4>2. Running /\ ~exclusiveTask
        BY <1>2, <2>2, <4>1 DEF ExclusionInv, ClosureInv, MidSwap
      <4> QED BY <2>1, <2>2, <4>1, <4>2, ScanUpdates, TriggerStays, LockIsReleased
    <3> QED BY <2>2, <3>1, <3>2, <3>3, <3>4, <3>5, <3>6 DEF RunNext, HandlerNext, CompleteNext
  <2>3. CASE BackgroundStart
    <3>1. PICK who \in Triggers : StartScan(who, {})
      BY <2>3 DEF BackgroundStart, Triggers
    <3> QED BY <3>1, LockIsTaken DEF Lock!Next
  <2>4. ASSUME NEW q \in Requests, Post(q) \/ Resume(q) PROVE Lock!Next \/ UNCHANGED Lock!vars
    <3>1. CASE \E options \in SUBSET {"replaceEmpty"} : StartScan("manual", options)
      BY <3>1, LockIsTaken DEF Lock!Next, Triggers
    <3>2. CASE UNCHANGED <<moduleVars, mapVars, taskVars>>
      BY <3>2, LockStutters DEF moduleVars, taskVars
    <3> QED BY <2>4, <3>1, <3>2 DEF Post, Resume, StartOrRefuse
  <2>5. ASSUME NEW q \in Requests, PostPreempt(q) PROVE UNCHANGED Lock!vars
    BY <2>5, LockStutters DEF PostPreempt, moduleVars, taskVars
  <2>6. ASSUME NEW r \in Runs, Refined(r) PROVE Lock!Next \/ UNCHANGED Lock!vars
    <3>1. CASE Unlocked /\ exclusiveTask' = TRUE /\ UNCHANGED <<scan, mapVars>>
      <4>1. Lock!BeginTask
        BY <3>1 DEF Unlocked, Lock!BeginTask, Lock!Free, Holder, Running
      <4> QED BY <4>1 DEF Lock!Next
    <3>2. CASE scan' = RefiningOver /\ UNCHANGED <<exclusiveTask, mapVars>>
      BY <2>1, <3>2, RefiningOverUpdate, LockStutters
    <3> QED BY <2>6, <3>1, <3>2 DEF Refined, taskVars
  <2>7. CASE BeginTask
    <3>1. Lock!BeginTask
      BY <2>7 DEF BeginTask, Unlocked, Lock!BeginTask, Lock!Free, Holder, Running, moduleVars
    <3> QED BY <3>1 DEF Lock!Next
  <2>8. CASE TaskRead
    BY <2>8, LockStutters DEF TaskRead, taskUnchanged, moduleVars
  <2>9. CASE TaskWriteVulns \/ TaskWritePaths \/ TaskWriteGraph
    <3>1. task.step # "none" /\ UNCHANGED <<scan, exclusiveTask>>
      BY <2>9 DEF TaskWriteVulns, TaskWritePaths, TaskWriteGraph, taskUnchanged, moduleVars
    <3>2. exclusiveTask
      BY <1>2, <3>1 DEF ExclusionInv
    <3> QED BY <3>1, <3>2, LockIsWrittenUnder
  <2>10. CASE TaskEnd
    <3>1. /\ exclusiveTask /\ exclusiveTask' = FALSE /\ UNCHANGED mapVars
          /\ scan' = scan \/ scan' = RefiningOver
      BY <2>10 DEF TaskEnd
    <3>2. scan'.status = scan.status /\ scan'.trigger = scan.trigger /\ ~Running
      BY <1>2, <2>1, <3>1, RefiningOverUpdate DEF ExclusionInv
    <3>3. Lock!EndTask
      BY <3>1, <3>2 DEF Lock!EndTask, Holder, Running
    <3> QED BY <3>3 DEF Lock!Next
  <2> QED BY <1>2, <2>2, <2>3, <2>4, <2>5, <2>6, <2>7, <2>8, <2>9, <2>10
          DEF Next, ContinuationNext, TaskNext
<1>3. UNCHANGED vars => UNCHANGED Lock!vars
  BY LockStutters DEF vars, moduleVars, taskVars
<1>4. TypeOK /\ ExclusionInv /\ [Next]_vars => [Lock!Next]_(Lock!vars)
  BY <1>2, <1>3
<1> QED BY <1>1, <1>4, TypeCorrect, Exclusion, PTL DEF Spec, KeepsTheLock, Lock!Spec

-----------------------------------------------------------------------------
(* How a run ended, and who is told.  A step that leaves alone what is     *)
(* known of a run's end.                                                   *)
SameOutcome(s) ==
  /\ outcome'[s] = outcome[s] /\ ending'[s] = ending[s]
  /\ child'[s] = "unborn" => child[s] = "unborn"
  /\ "ended" \in flags'[s] \/ closing'[s] = "handled" \/
       ("ended" \notin flags[s] /\ closing[s] # "handled")

SameClosures == UNCHANGED <<stopRunning, onScanDone, reported>> /\ SameScan

LEMMA QuietSettled ==
  ASSUME SettledInv, SameClosures, \A s \in Runs : SameOutcome(s)
  PROVE  SettledInv'
<1>1. ASSUME NEW s \in Runs PROVE OutcomeInv(s)'
  BY DEF SettledInv, SameOutcome, OutcomeInv
<1>2. StopClosureOfTheRunningScan'
  BY DEF SettledInv, StoppedAndToldRightly, StopClosureOfTheRunningScan, SameClosures, SameScan,
     Running
<1>3. ReportedTruthfully'
  BY DEF SettledInv, StoppedAndToldRightly, ReportedTruthfully, SameClosures, SameOutcome
<1> QED BY <1>1, <1>2, <1>3 DEF SettledInv, StoppedAndToldRightly

(* The step that decides how a run ends.                                   *)
LEMMA EndSettled ==
  ASSUME TypeOK, SettledInv, SameClosures, NEW r \in Runs, NEW how \in Outcomes,
         outcome[r] = "none", outcome' = [outcome EXCEPT ![r] = how],
         \A s \in Runs : s # r => SameOutcome(s), OutcomeInv(r)'
  PROVE  SettledInv'
<1>1. ASSUME NEW s \in Runs PROVE OutcomeInv(s)'
  BY DEF SettledInv, SameOutcome, OutcomeInv
<1>2. StopClosureOfTheRunningScan'
  BY DEF SettledInv, StoppedAndToldRightly, StopClosureOfTheRunningScan, SameClosures, SameScan,
     Running
<1>3. ReportedTruthfully'
  <2>1. reported[r] = "none"
    BY DEF SettledInv, StoppedAndToldRightly, ReportedTruthfully, TypeOK, Reports
  <2>2. \A s \in Runs : outcome'[s] = IF s = r THEN how ELSE outcome[s]
    BY DEF TypeOK
  <2> QED BY <2>1, <2>2 DEF SettledInv, StoppedAndToldRightly, ReportedTruthfully, SameClosures
<1> QED BY <1>1, <1>2, <1>3 DEF SettledInv, StoppedAndToldRightly

(* What a scan that starts finds, and what it leaves of the other runs.    *)
LEMMA StartFrame ==
  ASSUME TypeOK, ExclusionInv, NEW trigger, NEW options \in SUBSET {"replaceEmpty"},
         StartScan(trigger, options)
  PROVE  /\ NextRun \in Runs /\ NextRun > scan.run /\ scan.run \in Int /\ NextRun # scan.run
         /\ NextRun # 0 /\ child[NextRun] = "unborn" /\ child'[NextRun] = "scanning"
         /\ completion[NextRun] = "none" /\ ending[NextRun] = "none" /\ closing[NextRun] = "none"
         /\ flags'[NextRun] = {"timer"} \cup options
         /\ \A s \in Runs : s # NextRun =>
              /\ child'[s] = child[s] /\ flags'[s] \ {"killed"} = flags[s] \ {"killed"}
              /\ flags[s] \subseteq flags'[s]
              /\ s = refiner => "killed" \in flags'[s]
<1>1. NextRun \in Runs /\ scan.run \in Versions
  BY DEF StartScan, TypeOK, ScanStates
<1>2. /\ scan.run \in Int /\ NextRun \in Int /\ NextRun > scan.run /\ NextRun # 0
      /\ NextRun # scan.run
  <2>1. scan.run \in Int
    BY <1>1, Members
  <2>2. 0 \notin Runs
    BY DEF Runs
  <2> QED BY <1>1, <2>1, <2>2 DEF NextRun
<1>3. ClosureInv(NextRun)
  BY <1>1 DEF ExclusionInv
<1>4. child[NextRun] = "unborn"
  BY <1>2, <1>3 DEF ClosureInv
<1>5. completion[NextRun] = "none" /\ ending[NextRun] = "none" /\ closing[NextRun] = "none"
  BY <1>3, <1>4 DEF ClosureInv
<1>6. child'[NextRun] = "scanning" /\ \A s \in Runs : s # NextRun => child'[s] = child[s]
  BY <1>1 DEF StartScan, TypeOK
<1>7. flags'[NextRun] = {"timer"} \cup options
  BY <1>1 DEF StartScan, Killed
<1>8. ASSUME NEW s \in Runs, s # NextRun
      PROVE  /\ flags'[s] \ {"killed"} = flags[s] \ {"killed"} /\ flags[s] \subseteq flags'[s]
             /\ s = refiner => "killed" \in flags'[s]
  <2>1. flags'[s] = IF s = refiner THEN flags[s] \cup {"killed"} ELSE flags[s]
    BY <1>1, <1>8 DEF StartScan, TypeOK, Killed
  <2> QED BY <2>1
<1> QED BY <1>1, <1>2, <1>4, <1>5, <1>6, <1>7, <1>8

LEMMA StartSettled ==
  ASSUME TypeOK, ExclusionInv, SettledInv, NEW trigger, NEW options \in SUBSET {"replaceEmpty"},
         StartScan(trigger, options)
  PROVE  SettledInv'
<1>1. UNCHANGED <<outcome, ending, closing, reported>>
  BY DEF StartScan, ghostVars
<1>2. ASSUME NEW s \in Runs PROVE OutcomeInv(s)'
  <2>1. OutcomeInv(s)
    BY DEF SettledInv
  <2>2. CASE s = NextRun
    <3>1. outcome[s] = "none" /\ ending[s] = "none" /\ child'[s] = "scanning"
      BY <2>1, <2>2, StartFrame DEF OutcomeInv
    <3> QED BY <1>1, <3>1 DEF OutcomeInv
  <2>3. CASE s # NextRun
    <3>1. child'[s] = child[s] /\ ("ended" \in flags'[s] <=> "ended" \in flags[s])
      BY <2>3, StartFrame
    <3> QED BY <1>1, <2>1, <3>1 DEF OutcomeInv
  <2> QED BY <2>2, <2>3
<1>3. StopClosureOfTheRunningScan'
  BY StartFrame DEF StopClosureOfTheRunningScan, StartScan, Running
<1>4. ReportedTruthfully'
  BY <1>1 DEF SettledInv, StoppedAndToldRightly, ReportedTruthfully
<1> QED BY <1>2, <1>3, <1>4 DEF SettledInv, StoppedAndToldRightly

(* The scanner, the timer, a stop, a refused request and the file-only     *)
(* tasks decide nothing about a scan.                                      *)
LEMMA ChildSettled ==
  ASSUME TypeOK, SettledInv, NEW r \in Runs, ChildNext(r) \/ Timeout(r)
  PROVE  SettledInv'
<1>1. UNCHANGED childUnchanged
  BY DEF ChildNext, ChildWrites, ChildEmits, ChildExits, ChildFails, ChildKilled, Dies, Timeout
<1>2. \A s \in Runs : /\ child'[s] = "unborn" => child[s] = "unborn"
                      /\ "ended" \in flags'[s] <=> "ended" \in flags[s]
  BY DEF TypeOK, ChildNext, ChildWrites, ChildEmits, ChildExits, ChildFails, ChildKilled, Dies,
     Timeout, childVars, ChildStates
<1>3. SameClosures /\ \A s \in Runs : SameOutcome(s)
  BY <1>1, <1>2 DEF SameClosures, SameScan, SameOutcome, childUnchanged, moduleVars, ghostVars
<1> QED BY <1>3, QuietSettled

LEMMA TaskSettled ==
  ASSUME TypeOK, SettledInv, BeginTask \/ TaskNext
  PROVE  SettledInv'
<1>1. UNCHANGED <<stopRunning, onScanDone, closureVars, childVars, ghostVars>>
  BY DEF BeginTask, TaskNext, TaskRead, TaskWriteVulns, TaskWritePaths, TaskWriteGraph, TaskEnd,
     taskUnchanged, moduleVars
<1>2. SameScan
  BY RefiningOverUpdate DEF SameScan, TypeOK, BeginTask, TaskNext, TaskRead, TaskWriteVulns,
     TaskWritePaths, TaskWriteGraph, TaskEnd, taskUnchanged, moduleVars
<1> QED BY <1>1, <1>2, QuietSettled
        DEF SameClosures, SameOutcome, closureVars, childVars, ghostVars

LEMMA RequestSettled ==
  ASSUME TypeOK, ExclusionInv, SettledInv, NEW q \in Requests, Post(q) \/ PostPreempt(q) \/ Resume(q)
  PROVE  SettledInv'
<1>1. CASE PostPreempt(q)
  <2>1. \A s \in Runs : "ended" \in flags'[s] <=> "ended" \in flags[s]
    BY <1>1 DEF PostPreempt, TypeOK
  <2>2. SameClosures /\ \A s \in Runs : SameOutcome(s)
    BY <1>1, <2>1 DEF SameClosures, SameScan, SameOutcome, PostPreempt, moduleVars, childVars, ghostVars
  <2> QED BY <2>2, QuietSettled
<1>2. CASE \E options \in SUBSET {"replaceEmpty"} : StartScan("manual", options)
  BY <1>2, StartSettled
<1>3. CASE UNCHANGED <<moduleVars, closureVars, childVars, ghostVars>>
  BY <1>3, QuietSettled
     DEF SameClosures, SameScan, SameOutcome, moduleVars, closureVars, childVars, ghostVars
<1> QED BY <1>1, <1>2, <1>3 DEF Post, Resume, StartOrRefuse

(* The four places where a scan is found to have failed or been stopped,   *)
(* and the 'close' that only waits.                                        *)
LEMMA SpawnSettled ==
  ASSUME TypeOK, ExclusionInv, SettledInv, NEW r \in Runs, SpawnError(r)
  PROVE  SettledInv'
<1>1. ClosureInv(r) /\ OutcomeInv(r) /\ child[r] = "scanning"
  BY DEF ExclusionInv, SettledInv, SpawnError
<1>2. outcome[r] = "none"
  BY <1>1 DEF ClosureInv, OutcomeInv
<1>3. SameClosures
  BY DEF SameClosures, SameScan, SpawnError, moduleVars
<1>4. \A s \in Runs : s # r => SameOutcome(s)
  BY DEF SameOutcome, SpawnError, End, TypeOK
<1>5. outcome' = [outcome EXCEPT ![r] = "failed"] /\ "failed" \in Outcomes
  BY DEF SpawnError, End, Outcomes
<1>6. OutcomeInv(r)'
  BY DEF OutcomeInv, SpawnError, End, TypeOK
<1> QED BY <1>2, <1>3, <1>4, <1>5, <1>6, EndSettled

LEMMA StdoutSettled ==
  ASSUME TypeOK, ExclusionInv, SettledInv, NEW r \in Runs, StdoutEnd(r)
  PROVE  SettledInv'
<1>1. ClosureInv(r) /\ OutcomeInv(r) /\ child[r] \in {"fetching", "dead"} /\ closing[r] = "none"
  BY DEF ExclusionInv, SettledInv, StdoutEnd, ClosureInv
<1>2. SameClosures
  BY DEF SameClosures, SameScan, StdoutEnd, moduleVars
<1>3. \A s \in Runs : s # r => SameOutcome(s)
  BY DEF SameOutcome, StdoutEnd, End, TypeOK, childVars
<1>4. CASE Printed(r) /\ output[r] = "broken"
  <2>1. outcome[r] = "none"
    BY <1>1, <1>4 DEF Printed, OutcomeInv
  <2>2. outcome' = [outcome EXCEPT ![r] = "failed"] /\ "failed" \in Outcomes
    BY <1>4 DEF StdoutEnd, End, Outcomes
  <2>3. OutcomeInv(r)'
    BY <1>1, <1>4 DEF OutcomeInv, StdoutEnd, End, TypeOK, childVars
  <2> QED BY <1>2, <1>3, <2>1, <2>2, <2>3, EndSettled
<1>5. CASE ~(Printed(r) /\ output[r] = "broken")
  <2>1. UNCHANGED <<ending, outcome, child, closing>> /\ ("ended" \in flags'[r] <=> "ended" \in flags[r])
    BY <1>5 DEF StdoutEnd, TypeOK, childVars
  <2>2. SameOutcome(r)
    BY <2>1 DEF SameOutcome
  <2> QED BY <1>2, <1>3, <2>2, QuietSettled
<1> QED BY <1>4, <1>5

LEMMA CloseSettled ==
  ASSUME TypeOK, ExclusionInv, SettledInv, NEW r \in Runs, Close(r)
  PROVE  SettledInv'
<1>1. ClosureInv(r) /\ OutcomeInv(r) /\ child[r] = "dead" /\ child'[r] = "closed" /\ closing[r] = "none"
  BY DEF ExclusionInv, SettledInv, Close, ClosureInv, TypeOK
<1>2. SameClosures
  BY DEF SameClosures, SameScan, Close, moduleVars
<1>3. \A s \in Runs : s # r => SameOutcome(s)
  BY DEF SameOutcome, Close, Forget, End, TypeOK
<1>4. CASE completion[r] = "none" /\ "ended" \notin flags[r]
  <2>1. outcome[r] = "none"
    BY <1>1, <1>4 DEF OutcomeInv
  <2> DEFINE how == IF "stopped" \in flags[r] THEN "stopped" ELSE "failed"
  <2>2. /\ outcome' = [outcome EXCEPT ![r] = how] /\ how \in Outcomes
        /\ ending'[r] = how /\ "ended" \in flags'[r]
    BY <1>4 DEF Close, End, Outcomes, TypeOK
  <2>3. OutcomeInv(r)'
    BY <1>1, <2>2 DEF OutcomeInv, TypeOK
  <2> QED BY <1>2, <1>3, <2>1, <2>2, <2>3, EndSettled
<1>5. CASE ~(completion[r] = "none" /\ "ended" \notin flags[r])
  <2>1. /\ UNCHANGED <<ending, outcome>>
        /\ closing'[r] = "handled" \/ ("ended" \in flags'[r] <=> "ended" \in flags[r])
    BY <1>5 DEF Close, TypeOK
  <2>2. SameOutcome(r)
    BY <1>1, <2>1 DEF SameOutcome
  <2> QED BY <1>2, <1>3, <2>2, QuietSettled
<1> QED BY <1>4, <1>5

(* complete() goes on, or gives the scan up.                               *)
LEMMA CompleteSettled ==
  ASSUME TypeOK, ExclusionInv, SettledInv, NEW r \in Runs, CompleteStep(r)
  PROVE  SettledInv'
<1>1. ClosureInv(r) /\ OutcomeInv(r) /\ completion[r] \in Swapping
  BY DEF ExclusionInv, SettledInv, CompleteStep, CompleteRead, CompleteWrite, CompleteRenameVulns,
     CompleteRenamePaths, CompleteCopyGraph, CompleteCopyVulns, Swapping
<1>2. /\ ending[r] = "none" /\ closing[r] # "handled" /\ outcome[r] = "none"
      /\ child[r] \notin {"unborn", "scanning", "written"}
  BY <1>1 DEF ClosureInv, OutcomeInv, Swapping
<1>3. UNCHANGED completeUnchanged
  BY DEF CompleteStep, CompleteRead, CompleteWrite, CompleteRenameVulns, CompleteRenamePaths,
     CompleteCopyGraph, CompleteCopyVulns
<1>4. UNCHANGED <<closing, child>> /\ SameClosures
  BY <1>3 DEF completeUnchanged, moduleVars, childVars, SameClosures, SameScan
<1>5. \/ \E next \in Swapping : GoOn(r, next)
      \/ GiveUp(r, "failed", "failed")
      \/ GiveUp(r, "idle", "partial")
  BY DEF CompleteStep, CompleteRead, CompleteWrite, CompleteRenameVulns, CompleteRenamePaths,
     CompleteCopyGraph, CompleteCopyVulns, Swapping
<1>6. CASE \E next \in Swapping : GoOn(r, next)
  BY <1>4, <1>6, QuietSettled DEF GoOn, SameOutcome
<1>7. ASSUME NEW status, NEW how \in Outcomes, GiveUp(r, status, how),
             \/ status = "failed" /\ how = "failed"
             \/ status = "idle" /\ how = "partial"
      PROVE  SettledInv'
  <2>1. \A s \in Runs : s # r => SameOutcome(s)
    BY <1>4, <1>7 DEF GiveUp, End, SameOutcome, TypeOK
  <2>2. outcome' = [outcome EXCEPT ![r] = how]
    BY <1>7 DEF GiveUp, End
  <2>3. ending'[r] = status /\ "ended" \in flags'[r] /\ outcome'[r] = how
    BY <1>7 DEF GiveUp, End, TypeOK
  <2>4. OutcomeInv(r)'
    BY <1>2, <1>4, <1>7, <2>3 DEF OutcomeInv
  <2> QED BY <1>2, <1>4, <2>1, <2>2, <2>4, EndSettled
<1>8. "failed" \in Outcomes /\ "partial" \in Outcomes
  BY DEF Outcomes
<1> QED BY <1>5, <1>6, <1>7, <1>8

(* The scan that is saved, and the one whose temp files are gone: both are *)
(* the running scan, so the onDone they call is their own.                 *)
LEMMA FinishSettled ==
  ASSUME TypeOK, SettledInv, NEW r \in Runs, NEW status, Running, scan.run = r, scan'.status # "running",
         Finish(status), NEW how \in Outcomes, outcome[r] \in {"none", how},
         outcome' = [outcome EXCEPT ![r] = how],
         \/ status = "failed" /\ how = "failed"
         \/ status # "failed" /\ how \in {"completed", "partial"},
         \A s \in Runs : s # r => SameOutcome(s), OutcomeInv(r)'
  PROVE  SettledInv'
<1>1. ASSUME NEW s \in Runs PROVE OutcomeInv(s)'
  BY DEF SettledInv, SameOutcome, OutcomeInv
<1>2. StopClosureOfTheRunningScan'
  BY DEF StopClosureOfTheRunningScan, Finish, Running
<1>3. onScanDone \in {0, r} /\ 0 \notin Runs
  BY DEF SettledInv, StoppedAndToldRightly, StopClosureOfTheRunningScan, Runs
<1>4. \A s \in Runs : /\ outcome'[s] = IF s = r THEN how ELSE outcome[s]
                      /\ s # r => reported'[s] = reported[s]
  BY <1>3 DEF TypeOK, Finish
<1>5. reported'[r] \in {reported[r], IF status = "failed" THEN "failed" ELSE "ok"}
  BY <1>3 DEF TypeOK, Finish
<1>6. ReportedTruthfully'
  BY <1>4, <1>5 DEF SettledInv, StoppedAndToldRightly, ReportedTruthfully, Reports, TypeOK
<1> QED BY <1>1, <1>2, <1>6 DEF SettledInv, StoppedAndToldRightly

LEMMA ArchiveSettled ==
  ASSUME TypeOK, ExclusionInv, SettledInv, NEW r \in Runs, CompleteArchive(r)
  PROVE  SettledInv'
<1>1. ClosureInv(r) /\ OutcomeInv(r) /\ completion[r] = "copyPaths"
  BY DEF ExclusionInv, SettledInv, CompleteArchive
<1>2. /\ Running /\ scan.run = r /\ ending[r] = "none" /\ closing[r] # "handled"
      /\ outcome[r] = "none" /\ child[r] # "unborn"
  BY <1>1 DEF ClosureInv, OutcomeInv, MidSwap, Swapping
<1>3. scan'.status # "running" /\ Finish("idle") /\ UNCHANGED <<ending, closing, child>>
  BY ScanUpdates DEF TypeOK, CompleteArchive, childVars
<1>4. outcome' = [outcome EXCEPT ![r] = "completed"] /\ "completed" \in Outcomes
  BY DEF CompleteArchive, Outcomes
<1>5. "ended" \in flags'[r] /\ \A s \in Runs : s # r => SameOutcome(s)
  BY <1>3 DEF CompleteArchive, SameOutcome, TypeOK
<1>6. OutcomeInv(r)'
  BY <1>2, <1>3, <1>4, <1>5 DEF OutcomeInv
<1>7. "idle" # "failed"
  OBVIOUS
<1> QED BY <1>2, <1>3, <1>4, <1>5, <1>6, <1>7, FinishSettled

LEMMA DiscardedSettled ==
  ASSUME TypeOK, ExclusionInv, SettledInv, NEW r \in Runs, Discarded(r)
  PROVE  SettledInv'
<1>1. ClosureInv(r) /\ OutcomeInv(r) /\ ending[r] # "none"
  BY DEF ExclusionInv, SettledInv, Discarded
<1>2. Running /\ scan.run = r /\ child[r] # "unborn"
  BY <1>1 DEF ClosureInv, MidSwap
<1>3. /\ scan'.status # "running" /\ UNCHANGED <<closing, child, outcome>> /\ ending'[r] = "none"
      /\ "ended" \in flags'[r] \/ closing'[r] = "handled"
  BY <1>1, ScanUpdates DEF TypeOK, Discarded, ClosureInv
<1>4. \A s \in Runs : s # r => SameOutcome(s)
  BY <1>3 DEF Discarded, Forget, SameOutcome, TypeOK
<1>5. OutcomeInv(r)'
  BY <1>2, <1>3 DEF OutcomeInv
<1>6. CASE ending[r] = "stopped"
  <2>1. ASSUME NEW s \in Runs PROVE OutcomeInv(s)'
    BY <1>4, <1>5 DEF SettledInv, SameOutcome, OutcomeInv
  <2>2. stopRunning' = 0 /\ onScanDone' = 0 /\ reported' = reported
    BY <1>6 DEF Discarded
  <2>3. StoppedAndToldRightly'
    BY <1>3, <2>2 DEF SettledInv, StoppedAndToldRightly, StopClosureOfTheRunningScan,
       ReportedTruthfully, Running
  <2> QED BY <2>1, <2>3 DEF SettledInv
<1>7. CASE ending[r] \in {"idle", "failed"}
  <2> DEFINE how == IF ending[r] = "failed" THEN "failed" ELSE "partial"
  <2>1. outcome[r] = how /\ how \in Outcomes
    BY <1>1, <1>7 DEF OutcomeInv, Outcomes
  <2>2. outcome' = [outcome EXCEPT ![r] = how]
    BY <1>3, <2>1 DEF TypeOK
  <2>3. Finish(ending[r])
    BY <1>7 DEF Discarded
  <2>4. \/ ending[r] = "failed" /\ how = "failed"
        \/ ending[r] # "failed" /\ how \in {"completed", "partial"}
    BY <1>7
  <2> HIDE DEF how
  <2> QED BY <1>2, <1>3, <1>4, <1>5, <2>1, <2>2, <2>3, <2>4, FinishSettled
<1> QED BY <1>1, <1>6, <1>7 DEF TypeOK, Endings

LEMMA RefinedSettled ==
  ASSUME TypeOK, ExclusionInv, SettledInv, NEW r \in Runs, Refined(r)
  PROVE  SettledInv'
<1>1. UNCHANGED <<stopRunning, onScanDone, ending, child, ghostVars>> /\ closing'[r] = "handled"
  BY DEF Refined, TypeOK
<1>2. SameScan
  BY RefiningOverUpdate DEF Refined, TypeOK, SameScan
<1>3. \A s \in Runs : s # r => flags'[s] = flags[s] /\ closing'[s] = closing[s]
  BY DEF Refined, Forget, TypeOK
<1>4. \A s \in Runs : SameOutcome(s)
  BY <1>1, <1>3 DEF SameOutcome, ghostVars
<1> QED BY <1>1, <1>2, <1>4, QuietSettled DEF SameClosures, ghostVars

LEMMA SettledPreserved == TypeOK /\ ExclusionInv /\ SettledInv /\ [Next]_vars => SettledInv'
<1> SUFFICES ASSUME TypeOK, ExclusionInv, SettledInv, [Next]_vars PROVE SettledInv'
  OBVIOUS
<1>1. CASE BackgroundStart
  <2>1. {} \in SUBSET {"replaceEmpty"}
    OBVIOUS
  <2> QED BY <1>1, <2>1, StartSettled DEF BackgroundStart
<1>2. ASSUME NEW r \in Runs, RunNext(r) PROVE SettledInv'
  BY <1>2, ChildSettled, SpawnSettled, StdoutSettled, CompleteSettled, ArchiveSettled,
     CloseSettled, DiscardedSettled
     DEF RunNext, HandlerNext, CompleteNext, CompleteStep
<1>3. ASSUME NEW q \in Requests, Post(q) \/ PostPreempt(q) \/ Resume(q) PROVE SettledInv'
  BY <1>3, RequestSettled
<1>4. ASSUME NEW r \in Runs, Refined(r) PROVE SettledInv'
  BY <1>4, RefinedSettled
<1>5. CASE BeginTask \/ TaskNext
  BY <1>5, TaskSettled
<1>6. CASE UNCHANGED vars
  BY <1>6, QuietSettled DEF vars, SameClosures, SameScan, SameOutcome, moduleVars, closureVars,
     childVars, ghostVars
<1> QED BY <1>1, <1>2, <1>3, <1>4, <1>5, <1>6 DEF Next, ContinuationNext

(* How each run ended is decided once, the status shown agrees with it,    *)
(* and the stop closure and onDone are the running scan's.                 *)
THEOREM Settled == Spec => []SettledInv
<1>1. ASSUME Init PROVE SettledInv
  BY <1>1 DEF Init, SettledInv, OutcomeInv, StoppedAndToldRightly, StopClosureOfTheRunningScan,
     ReportedTruthfully, Running
<1> QED BY <1>1, SettledPreserved, TypeCorrect, Exclusion, PTL DEF Spec

(* scan.ts:23, 41-44, 212-218: a stop hits the scan it was meant for, and  *)
(* whoever asked for a scan is told how that scan ended.                   *)
THEOREM StopsAndReportsAreRight == Spec => []StoppedAndToldRightly
<1>1. SettledInv => StoppedAndToldRightly
  BY DEF SettledInv
<1> QED BY <1>1, Settled, PTL

-----------------------------------------------------------------------------
(* Every step but stdout 'end' keeps what is known of it.                  *)
LEMMA CompletesOncePreserved == TypeOK /\ ExclusionInv /\ CompletesOnce /\ [Next]_vars => CompletesOnce'
<1> SUFFICES ASSUME TypeOK, ExclusionInv, CompletesOnce, [Next]_vars PROVE CompletesOnce'
  OBVIOUS
<1> DEFINE Same(s) == /\ completion'[s] = "none" => completion[s] = "none"
                      /\ completion'[s] # "none" => completion[s] # "none"
                      /\ child'[s] # "closed" => child[s] # "closed" /\ flags[s] \ flags'[s] \subseteq {"timer"}
<1>1. ASSUME \A s \in Runs : Same(s) PROVE CompletesOnce'
  BY <1>1 DEF CompletesOnce
<1>2. ASSUME NEW trigger, NEW options \in SUBSET {"replaceEmpty"}, StartScan(trigger, options)
      PROVE  CompletesOnce'
  <2>1. completion' = completion
    BY <1>2 DEF StartScan
  <2> QED BY <1>2, <2>1, StartFrame DEF CompletesOnce
<1>3. ASSUME NEW r \in Runs, ChildNext(r) \/ Timeout(r) \/ SpawnError(r) PROVE CompletesOnce'
  <2>1. \A s \in Runs : Same(s)
    BY <1>3 DEF ChildNext, ChildWrites, ChildEmits, ChildExits, ChildFails, ChildKilled, Dies, Alive,
       Timeout, SpawnError, childUnchanged, childVars, TypeOK
  <2> QED BY <1>1, <2>1
<1>4. ASSUME NEW r \in Runs, StdoutEnd(r) PROVE CompletesOnce'
  BY <1>4 DEF StdoutEnd, CompletesOnce, childVars, TypeOK
<1>5. ASSUME NEW r \in Runs, CompleteStep(r) \/ CompleteArchive(r) PROVE CompletesOnce'
  <2>1. completion[r] # "none" /\ child' = child
    BY <1>5 DEF CompleteStep, CompleteRead, CompleteWrite, CompleteRenameVulns, CompleteRenamePaths,
       CompleteCopyGraph, CompleteCopyVulns, CompleteArchive, completeUnchanged, childVars
  <2>2. \A s \in Runs : flags[s] \subseteq flags'[s] /\ (s # r => completion'[s] = completion[s])
    BY <1>5 DEF CompleteStep, CompleteRead, CompleteWrite, CompleteRenameVulns, CompleteRenamePaths,
       CompleteCopyGraph, CompleteCopyVulns, CompleteArchive, GoOn, GiveUp, TypeOK
  <2> QED BY <2>1, <2>2 DEF CompletesOnce
<1>6. ASSUME NEW r \in Runs, Close(r) \/ Discarded(r) \/ Refined(r) PROVE CompletesOnce'
  <2>1. ClosureInv(r)
    BY DEF ExclusionInv
  <2>2. Close(r) => child'[r] = "closed"
    BY DEF Close, TypeOK
  <2>3. Discarded(r) \/ Refined(r) => child' = child /\ (child[r] # "closed" => flags'[r] = flags[r])
    BY <2>1 DEF Discarded, Refined, ClosureInv, TypeOK
  <2>4. \A s \in Runs : s # r =>
          completion'[s] = completion[s] /\ child'[s] = child[s] /\ flags'[s] = flags[s]
    BY <1>6 DEF Close, Discarded, Refined, Forget, TypeOK
  <2>5. Discarded(r) \/ Refined(r) => (completion'[r] = "none" <=> completion[r] = "none")
    BY DEF Discarded, Refined, TypeOK
  <2> QED BY <1>6, <2>2, <2>3, <2>4, <2>5 DEF CompletesOnce
<1>7. CASE BeginTask \/ TaskNext
  BY <1>7 DEF CompletesOnce, BeginTask, TaskNext, TaskRead, TaskWriteVulns, TaskWritePaths,
     TaskWriteGraph, TaskEnd, taskUnchanged, closureVars, childVars
<1>8. ASSUME NEW q \in Requests, Post(q) \/ PostPreempt(q) \/ Resume(q) PROVE CompletesOnce'
  <2>1. CASE PostPreempt(q)
    BY <2>1 DEF PostPreempt, CompletesOnce, childVars, TypeOK
  <2>2. CASE UNCHANGED <<closureVars, childVars>>
    BY <2>2 DEF CompletesOnce, closureVars, childVars
  <2> QED BY <1>2, <1>8, <2>1, <2>2 DEF Post, Resume, StartOrRefuse
<1>9. CASE UNCHANGED vars
  BY <1>9 DEF CompletesOnce, vars, closureVars, childVars
<1>10. {} \in SUBSET {"replaceEmpty"}
  OBVIOUS
<1> QED BY <1>2, <1>3, <1>4, <1>5, <1>6, <1>7, <1>8, <1>9, <1>10
        DEF Next, ContinuationNext, BackgroundStart, RunNext, HandlerNext, CompleteNext, CompleteStep

LEMMA Completes == Spec => []CompletesOnce
<1>1. Init => CompletesOnce
  BY DEF Init, CompletesOnce
<1> QED BY <1>1, CompletesOncePreserved, TypeCorrect, Exclusion, PTL DEF Spec

-----------------------------------------------------------------------------
(* The files.  A step that moves none of them, copies none and reads none: *)
(* runs may start and end meanwhile, but not one that has written.         *)
SameFiles == UNCHANGED <<graph, vulns, paths, copy, archive>>

SameWritten(s) ==
  \/ completion'[s] = completion[s] /\ outcome'[s] = outcome[s]
  \/ /\ completion[s] \notin AfterWrite /\ completion'[s] \notin AfterWrite
     /\ outcome'[s] = outcome[s] \/ outcome[s] = "none"

LEMMA RunIsInt ==
  ASSUME TypeOK
  PROVE  scan.run \in Int /\ graph \in Int /\ vulns \in Int /\ paths \in Int /\ scan.run <= scan.run
<1>1. scan.run \in Versions /\ graph \in Versions /\ vulns \in Versions /\ paths \in Versions
  BY DEF TypeOK, ScanStates
<1>2. scan.run \in Int /\ graph \in Int /\ vulns \in Int /\ paths \in Int
  BY <1>1, Members
<1> QED BY <1>2

LEMMA QuietFiles ==
  ASSUME TypeOK, TypeOK', FilesInv, SameFiles, \A s \in Runs : SameWritten(s),
         scan.run <= scan'.run, task' = task \/ task'.step \in {"none", "read"}
  PROVE  FilesInv'
<1>1. ASSUME NEW s \in Runs PROVE WrittenInv(s)' /\ TraceInv(s)'
  <2>1. WrittenInv(s) /\ TraceInv(s) /\ SameWritten(s)
    BY DEF FilesInv
  <2>2. WrittenInv(s)'
    BY <2>1 DEF WrittenInv, SameWritten, SameFiles, AfterWrite
  <2>3. TraceInv(s)'
    BY <2>1 DEF TraceInv, SameWritten, SameFiles, AfterWrite
  <2> QED BY <2>2, <2>3
<1>2. graph' <= scan'.run /\ NeverNewerThanGraph' /\ ArchiveIsOneScan'
  <2>1. scan.run \in Int /\ scan'.run \in Int /\ graph \in Int /\ graph' = graph
    BY Members DEF TypeOK, ScanStates, SameFiles
  <2> QED BY <2>1 DEF FilesInv, NeverNewerThanGraph, ArchiveIsOneScan, SameFiles
<1>3. \/ vulns' = graph'
      \/ graph' \in Runs /\ (outcome'[graph'] = "partial" \/ completion'[graph'] = "renameVulns")
  BY DEF FilesInv, SameFiles, SameWritten, AfterWrite
<1>4. TaskSeesCurrentFiles'
  BY DEF FilesInv, TaskSeesCurrentFiles, SameFiles
<1> QED BY <1>1, <1>2, <1>3, <1>4 DEF FilesInv

LEMMA StartFiles ==
  ASSUME TypeOK, TypeOK', ExclusionInv, FilesInv, NEW trigger,
         NEW options \in SUBSET {"replaceEmpty"}, StartScan(trigger, options)
  PROVE  FilesInv'
<1>1. UNCHANGED <<completion, outcome, task>> /\ SameFiles /\ scan'.run = NextRun
  BY DEF StartScan, SameFiles, mapVars, archiveVars, taskVars, ghostVars
<1>2. scan.run <= scan'.run
  BY <1>1, StartFrame DEF NextRun
<1> QED BY <1>1, <1>2, QuietFiles DEF SameWritten

(* The requests, the scanner's own steps and the turns that only end or    *)
(* release a scan.                                                         *)
LEMMA RequestFiles ==
  ASSUME TypeOK, TypeOK', ExclusionInv, FilesInv, NEW q \in Requests,
         Post(q) \/ PostPreempt(q) \/ Resume(q)
  PROVE  FilesInv'
<1>1. CASE \E options \in SUBSET {"replaceEmpty"} : StartScan("manual", options)
  BY <1>1, StartFiles
<1>2. CASE UNCHANGED <<moduleVars, completion, mapVars, archiveVars, taskVars, ghostVars>>
  <2>1. SameFiles /\ UNCHANGED <<scan, task>> /\ \A s \in Runs : SameWritten(s)
    BY <1>2 DEF SameFiles, SameWritten, moduleVars, mapVars, archiveVars, taskVars, ghostVars
  <2>2. scan.run <= scan'.run
    BY <2>1, RunIsInt
  <2> QED BY <2>1, <2>2, QuietFiles
<1> QED BY <1>1, <1>2 DEF Post, PostPreempt, Resume, StartOrRefuse, closureVars

LEMMA ChildFiles ==
  ASSUME TypeOK, TypeOK', FilesInv, NEW r \in Runs, ChildNext(r) \/ Timeout(r)
  PROVE  FilesInv'
<1>1. UNCHANGED childUnchanged
  BY DEF ChildNext, ChildWrites, ChildEmits, ChildExits, ChildFails, ChildKilled, Dies, Timeout
<1>2. SameFiles /\ UNCHANGED <<scan, task>> /\ \A s \in Runs : SameWritten(s)
  BY <1>1 DEF childUnchanged, SameFiles, SameWritten, moduleVars, mapVars, archiveVars, taskVars,
     ghostVars
<1>3. scan.run <= scan'.run
  BY <1>2, RunIsInt
<1> QED BY <1>2, <1>3, QuietFiles

LEMMA EndingFiles ==
  ASSUME TypeOK, TypeOK', ExclusionInv, SettledInv, CompletesOnce, FilesInv, NEW r \in Runs,
         SpawnError(r) \/ StdoutEnd(r) \/ Close(r) \/ Discarded(r) \/ Refined(r)
  PROVE  FilesInv'
<1>1. ClosureInv(r) /\ OutcomeInv(r)
  BY DEF ExclusionInv, SettledInv
<1>2. SameFiles
  BY DEF SpawnError, StdoutEnd, Close, Discarded, Refined, SameFiles, mapVars, archiveVars
<1>3. scan'.run = scan.run
  BY ScanUpdates, RefiningOverUpdate DEF TypeOK, SpawnError, StdoutEnd, Close, Discarded, Refined,
     moduleVars
<1>4. scan.run <= scan'.run
  BY <1>3, RunIsInt
<1>5. task' = task \/ task'.step \in {"none", "read"}
  BY DEF SpawnError, StdoutEnd, Close, Discarded, Refined, taskVars, TaskOf
<1>6. ASSUME NEW s \in Runs, s # r PROVE SameWritten(s)
  BY <1>6 DEF SameWritten, SpawnError, StdoutEnd, Close, Discarded, Refined, End, ghostVars, TypeOK
<1>7. SameWritten(r)
  <2>1. CASE SpawnError(r)
    <3>1. completion[r] = "none" /\ completion' = completion /\ outcome[r] = "none"
      BY <1>1, <2>1 DEF SpawnError, ClosureInv, OutcomeInv
    <3> QED BY <3>1 DEF SameWritten, AfterWrite
  <2>2. CASE StdoutEnd(r)
    <3>1. CASE ~Printed(r)
      BY <2>2, <3>1 DEF StdoutEnd, SameWritten
    <3>2. CASE Printed(r)
      <4>1. outcome[r] = "none" /\ completion[r] \notin Swapping
        <5>1. "ended" \notin flags[r] /\ child[r] \in {"fetching", "dead"} /\ "eof" \notin flags[r]
          BY <2>2, <3>2 DEF StdoutEnd, Printed
        <5>2. completion[r] = "none"
          BY <5>1 DEF CompletesOnce
        <5> QED BY <1>1, <5>1, <5>2 DEF OutcomeInv, ClosureInv, Swapping
      <4> QED BY <2>2, <3>2, <4>1 DEF StdoutEnd, SameWritten, AfterWrite, Swapping, TypeOK
    <3> QED BY <3>1, <3>2
  <2>3. CASE Close(r)
    <3>1. /\ completion' = completion
          /\ outcome' = outcome \/ (completion[r] = "none" /\ "ended" \notin flags[r] /\ child[r] = "dead")
      BY <2>3 DEF Close
    <3>2. outcome'[r] = outcome[r] \/ (completion[r] = "none" /\ outcome[r] = "none")
      BY <1>1, <3>1 DEF OutcomeInv, ClosureInv
    <3> QED BY <3>1, <3>2 DEF SameWritten, AfterWrite
  <2>4. CASE Discarded(r)
    BY <2>4 DEF Discarded, SameWritten, AfterWrite, TypeOK
  <2>5. CASE Refined(r)
    BY <2>5 DEF Refined, SameWritten, ghostVars
  <2> QED BY <2>1, <2>2, <2>3, <2>4, <2>5
<1> QED BY <1>2, <1>4, <1>5, <1>6, <1>7, QuietFiles

(* What the running scan finds when it goes on with the files.             *)
LEMMA SwapFacts ==
  ASSUME TypeOK, ExclusionInv, SettledInv, NEW r \in Runs, completion[r] \in Swapping
  PROVE  /\ Running /\ scan.run = r /\ outcome[r] = "none" /\ task.step = "none"
         /\ \A s \in Runs : s # r => completion[s] \notin Swapping
         /\ vulnsTmp \in {0, r} /\ pathsTmp \in {0, r}
         /\ r # 0
<1>1. ASSUME NEW s \in Runs PROVE ClosureInv(s)
  BY DEF ExclusionInv
<1>2. Running /\ scan.run = r /\ \A s \in Runs : s # r => completion[s] \notin Swapping
  BY <1>1 DEF ClosureInv, MidSwap
<1>3. outcome[r] = "none"
  BY <1>1 DEF ClosureInv, OutcomeInv, SettledInv, Swapping
<1>4. task.step = "none" /\ vulnsTmp \in {0, r} /\ pathsTmp \in {0, r}
  BY <1>2 DEF ExclusionInv, TempsOfTheRunningScan
<1>5. r # 0
  BY DEF Runs
<1> QED BY <1>2, <1>3, <1>4, <1>5

(* The steps of complete() that give up, and the ones that touch no file.  *)
LEMMA GiveUpFiles ==
  ASSUME TypeOK, TypeOK', ExclusionInv, SettledInv, FilesInv, NEW r \in Runs,
         CompleteStep(r), SameFiles,
         \/ completion[r] \in {"read", "write"} /\ completion'[r] \notin AfterWrite
         \/ completion[r] \in {"renameVulns", "renamePaths"} /\ GiveUp(r, "idle", "partial")
  PROVE  FilesInv'
<1>1. completion[r] \in Swapping /\ UNCHANGED completeUnchanged
  BY DEF CompleteStep, CompleteRead, CompleteWrite, CompleteRenameVulns,
     CompleteRenamePaths, CompleteCopyGraph, CompleteCopyVulns, Swapping
<1>2. outcome[r] = "none" /\ UNCHANGED <<scan, task>>
  BY <1>1, SwapFacts DEF completeUnchanged, moduleVars, taskVars
<1>3. \A s \in Runs : s # r => completion'[s] = completion[s] /\ outcome'[s] = outcome[s]
  BY DEF CompleteStep, CompleteRead, CompleteWrite, CompleteRenameVulns,
     CompleteRenamePaths, CompleteCopyGraph, CompleteCopyVulns, GoOn, GiveUp, End, TypeOK
<1>4. scan.run <= scan'.run
  BY <1>2, RunIsInt
<1>5. CASE completion[r] \in {"read", "write"} /\ completion'[r] \notin AfterWrite
  <2>1. \A s \in Runs : SameWritten(s)
    BY <1>2, <1>3, <1>5 DEF SameWritten, AfterWrite
  <2> QED BY <1>2, <1>4, <2>1, QuietFiles
<1>6. CASE completion[r] \in {"renameVulns", "renamePaths"} /\ GiveUp(r, "idle", "partial")
  <2>1. completion'[r] = "ending" /\ outcome'[r] = "partial"
    BY <1>6 DEF GiveUp, End, TypeOK
  <2>2. ASSUME NEW s \in Runs PROVE WrittenInv(s)' /\ TraceInv(s)'
    <3>1. WrittenInv(s) /\ TraceInv(s)
      BY DEF FilesInv
    <3>2. CASE s = r
      BY <1>2, <2>1, <3>1, <3>2 DEF WrittenInv, TraceInv, SameFiles, AfterWrite
    <3>3. CASE s # r
      BY <1>3, <3>1, <3>3 DEF WrittenInv, TraceInv, SameFiles, AfterWrite
    <3> QED BY <3>2, <3>3
  <2>3. \/ vulns' = graph'
        \/ graph' \in Runs /\ (outcome'[graph'] = "partial" \/ completion'[graph'] = "renameVulns")
    BY <1>3, <2>1 DEF FilesInv, SameFiles
  <2>4. graph' <= scan'.run /\ NeverNewerThanGraph' /\ ArchiveIsOneScan' /\ TaskSeesCurrentFiles'
    BY <1>2 DEF FilesInv, NeverNewerThanGraph, ArchiveIsOneScan, TaskSeesCurrentFiles, SameFiles
  <2> QED BY <2>2, <2>3, <2>4 DEF FilesInv
<1> QED BY <1>5, <1>6

(* The graph is written: it is the newest, and so far it is alone.         *)
LEMMA WriteFiles ==
  ASSUME TypeOK, TypeOK', ExclusionInv, SettledInv, FilesInv, NEW r \in Runs,
         CompleteWrite(r), graph' = r, GoOn(r, "renameVulns")
  PROVE  FilesInv'
<1>1. completion[r] = "write" /\ UNCHANGED <<vulns, paths, archive, copy, scan, task, outcome>>
  BY DEF CompleteWrite, GoOn, completeUnchanged, archiveVars, moduleVars, taskVars
<1>2. /\ scan.run = r /\ task.step = "none" /\ outcome[r] = "none"
      /\ \A s \in Runs : s # r => completion[s] \notin Swapping
  BY <1>1, SwapFacts DEF Swapping
<1>3. /\ completion'[r] = "renameVulns"
      /\ \A s \in Runs : s # r => completion'[s] = completion[s]
  BY DEF GoOn, TypeOK
<1>4. ASSUME NEW s \in Runs PROVE WrittenInv(s)' /\ TraceInv(s)'
  <2>1. WrittenInv(s) /\ TraceInv(s)
    BY DEF FilesInv
  <2>2. CASE s = r
    BY <1>1, <1>2, <1>3, <2>1, <2>2 DEF WrittenInv, TraceInv, AfterWrite
  <2>3. CASE s # r
    BY <1>1, <1>2, <1>3, <2>1, <2>3 DEF WrittenInv, TraceInv, AfterWrite, Swapping
  <2> QED BY <2>2, <2>3
<1>5. graph' <= scan'.run /\ NeverNewerThanGraph'
  BY <1>1, <1>2, RunIsInt DEF FilesInv, NeverNewerThanGraph
<1>6. ArchiveIsOneScan' /\ TaskSeesCurrentFiles'
  BY <1>1, <1>2 DEF FilesInv, ArchiveIsOneScan, TaskSeesCurrentFiles
<1> QED BY <1>3, <1>4, <1>5, <1>6 DEF FilesInv

LEMMA RenameVulnsFiles ==
  ASSUME TypeOK, TypeOK', ExclusionInv, SettledInv, FilesInv, NEW r \in Runs,
         CompleteRenameVulns(r), vulnsTmp # 0, vulns' = vulnsTmp, GoOn(r, "renamePaths")
  PROVE  FilesInv'
<1>1. completion[r] = "renameVulns" /\ UNCHANGED <<graph, paths, archive, copy, scan, task, outcome>>
  BY DEF CompleteRenameVulns, GoOn, completeUnchanged, archiveVars, moduleVars, taskVars
<1>2. /\ task.step = "none" /\ vulns' = r
      /\ \A s \in Runs : s # r => completion[s] \notin Swapping
  BY <1>1, SwapFacts DEF Swapping
<1>3. /\ completion'[r] = "renamePaths"
      /\ \A s \in Runs : s # r => completion'[s] = completion[s]
  BY DEF GoOn, TypeOK
<1>4. graph = r
  BY <1>1 DEF FilesInv, WrittenInv, AfterWrite
<1>5. ASSUME NEW s \in Runs PROVE WrittenInv(s)' /\ TraceInv(s)'
  <2>1. WrittenInv(s) /\ TraceInv(s)
    BY DEF FilesInv
  <2>2. CASE s = r
    BY <1>1, <1>2, <1>3, <1>4, <2>1, <2>2 DEF WrittenInv, TraceInv, AfterWrite
  <2>3. CASE s # r
    BY <1>1, <1>2, <1>3, <2>1, <2>3 DEF WrittenInv, TraceInv, AfterWrite, Swapping
  <2> QED BY <2>2, <2>3
<1>6. graph' <= scan'.run /\ NeverNewerThanGraph'
  BY <1>1, <1>2, <1>4, RunIsInt DEF FilesInv, NeverNewerThanGraph
<1>7. ArchiveIsOneScan' /\ TaskSeesCurrentFiles'
  BY <1>1, <1>2 DEF FilesInv, ArchiveIsOneScan, TaskSeesCurrentFiles
<1> QED BY <1>1, <1>2, <1>4, <1>5, <1>6, <1>7 DEF FilesInv

LEMMA RenamePathsFiles ==
  ASSUME TypeOK, TypeOK', ExclusionInv, SettledInv, FilesInv, NEW r \in Runs,
         CompleteRenamePaths(r), paths' \in {paths, r}, GoOn(r, "copyGraph")
  PROVE  FilesInv'
<1>1. completion[r] = "renamePaths" /\ UNCHANGED <<graph, vulns, archive, copy, scan, task, outcome>>
  BY DEF CompleteRenamePaths, GoOn, completeUnchanged, archiveVars, moduleVars, taskVars
<1>2. task.step = "none" /\ \A s \in Runs : s # r => completion[s] \notin Swapping
  BY <1>1, SwapFacts DEF Swapping
<1>3. /\ completion'[r] = "copyGraph"
      /\ \A s \in Runs : s # r => completion'[s] = completion[s]
  BY DEF GoOn, TypeOK
<1>4. graph = r /\ vulns = r
  BY <1>1 DEF FilesInv, WrittenInv, AfterWrite
<1>5. ASSUME NEW s \in Runs PROVE WrittenInv(s)' /\ TraceInv(s)'
  <2>1. WrittenInv(s) /\ TraceInv(s)
    BY DEF FilesInv
  <2>2. CASE s = r
    BY <1>1, <1>2, <1>3, <1>4, <2>1, <2>2 DEF WrittenInv, TraceInv, AfterWrite
  <2>3. CASE s # r
    BY <1>1, <1>2, <1>3, <2>1, <2>3 DEF WrittenInv, TraceInv, AfterWrite, Swapping
  <2> QED BY <2>2, <2>3
<1>6. graph' <= scan'.run /\ NeverNewerThanGraph'
  BY <1>1, <1>4, RunIsInt DEF FilesInv, NeverNewerThanGraph
<1>7. ArchiveIsOneScan' /\ TaskSeesCurrentFiles'
  BY <1>1, <1>2 DEF FilesInv, ArchiveIsOneScan, TaskSeesCurrentFiles
<1> QED BY <1>1, <1>4, <1>5, <1>6, <1>7 DEF FilesInv

(* The copies for the archive, and the entry they make.                    *)
LEMMA CopyFiles ==
  ASSUME TypeOK, TypeOK', ExclusionInv, SettledInv, FilesInv, NEW r \in Runs,
         CompleteCopyGraph(r) \/ CompleteCopyVulns(r)
  PROVE  FilesInv'
<1>1. /\ completion[r] \in {"copyGraph", "copyVulns"}
      /\ UNCHANGED <<graph, vulns, paths, archive, scan, task, outcome>>
  BY DEF CompleteCopyGraph, CompleteCopyVulns, GoOn, completeUnchanged, mapVars, moduleVars, taskVars
<1>2. \A s \in Runs : s # r => completion[s] \notin Swapping
  BY <1>1, SwapFacts DEF Swapping
<1>3. /\ graph = r /\ vulns = r
      /\ completion[r] = "copyVulns" => copy.graph = r
  BY <1>1 DEF FilesInv, WrittenInv, AfterWrite
<1>4. /\ \/ completion[r] = "copyGraph" /\ completion'[r] = "copyVulns" /\ copy' = GraphCopied
         \/ completion[r] = "copyVulns" /\ completion'[r] = "copyPaths" /\ copy' = VulnsCopied
      /\ \A s \in Runs : s # r => completion'[s] = completion[s]
  BY DEF CompleteCopyGraph, CompleteCopyVulns, GoOn, TypeOK
<1>5. /\ copy' = GraphCopied => copy'.graph = graph
      /\ copy' = VulnsCopied => copy'.vulns = vulns /\ copy'.graph = copy.graph
  BY DEF GraphCopied, VulnsCopied, TypeOK, Copies
<1>6. ASSUME NEW s \in Runs PROVE WrittenInv(s)' /\ TraceInv(s)'
  <2>1. WrittenInv(s) /\ TraceInv(s)
    BY DEF FilesInv
  <2>2. CASE s = r
    <3>1. WrittenInv(r)'
      BY <1>1, <1>3, <1>4, <1>5 DEF WrittenInv
    <3>2. TraceInv(r)'
      BY <1>1, <1>4, <2>1, <2>2 DEF TraceInv, AfterWrite
    <3> QED BY <2>2, <3>1, <3>2
  <2>3. CASE s # r
    BY <1>1, <1>2, <1>4, <2>1, <2>3 DEF WrittenInv, TraceInv, AfterWrite, Swapping
  <2> QED BY <2>2, <2>3
<1>7. /\ graph' <= scan'.run /\ NeverNewerThanGraph' /\ ArchiveIsOneScan'
      /\ TaskSeesCurrentFiles' /\ vulns' = graph'
  BY <1>1, <1>3 DEF FilesInv, NeverNewerThanGraph, ArchiveIsOneScan, TaskSeesCurrentFiles
<1> QED BY <1>6, <1>7 DEF FilesInv

LEMMA ArchiveFiles ==
  ASSUME TypeOK, TypeOK', ExclusionInv, SettledInv, FilesInv, NEW r \in Runs, CompleteArchive(r)
  PROVE  FilesInv'
<1>1. completion[r] = "copyPaths" /\ UNCHANGED <<graph, vulns, paths, task>>
  BY DEF CompleteArchive, mapVars, taskVars
<1>2. /\ outcome[r] = "none" /\ r # 0
      /\ \A s \in Runs : s # r => completion[s] \notin Swapping
  BY <1>1, SwapFacts DEF Swapping
<1>3. graph = r /\ vulns = r /\ copy.graph = r /\ copy.vulns = r
  BY <1>1 DEF FilesInv, WrittenInv, AfterWrite
<1>4. Entry.graph = r /\ Entry.vulns = r /\ Entry.paths = paths
  BY <1>3 DEF Entry, TypeOK, Copies
<1>5. /\ completion'[r] = "done" /\ outcome'[r] = "completed"
      /\ \A s \in Runs : s # r => completion'[s] = completion[s] /\ outcome'[s] = outcome[s]
  BY DEF CompleteArchive, TypeOK
<1>6. \A e \in archive : e.graph # r
  BY <1>2 DEF FilesInv, TraceInv
<1>7. archive' = archive \/ archive' = archive \cup {Entry}
  BY DEF CompleteArchive
<1>8. ASSUME NEW s \in Runs PROVE WrittenInv(s)' /\ TraceInv(s)'
  <2>1. WrittenInv(s) /\ TraceInv(s)
    BY DEF FilesInv
  <2>2. CASE s = r
    BY <1>5, <2>2 DEF WrittenInv, TraceInv, AfterWrite
  <2>3. CASE s # r
    <3>1. WrittenInv(s)'
      BY <1>2, <1>5, <2>3 DEF WrittenInv, AfterWrite, Swapping
    <3>2. TraceInv(s)'
      BY <1>1, <1>4, <1>5, <1>7, <2>1, <2>3 DEF TraceInv
    <3> QED BY <3>1, <3>2
  <2> QED BY <2>2, <2>3
<1>9. ArchiveIsOneScan'
  <2>1. Entry.graph # 0 /\ Entry.vulns = Entry.graph /\ Entry.paths <= Entry.graph
    BY <1>2, <1>3, <1>4 DEF FilesInv, NeverNewerThanGraph
  <2>2. \A e \in archive : e.graph # Entry.graph
    BY <1>4, <1>6
  <2>3. ArchiveIsOneScan
    BY DEF FilesInv
  <2> HIDE DEF Entry
  <2> QED BY <1>7, <2>1, <2>2, <2>3 DEF ArchiveIsOneScan
<1>10. scan'.run = scan.run
  BY ScanUpdates DEF CompleteArchive, TypeOK
<1>11. graph' <= scan'.run /\ NeverNewerThanGraph' /\ TaskSeesCurrentFiles' /\ vulns' = graph'
  BY <1>1, <1>3, <1>10 DEF FilesInv, NeverNewerThanGraph, TaskSeesCurrentFiles
<1> QED BY <1>8, <1>9, <1>11 DEF FilesInv

LEMMA CompleteFiles ==
  ASSUME TypeOK, TypeOK', ExclusionInv, SettledInv, FilesInv, NEW r \in Runs, CompleteStep(r)
  PROVE  FilesInv'
<1>1. CASE CompleteRead(r)
  <2>1. /\ SameFiles /\ completion[r] \in {"read", "write"}
        /\ completion'[r] \notin AfterWrite
    BY <1>1 DEF CompleteRead, SameFiles, mapVars, archiveVars, GoOn, GiveUp, AfterWrite, TypeOK
  <2> QED BY <2>1, GiveUpFiles
<1>2. CASE CompleteWrite(r)
  <2>1. CASE graph' = r /\ GoOn(r, "renameVulns")
    BY <1>2, <2>1, WriteFiles
  <2>2. CASE graph' = graph /\ GiveUp(r, "failed", "failed")
    <3>1. /\ SameFiles /\ completion[r] \in {"read", "write"}
          /\ completion'[r] \notin AfterWrite
      BY <1>2, <2>2 DEF CompleteWrite, SameFiles, archiveVars, GiveUp, AfterWrite, TypeOK
    <3> QED BY <3>1, GiveUpFiles
  <2> QED BY <1>2, <2>1, <2>2 DEF CompleteWrite
<1>3. CASE CompleteRenameVulns(r)
  <2>1. CASE vulnsTmp # 0 /\ vulns' = vulnsTmp /\ GoOn(r, "renamePaths")
    BY <1>3, <2>1, RenameVulnsFiles
  <2>2. CASE UNCHANGED <<vulns, vulnsTmp>> /\ GiveUp(r, "idle", "partial")
    <3>1. SameFiles /\ completion[r] \in {"renameVulns", "renamePaths"}
      BY <1>3, <2>2 DEF CompleteRenameVulns, SameFiles, archiveVars
    <3> QED BY <2>2, <3>1, GiveUpFiles
  <2> QED BY <1>3, <2>1, <2>2 DEF CompleteRenameVulns
<1>4. CASE CompleteRenamePaths(r)
  <2>1. CASE GoOn(r, "copyGraph")
    <3>1. pathsTmp \in {0, r}
      BY <1>4, SwapFacts DEF CompleteRenamePaths, Swapping
    <3>2. paths' \in {paths, r}
      BY <1>4, <3>1 DEF CompleteRenamePaths
    <3> QED BY <1>4, <2>1, <3>2, RenamePathsFiles
  <2>2. CASE UNCHANGED <<paths, pathsTmp>> /\ GiveUp(r, "idle", "partial")
    <3>1. SameFiles /\ completion[r] \in {"renameVulns", "renamePaths"}
      BY <1>4, <2>2 DEF CompleteRenamePaths, SameFiles, archiveVars
    <3> QED BY <2>2, <3>1, GiveUpFiles
  <2> QED BY <1>4, <2>1, <2>2 DEF CompleteRenamePaths
<1> QED BY <1>1, <1>2, <1>3, <1>4, CopyFiles DEF CompleteStep

(* A task writes the versions it read, which are still the current ones.   *)
LEMMA TaskFiles ==
  ASSUME TypeOK, TypeOK', ExclusionInv, SettledInv, FilesInv, BeginTask \/ TaskNext
  PROVE  FilesInv'
<1>1. UNCHANGED <<completion, outcome, archive, copy>> /\ scan'.run = scan.run
  BY RefiningOverUpdate DEF TypeOK, BeginTask, TaskNext, TaskRead, TaskWriteVulns, TaskWritePaths,
     TaskWriteGraph, TaskEnd, taskUnchanged, closureVars, archiveVars, ghostVars, moduleVars
<1>2. scan.run <= scan'.run
  BY <1>1, RunIsInt
<1>3. CASE BeginTask \/ TaskEnd
  <2>1. SameFiles /\ task'.step \in {"none", "read"}
    BY <1>3 DEF BeginTask, TaskEnd, NoTask, TaskOf, SameFiles, mapVars, archiveVars
  <2> QED BY <1>1, <1>2, <2>1, QuietFiles DEF SameWritten
<1>4. CASE TaskRead
  <2>1. UNCHANGED <<graph, vulns, paths>> /\ task' = FilesRead
    BY <1>4 DEF TaskRead, mapVars
  <2>2. TaskSeesCurrentFiles'
    BY <2>1, TaskMoves DEF TaskSeesCurrentFiles
  <2> QED BY <1>1, <2>1, <2>2 DEF FilesInv, WrittenInv, TraceInv, NeverNewerThanGraph, ArchiveIsOneScan
<1>5. CASE TaskWriteVulns \/ TaskWritePaths \/ TaskWriteGraph
  <2>1. task.graph = graph /\ task.vulns = vulns /\ exclusiveTask
    BY <1>5 DEF FilesInv, TaskSeesCurrentFiles, TaskWriteVulns, TaskWritePaths, TaskWriteGraph,
       ExclusionInv
  <2>2. graph' = graph /\ vulns' = vulns /\ paths' \in {paths, graph}
    BY <1>5, <2>1 DEF TaskWriteVulns, TaskWritePaths, TaskWriteGraph
  <2>3. task'.graph = task.graph /\ task'.vulns = task.vulns
    BY <1>5, TaskMoves DEF TaskWriteVulns, TaskWritePaths, TaskWriteGraph
  <2>4. ASSUME NEW s \in Runs PROVE WrittenInv(s)' /\ TraceInv(s)'
    BY <1>1, <2>2 DEF FilesInv, WrittenInv, TraceInv
  <2>5. graph' <= scan'.run /\ NeverNewerThanGraph'
    BY <1>1, <2>2, RunIsInt DEF FilesInv, NeverNewerThanGraph
  <2>6. ArchiveIsOneScan' /\ TaskSeesCurrentFiles'
    BY <1>1, <2>1, <2>2, <2>3 DEF FilesInv, ArchiveIsOneScan, TaskSeesCurrentFiles
  <2> QED BY <1>1, <2>2, <2>4, <2>5, <2>6 DEF FilesInv
<1> QED BY <1>3, <1>4, <1>5 DEF TaskNext

LEMMA FilesPreserved ==
  TypeOK /\ ExclusionInv /\ SettledInv /\ CompletesOnce /\ FilesInv /\ [Next]_vars => FilesInv'
<1> SUFFICES ASSUME TypeOK, ExclusionInv, SettledInv, CompletesOnce, FilesInv, [Next]_vars
             PROVE  FilesInv'
  OBVIOUS
<1>0. TypeOK'
  BY TypePreserved
<1>1. CASE BackgroundStart
  <2>1. {} \in SUBSET {"replaceEmpty"}
    OBVIOUS
  <2> QED BY <1>0, <1>1, <2>1, StartFiles DEF BackgroundStart
<1>2. ASSUME NEW r \in Runs, RunNext(r) PROVE FilesInv'
  BY <1>0, <1>2, ChildFiles, EndingFiles, CompleteFiles, ArchiveFiles
     DEF RunNext, HandlerNext, CompleteNext, CompleteStep
<1>3. ASSUME NEW q \in Requests, Post(q) \/ PostPreempt(q) \/ Resume(q) PROVE FilesInv'
  BY <1>0, <1>3, RequestFiles
<1>4. ASSUME NEW r \in Runs, Refined(r) PROVE FilesInv'
  BY <1>0, <1>4, EndingFiles
<1>5. CASE BeginTask \/ TaskNext
  BY <1>0, <1>5, TaskFiles
<1>6. CASE UNCHANGED vars
  <2>1. SameFiles /\ UNCHANGED <<scan, task>> /\ \A s \in Runs : SameWritten(s)
    BY <1>6 DEF vars, SameFiles, SameWritten, moduleVars, closureVars, mapVars, archiveVars, taskVars,
       ghostVars
  <2> QED BY <1>0, <2>1, RunIsInt, QuietFiles
<1> QED BY <1>1, <1>2, <1>3, <1>4, <1>5, <1>6 DEF Next, ContinuationNext

(* What is served and what is archived belongs to the scans that say so.   *)
THEOREM FilesAreOwned == Spec => []FilesInv
<1>1. ASSUME Init PROVE FilesInv
  <2>1. ASSUME NEW r \in Runs PROVE WrittenInv(r) /\ TraceInv(r)
    BY <1>1, <2>1 DEF Init, WrittenInv, TraceInv, AfterWrite, Runs
  <2> QED BY <1>1, <2>1 DEF Init, FilesInv, NeverNewerThanGraph, ArchiveIsOneScan,
          TaskSeesCurrentFiles, NoTask, TaskOf
<1> QED BY <1>1, FilesPreserved, TypeCorrect, Exclusion, Settled, Completes, PTL DEF Spec

(* scan.ts:224-228, 413-421: the graph, the CVE list, the routes and the   *)
(* archived scans never hold a mixture of scans that nobody announced.     *)
THEOREM FilesBelongTogether == Spec => []FilesAgree
<1>1. FilesInv => FilesAgree
  BY DEF FilesInv, FilesAgree, SameScanUnlessSaid, MidSwap, Swapping
<1> QED BY <1>1, FilesAreOwned, PTL

(* scan.ts:224-225: a failed, timed-out or stopped scan leaves the graph,  *)
(* the CVE list, the routes and the history as they were.                  *)
THEOREM UnsuccessfulScansLeaveNoTrace == Spec => []UnsuccessfulLeavesNoTrace
<1>1. ASSUME ExclusionInv, SettledInv, FilesInv PROVE UnsuccessfulLeavesNoTrace
  <2>1. ASSUME NEW r \in Runs, outcome[r] \in {"failed", "stopped"}
        PROVE  completion[r] \notin AfterWrite
    BY <1>1, <2>1 DEF ExclusionInv, ClosureInv, SettledInv, OutcomeInv, AfterWrite, Swapping
  <2> QED BY <1>1, <2>1 DEF FilesInv, TraceInv, UnsuccessfulLeavesNoTrace
<1> QED BY <1>1, Exclusion, Settled, FilesAreOwned, PTL

(* scan.ts:32, 70-72: while a file-only task rewrites what it read, no     *)
(* scan swaps newer files under it.                                        *)
THEOREM TasksSeeCurrentFiles == Spec => []TaskSeesCurrentFiles
<1>1. FilesInv => TaskSeesCurrentFiles
  BY DEF FilesInv
<1> QED BY <1>1, FilesAreOwned, PTL

-----------------------------------------------------------------------------
(* Refining.  A step that leaves the refiner, the shown scan's run and the *)
(* task as they are, completes no run, and handles no completed one.       *)
SameRefiner(s) ==
  /\ "exited" \in flags'[s] => "exited" \in flags[s] \/ child'[s] = "closed"
  /\ child[s] = "closed" => child'[s] = "closed"
  /\ Alive(s)' => Alive(s) /\ ("killed" \in flags[s] => "killed" \in flags'[s])
  /\ outcome'[s] = "completed" <=> outcome[s] = "completed"
  /\ outcome[s] = "completed" /\ completion[s] = "done" =>
       completion'[s] = "done" /\ (closing[s] # "handled" => closing'[s] # "handled")

SameTask == /\ task'.kind = task.kind /\ task'.owner = task.owner
            /\ exclusiveTask' = exclusiveTask

LEMMA QuietRefining ==
  ASSUME RefiningInv, \A s \in Runs : SameRefiner(s), refiner' = refiner, SameTask,
         scan'.run = scan.run, scan'.refining => scan.refining
  PROVE  RefiningInv'
<1>1. ASSUME NEW s \in Runs PROVE RefinerInv(s)'
  <2>1. RefinerInv(s) /\ SameRefiner(s)
    BY DEF RefiningInv
  <2> QED BY <2>1 DEF RefinerInv, SameRefiner
<1>2. scan'.refining => /\ scan'.run \in Runs
                        /\ completion'[scan'.run] = "done" /\ outcome'[scan'.run] = "completed"
  BY DEF RefiningInv, SameRefiner
<1>3. RefiningHasAnOwner'
  BY DEF RefiningInv, RefiningHasAnOwner, SameRefiner, SameTask
<1> QED BY <1>1, <1>2, <1>3 DEF RefiningInv, SameTask

LEMMA StartRefining ==
  ASSUME TypeOK, ExclusionInv, SettledInv, RefiningInv, NEW trigger,
         NEW options \in SUBSET {"replaceEmpty"}, StartScan(trigger, options)
  PROVE  RefiningInv'
<1>1. UNCHANGED <<outcome, refiner, task, exclusiveTask>> /\ scan'.refining = FALSE
  BY DEF StartScan, ghostVars, taskVars
<1>2. ASSUME NEW s \in Runs PROVE RefinerInv(s)'
  <2>1. RefinerInv(s) /\ OutcomeInv(s)
    BY DEF RefiningInv, SettledInv
  <2>2. CASE s = NextRun
    <3>1. outcome[s] = "none" /\ "exited" \notin flags'[s]
      BY <2>1, <2>2, StartFrame DEF OutcomeInv
    <3> QED BY <1>1, <3>1 DEF RefinerInv
  <2>3. CASE s # NextRun
    <3>1. /\ child'[s] = child[s] /\ ("exited" \in flags'[s] => "exited" \in flags[s])
          /\ "killed" \in flags[s] => "killed" \in flags'[s]
          /\ s = refiner => "killed" \in flags'[s]
      BY <2>3, StartFrame
    <3> QED BY <1>1, <2>1, <3>1 DEF RefinerInv, Alive
  <2> QED BY <2>2, <2>3
<1> QED BY <1>1, <1>2 DEF RefiningInv, RefiningHasAnOwner

LEMMA RequestRefining ==
  ASSUME TypeOK, ExclusionInv, SettledInv, RefiningInv, NEW q \in Requests,
         Post(q) \/ PostPreempt(q) \/ Resume(q)
  PROVE  RefiningInv'
<1>1. CASE \E options \in SUBSET {"replaceEmpty"} : StartScan("manual", options)
  BY <1>1, StartRefining
<1>2. CASE PostPreempt(q)
  <2>1. UNCHANGED <<scan, refiner, task, exclusiveTask, outcome, completion, closing, child>>
    BY <1>2 DEF PostPreempt, moduleVars, taskVars, ghostVars, childVars
  <2>2. \A s \in Runs : /\ "exited" \in flags'[s] => "exited" \in flags[s]
                        /\ flags[s] \subseteq flags'[s]
    BY <1>2 DEF PostPreempt, TypeOK
  <2>3. \A s \in Runs : SameRefiner(s)
    BY <2>1, <2>2 DEF SameRefiner, Alive
  <2> QED BY <2>1, <2>3, QuietRefining DEF SameTask
<1>3. CASE UNCHANGED <<moduleVars, closureVars, childVars, taskVars, ghostVars>>
  BY <1>3, QuietRefining DEF SameRefiner, SameTask, Alive, moduleVars, closureVars, childVars, taskVars,
     ghostVars
<1> QED BY <1>1, <1>2, <1>3 DEF Post, Resume, StartOrRefuse

LEMMA ChildRefining ==
  ASSUME TypeOK, RefiningInv, NEW r \in Runs, ChildNext(r) \/ Timeout(r)
  PROVE  RefiningInv'
<1>1. UNCHANGED childUnchanged
  BY DEF ChildNext, ChildWrites, ChildEmits, ChildExits, ChildFails, ChildKilled, Dies, Timeout
<1>2. UNCHANGED <<scan, refiner, task, exclusiveTask, outcome, completion, closing>>
  BY <1>1 DEF childUnchanged, moduleVars, taskVars, ghostVars
<1>3. \A s \in Runs : /\ "exited" \in flags'[s] => "exited" \in flags[s]
                      /\ "killed" \in flags[s] => "killed" \in flags'[s]
                      /\ child[s] = "closed" => child'[s] = "closed"
                      /\ Alive(s)' => Alive(s)
  BY DEF TypeOK, ChildNext, ChildWrites, ChildEmits, ChildExits, ChildFails, ChildKilled, Dies,
     Timeout, childVars, Alive
<1>4. \A s \in Runs : SameRefiner(s)
  BY <1>2, <1>3 DEF SameRefiner
<1> QED BY <1>2, <1>4, QuietRefining DEF SameTask

(* The turns that end a run other than by saving it, and complete().       *)
LEMMA EndingRefining ==
  ASSUME TypeOK, ExclusionInv, SettledInv, CompletesOnce, RefiningInv, NEW r \in Runs,
         SpawnError(r) \/ StdoutEnd(r) \/ CompleteStep(r)
  PROVE  RefiningInv'
<1>1. ClosureInv(r) /\ OutcomeInv(r)
  BY DEF ExclusionInv, SettledInv
<1>2. UNCHANGED <<scan, refiner, task, exclusiveTask, closing>>
  BY DEF SpawnError, StdoutEnd, CompleteStep, CompleteRead, CompleteWrite, CompleteRenameVulns,
     CompleteRenamePaths, CompleteCopyGraph, CompleteCopyVulns, completeUnchanged, moduleVars,
     taskVars
<1>3. ASSUME NEW s \in Runs, s # r PROVE SameRefiner(s)
  BY <1>2, <1>3 DEF SameRefiner, Alive, TypeOK, SpawnError, StdoutEnd, CompleteStep, CompleteRead,
     CompleteWrite, CompleteRenameVulns, CompleteRenamePaths, CompleteCopyGraph, CompleteCopyVulns,
     completeUnchanged, childVars, GoOn, GiveUp, End
<1>4. /\ "exited" \in flags'[r] => "exited" \in flags[r]
      /\ "killed" \in flags[r] => "killed" \in flags'[r]
      /\ child[r] = "closed" => child'[r] = "closed"
      /\ Alive(r)' => Alive(r)
  BY DEF Alive, TypeOK, SpawnError, StdoutEnd, CompleteStep, CompleteRead,
     CompleteWrite, CompleteRenameVulns, CompleteRenamePaths, CompleteCopyGraph, CompleteCopyVulns,
     completeUnchanged, childVars, GoOn, GiveUp, End
<1>5. \/ outcome'[r] = outcome[r] /\ completion'[r] = completion[r]
      \/ outcome[r] = "none" /\ outcome'[r] # "completed"
  <2>1. CASE SpawnError(r)
    BY <1>1, <2>1 DEF SpawnError, End, TypeOK, ClosureInv, OutcomeInv
  <2>2. CASE StdoutEnd(r)
    <3>1. CASE ~Printed(r)
      BY <2>2, <3>1 DEF StdoutEnd
    <3>2. CASE Printed(r)
      <4>1. outcome[r] = "none"
        BY <1>1, <2>2, <3>2 DEF StdoutEnd, Printed, ClosureInv, OutcomeInv
      <4> QED BY <2>2, <3>2, <4>1 DEF StdoutEnd, End, TypeOK
    <3> QED BY <3>1, <3>2
  <2>3. CASE CompleteStep(r)
    <3>1. completion[r] \in Swapping
      BY <2>3 DEF CompleteStep, CompleteRead, CompleteWrite, CompleteRenameVulns, CompleteRenamePaths,
         CompleteCopyGraph, CompleteCopyVulns, Swapping
    <3>2. outcome[r] = "none"
      BY <3>1, SwapFacts
    <3>3. outcome'[r] # "completed"
      BY <2>3, <3>2 DEF CompleteStep, CompleteRead, CompleteWrite, CompleteRenameVulns,
         CompleteRenamePaths, CompleteCopyGraph, CompleteCopyVulns, GoOn, GiveUp, End, TypeOK
    <3> QED BY <3>2, <3>3
  <2> QED BY <2>1, <2>2, <2>3
<1>6. SameRefiner(r)
  BY <1>2, <1>4, <1>5 DEF SameRefiner
<1> QED BY <1>2, <1>3, <1>6, QuietRefining DEF SameTask

(* The scan is saved: if its scanner goes on, it is the refiner.           *)
LEMMA ArchiveRefining ==
  ASSUME TypeOK, ExclusionInv, SettledInv, RefiningInv, NEW r \in Runs, CompleteArchive(r)
  PROVE  RefiningInv'
<1>1. completion[r] = "copyPaths" /\ UNCHANGED <<task, exclusiveTask, closing, child>>
  BY DEF CompleteArchive, taskVars, childVars
<1>2. ClosureInv(r) /\ scan.run = r /\ closing[r] # "handled"
  BY <1>1, SwapFacts DEF ExclusionInv, ClosureInv, Swapping
<1>3. scan'.run = r
  BY <1>2, ScanUpdates DEF CompleteArchive, TypeOK
<1>4. /\ completion'[r] = "done" /\ outcome'[r] = "completed"
      /\ flags[r] \subseteq flags'[r] /\ ("exited" \in flags'[r] => "exited" \in flags[r])
  BY DEF CompleteArchive, TypeOK
<1>5. ASSUME NEW s \in Runs, s # r
      PROVE  outcome'[s] = outcome[s] /\ flags'[s] = flags[s]
  BY <1>5 DEF CompleteArchive, TypeOK
<1>6. ASSUME NEW s \in Runs PROVE RefinerInv(s)'
  <2>1. RefinerInv(s)
    BY DEF RefiningInv
  <2>2. CASE s # r
    BY <1>1, <1>2, <1>3, <1>5, <2>1, <2>2 DEF RefinerInv, Alive
  <2>3. CASE s = r
    <3>1. "exited" \notin flags[r] => refiner' = r
      BY DEF CompleteArchive
    <3>2. "exited" \in flags[r] => ~Alive(r)'
      BY <1>1, <2>1, <2>3 DEF RefinerInv, Alive
    <3> QED BY <1>1, <1>3, <1>4, <2>1, <2>3, <3>1, <3>2 DEF RefinerInv
  <2> QED BY <2>2, <2>3
<1>7. RefiningHasAnOwner'
  BY <1>1, <1>2, <1>3 DEF RefiningHasAnOwner
<1> QED BY <1>1, <1>3, <1>4, <1>6, <1>7 DEF RefiningInv

LEMMA CloseRefining ==
  ASSUME TypeOK, ExclusionInv, SettledInv, RefiningInv, NEW r \in Runs, Close(r)
  PROVE  RefiningInv'
<1>1. ClosureInv(r) /\ OutcomeInv(r) /\ child[r] = "dead" /\ child'[r] = "closed" /\ closing[r] = "none"
  BY DEF ExclusionInv, SettledInv, Close, ClosureInv, TypeOK
<1>2. UNCHANGED <<scan, refiner, task, exclusiveTask, completion>>
  BY DEF Close, moduleVars, taskVars
<1>3. ASSUME NEW s \in Runs, s # r PROVE SameRefiner(s)
  BY <1>2, <1>3 DEF SameRefiner, Close, Forget, End, TypeOK, Alive
<1>4. /\ outcome'[r] = outcome[r] \/ (outcome[r] = "none" /\ outcome'[r] # "completed")
      /\ completion[r] = "done" => closing'[r] # "handled"
  BY <1>1 DEF Close, End, TypeOK, OutcomeInv
<1>5. SameRefiner(r)
  BY <1>1, <1>2, <1>4 DEF SameRefiner, Alive
<1> QED BY <1>2, <1>3, <1>5, QuietRefining DEF SameTask

LEMMA DiscardedRefining ==
  ASSUME TypeOK, ExclusionInv, SettledInv, RefiningInv, NEW r \in Runs, Discarded(r)
  PROVE  RefiningInv'
<1>1. ClosureInv(r) /\ UNCHANGED <<refiner, task, exclusiveTask, outcome, closing, child>>
  BY DEF ExclusionInv, Discarded, taskVars
<1>2. scan'.run = scan.run /\ scan'.refining = scan.refining
  BY DEF Discarded, Released, TypeOK, ScanStates
<1>3. ASSUME NEW s \in Runs, s # r PROVE SameRefiner(s)
  BY <1>1, <1>3 DEF SameRefiner, Discarded, Forget, TypeOK, Alive
<1>4. /\ completion[r] = "done" => completion'[r] = "done"
      /\ flags'[r] = flags[r] \/ (flags'[r] = {} /\ child[r] = "closed")
  BY <1>1 DEF Discarded, Forget, TypeOK, ClosureInv
<1>5. SameRefiner(r)
  BY <1>1, <1>4 DEF SameRefiner, Alive
<1> QED BY <1>1, <1>2, <1>3, <1>5, QuietRefining DEF SameTask

(* The last turn of a run: a rescore of its own takes refining over, or    *)
(* refining is over.                                                       *)
LEMMA RefinedRefining ==
  ASSUME TypeOK, ExclusionInv, SettledInv, RefiningInv, NEW r \in Runs, Refined(r)
  PROVE  RefiningInv'
<1>1. /\ ClosureInv(r) /\ closing[r] = "awaiting" /\ child[r] = "closed"
      /\ UNCHANGED <<completion, outcome, child>>
  BY DEF ExclusionInv, Refined, ClosureInv, ghostVars
<1>2. scan'.run = scan.run
  BY RefiningOverUpdate DEF Refined, TypeOK
<1>3. ASSUME NEW s \in Runs PROVE RefinerInv(s)'
  <2>1. RefinerInv(s)
    BY DEF RefiningInv
  <2>2. CASE s = r
    <3>1. ~Alive(r)' /\ child'[r] = "closed"
      BY <1>1 DEF Alive
    <3> QED BY <2>2, <3>1 DEF RefinerInv
  <2>3. CASE s # r
    <3>1. flags'[s] = flags[s] /\ (refiner = s => refiner' = s)
      BY <2>3 DEF Refined, Forget, TypeOK
    <3> QED BY <1>1, <1>2, <2>1, <3>1 DEF RefinerInv, Alive
  <2> QED BY <2>2, <2>3
<1>4. CASE scan' = RefiningOver /\ UNCHANGED taskVars
  BY <1>3, <1>4, RefiningOverUpdate DEF RefiningInv, RefiningHasAnOwner, TypeOK, taskVars
<1>5. CASE task' = TaskOf("rescore", r, "read") /\ exclusiveTask' = TRUE /\ UNCHANGED scan
  <2>1. r # 0
    BY DEF Runs
  <2>2. task'.kind = "rescore" /\ task'.owner = r
    BY <1>5 DEF TaskOf
  <2> QED BY <1>1, <1>3, <1>5, <2>1, <2>2 DEF RefiningInv, RefiningHasAnOwner
<1> QED BY <1>4, <1>5 DEF Refined

LEMMA TaskRefining ==
  ASSUME TypeOK, ExclusionInv, SettledInv, RefiningInv, BeginTask \/ TaskNext
  PROVE  RefiningInv'
<1>1. UNCHANGED <<refiner, flags, completion, closing, outcome, child>>
  BY DEF BeginTask, TaskNext, TaskRead, TaskWriteVulns, TaskWritePaths, TaskWriteGraph, TaskEnd,
     taskUnchanged, moduleVars, closureVars, childVars, ghostVars
<1>2. \A s \in Runs : SameRefiner(s)
  BY <1>1 DEF SameRefiner, Alive
<1>3. CASE TaskRead \/ TaskWriteVulns \/ TaskWritePaths \/ TaskWriteGraph
  <2>1. UNCHANGED <<scan, exclusiveTask>>
    BY <1>3 DEF TaskRead, TaskWriteVulns, TaskWritePaths, TaskWriteGraph, taskUnchanged, moduleVars
  <2>2. SameTask
    BY <1>3, <2>1, TaskMoves
       DEF SameTask, TaskRead, TaskWriteVulns, TaskWritePaths, TaskWriteGraph
  <2> QED BY <1>1, <1>2, <2>1, <2>2, QuietRefining
<1>4. ASSUME NEW s \in Runs, scan'.run = scan.run PROVE RefinerInv(s)'
  BY <1>1, <1>4 DEF RefiningInv, RefinerInv, Alive
<1>5. CASE BeginTask
  <2>1. UNCHANGED scan /\ exclusiveTask' /\ task.kind = "none"
    BY <1>5 DEF BeginTask, Unlocked, moduleVars, RefiningInv
  <2> QED BY <1>1, <1>4, <2>1 DEF RefiningInv, RefiningHasAnOwner
<1>6. CASE TaskEnd
  <2>1. task'.kind = "none"
    BY <1>6 DEF TaskEnd, NoTask, TaskOf
  <2>2. CASE task.owner = 0
    <3>1. scan' = scan
      BY <1>6, <2>2 DEF TaskEnd
    <3> QED BY <1>1, <1>4, <2>1, <2>2, <3>1 DEF RefiningInv, RefiningHasAnOwner
  <2>3. CASE task.owner # 0
    <3>1. scan'.run = scan.run /\ scan'.refining = FALSE
      BY <1>6, <2>3, RefiningOverUpdate DEF TaskEnd, TypeOK
    <3> QED BY <1>4, <2>1, <3>1 DEF RefiningInv, RefiningHasAnOwner
  <2> QED BY <2>2, <2>3
<1> QED BY <1>3, <1>5, <1>6 DEF TaskNext

LEMMA RefiningPreserved ==
  TypeOK /\ ExclusionInv /\ SettledInv /\ CompletesOnce /\ RefiningInv /\ [Next]_vars => RefiningInv'
<1> SUFFICES ASSUME TypeOK, ExclusionInv, SettledInv, CompletesOnce, RefiningInv, [Next]_vars
             PROVE  RefiningInv'
  OBVIOUS
<1>1. CASE BackgroundStart
  <2>1. {} \in SUBSET {"replaceEmpty"}
    OBVIOUS
  <2> QED BY <1>1, <2>1, StartRefining DEF BackgroundStart
<1>2. ASSUME NEW r \in Runs, RunNext(r) PROVE RefiningInv'
  BY <1>2, ChildRefining, EndingRefining, ArchiveRefining, CloseRefining, DiscardedRefining
     DEF RunNext, HandlerNext, CompleteNext, CompleteStep
<1>3. ASSUME NEW q \in Requests, Post(q) \/ PostPreempt(q) \/ Resume(q) PROVE RefiningInv'
  BY <1>3, RequestRefining
<1>4. ASSUME NEW r \in Runs, Refined(r) PROVE RefiningInv'
  BY <1>4, RefinedRefining
<1>5. CASE BeginTask \/ TaskNext
  BY <1>5, TaskRefining
<1>6. CASE UNCHANGED vars
  BY <1>6, QuietRefining DEF vars, SameRefiner, SameTask, Alive, moduleVars, closureVars, childVars,
     taskVars, ghostVars
<1> QED BY <1>1, <1>2, <1>3, <1>4, <1>5, <1>6 DEF Next, ContinuationNext

(* Refining is of a completed scan, and its scanner is the refiner.        *)
THEOREM RefinersAreKnown == Spec => []RefiningInv
<1>1. ASSUME Init PROVE RefiningInv
  BY <1>1 DEF Init, RefiningInv, RefinerInv, RefiningHasAnOwner, Alive, NoTask, TaskOf
<1> QED BY <1>1, RefiningPreserved, TypeCorrect, Exclusion, Settled, Completes, PTL DEF Spec

(* scan.ts:21, 236, 256, 436-450: refining always has someone left to end  *)
(* it, and a scanner displaced by a newer scan has been told to stop.      *)
THEOREM RefinersAreOwned == Spec => []RefinersHaveAnOwner
<1>1. RefiningInv => RefinersHaveAnOwner
  BY DEF RefiningInv, RefinerInv, RefinersHaveAnOwner, DisplacedRefinersAreKilled
<1> QED BY <1>1, RefinersAreKnown, PTL
-----------------------------------------------------------------------------
(* The way out of a scan, as far as it does not depend on fairness.  A run *)
(* that a step leaves as it is, or only brings nearer to its end.          *)
SameWay(s) == (Armed(s) => Armed(s)') /\ (ClosedInv(s) => ClosedInv(s)') /\ (UnderWay(s) => UnderWay(s)')

LEMMA WayFrame ==
  ASSUME WayOutInv, SameScan, \A s \in Runs : SameWay(s)
  PROVE  WayOutInv'
<1>1. Running' <=> Running
  BY DEF SameScan, Running
<1>2. Running => scan'.run \in Runs /\ UnderWay(scan.run)'
  BY DEF WayOutInv, SameWay, SameScan
<1>3. (Running => UnderWay(scan.run))'
  BY <1>1, <1>2 DEF SameScan, UnderWay
<1> QED BY <1>1, <1>2, <1>3 DEF WayOutInv, SameWay

(* What the lock is released by ends the run that held it.                 *)
LEMMA WayReleased ==
  ASSUME WayOutInv, ~Running', \A s \in Runs : Armed(s)' /\ ClosedInv(s)'
  PROVE  WayOutInv'
BY DEF WayOutInv

(* A run that a step does not touch, but perhaps tells to stop.            *)
LEMMA UntouchedWay ==
  ASSUME NEW s \in Runs, child'[s] = child[s], closing'[s] = closing[s], ending'[s] = ending[s],
         completion'[s] = completion[s], flags[s] \subseteq flags'[s],
         "ended" \in flags'[s] => "ended" \in flags[s]
  PROVE  SameWay(s)
BY DEF SameWay, Armed, ClosedInv, UnderWay, Alive

LEMMA StartWay ==
  ASSUME TypeOK, ExclusionInv, WayOutInv, NEW trigger, NEW options \in SUBSET {"replaceEmpty"},
         StartScan(trigger, options)
  PROVE  WayOutInv'
<1>0. PICK r \in Runs : r = NextRun
  BY StartFrame
<1>1. /\ r \in Runs /\ child[r] = "unborn" /\ child'[r] = "scanning" /\ flags'[r] = {"timer"} \cup options
      /\ completion[r] = "none" /\ ending[r] = "none" /\ closing[r] = "none"
  BY <1>0, StartFrame
<1>2. scan'.run = r /\ UNCHANGED <<completion, ending, closing>>
  BY <1>0 DEF StartScan
<1>3. UnderWay(r)'
  BY <1>1, <1>2 DEF UnderWay
<1>4. (UnderWay(scan.run))'
  BY <1>2, <1>3 DEF UnderWay
<1>5. ASSUME NEW s \in Runs PROVE Armed(s)' /\ ClosedInv(s)'
  <2>1. CASE s = r
    BY <1>1, <2>1 DEF Armed, ClosedInv
  <2>2. CASE s # r
    <3>1. child'[s] = child[s] /\ flags[s] \subseteq flags'[s]
      BY <1>0, <2>2, StartFrame
    <3> QED BY <1>2, <3>1 DEF WayOutInv, Armed, ClosedInv, Alive
  <2> QED BY <2>1, <2>2
<1> QED BY <1>1, <1>2, <1>4, <1>5 DEF WayOutInv

LEMMA RequestWay ==
  ASSUME TypeOK, ExclusionInv, WayOutInv, NEW q \in Requests,
         Post(q) \/ PostPreempt(q) \/ Resume(q)
  PROVE  WayOutInv'
<1>1. CASE \E options \in SUBSET {"replaceEmpty"} : StartScan("manual", options)
  BY <1>1, StartWay
<1>2. CASE PostPreempt(q)
  <2>1. UNCHANGED <<scan, completion, closing, ending, child>>
    BY <1>2 DEF PostPreempt, moduleVars, childVars
  <2>2. \A s \in Runs : flags[s] \subseteq flags'[s] /\ ("ended" \in flags'[s] => "ended" \in flags[s])
    BY <1>2 DEF PostPreempt, TypeOK
  <2> QED BY <2>1, <2>2, UntouchedWay, WayFrame DEF SameScan
<1>3. CASE UNCHANGED <<moduleVars, closureVars, childVars>>
  BY <1>3, UntouchedWay, WayFrame DEF SameScan, moduleVars, closureVars, childVars
<1> QED BY <1>1, <1>2, <1>3 DEF Post, Resume, StartOrRefuse

(* The steps of the process, the timer, a spawn error and the end of       *)
(* stdout: a timer that fires has the scanner told to stop.                *)
LEMMA ChildWay ==
  ASSUME TypeOK, WayOutInv, NEW r \in Runs,
         ChildNext(r) \/ Timeout(r) \/ SpawnError(r) \/ StdoutEnd(r)
  PROVE  WayOutInv'
<1>1. UNCHANGED <<scan, closing>>
  BY DEF ChildNext, ChildWrites, ChildEmits, ChildExits, ChildFails, ChildKilled, Dies, Timeout,
     SpawnError, StdoutEnd, childUnchanged, moduleVars
<1>2. ASSUME NEW s \in Runs, s # r PROVE SameWay(s)
  <2>1. /\ child'[s] = child[s] /\ flags'[s] = flags[s] /\ ending'[s] = ending[s]
        /\ completion'[s] = completion[s]
    BY <1>2 DEF ChildNext, ChildWrites, ChildEmits, ChildExits, ChildFails, ChildKilled, Dies, Timeout,
       SpawnError, StdoutEnd, childUnchanged, childVars, End, TypeOK
  <2> QED BY <1>1, <2>1, UntouchedWay
<1>3. SameWay(r)
  <2>1. /\ child'[r] = "unborn" => child[r] = "unborn"
        /\ child'[r] = "closed" => child[r] = "closed"
        /\ Alive(r)' => Alive(r)
    BY DEF ChildNext, ChildWrites, ChildEmits, ChildExits, ChildFails, ChildKilled, Dies, Timeout,
       SpawnError, StdoutEnd, childUnchanged, childVars, Alive, TypeOK
  <2>2. Alive(r)' /\ flags[r] \cap {"timer", "killed"} # {} => flags'[r] \cap {"timer", "killed"} # {}
    <3>1. CASE SpawnError(r)
      BY <3>1 DEF SpawnError, Alive, TypeOK
    <3>2. CASE Timeout(r)
      BY <3>2 DEF Timeout, TypeOK
    <3>3. CASE ChildNext(r) \/ StdoutEnd(r)
      <4>1. flags[r] \subseteq flags'[r]
        BY <3>3 DEF ChildNext, ChildWrites, ChildEmits, ChildExits, ChildFails, ChildKilled, Dies,
           StdoutEnd, TypeOK
      <4> QED BY <4>1
    <3> QED BY <3>1, <3>2, <3>3
  <2>3. \/ /\ ending'[r] = ending[r]
           /\ completion'[r] = completion[r] \/ completion'[r] = "read"
           /\ "ended" \in flags'[r] => "ended" \in flags[r]
        \/ ending'[r] = "failed" /\ completion'[r] \in {completion[r], "ending"}
    <3>1. CASE ChildNext(r) \/ Timeout(r)
      BY <3>1 DEF ChildNext, ChildWrites, ChildEmits, ChildExits, ChildFails, ChildKilled, Dies,
         Timeout, childUnchanged, TypeOK
    <3>2. CASE SpawnError(r)
      BY <3>2 DEF SpawnError, End, TypeOK
    <3>3. CASE StdoutEnd(r)
      BY <3>3 DEF StdoutEnd, End, TypeOK
    <3> QED BY <3>1, <3>2, <3>3
  <2>4. UnderWay(r) => UnderWay(r)'
    BY <1>1, <2>1, <2>3 DEF UnderWay
  <2> QED BY <1>1, <2>1, <2>2, <2>4 DEF SameWay, Armed, ClosedInv
<1> QED BY <1>1, <1>2, <1>3, WayFrame DEF SameScan

(* complete() goes on or has the end under way; saved, the lock is free.   *)
LEMMA CompleteWay ==
  ASSUME TypeOK, WayOutInv, NEW r \in Runs, CompleteStep(r)
  PROVE  WayOutInv'
<1>1. UNCHANGED <<scan, closing, child>>
  BY DEF CompleteStep, CompleteRead, CompleteWrite, CompleteRenameVulns,
     CompleteRenamePaths, CompleteCopyGraph, CompleteCopyVulns, completeUnchanged, moduleVars, childVars
<1>2. \/ \E next \in Swapping : GoOn(r, next)
      \/ \E status \in {"idle", "failed"}, how \in {"partial", "failed"} : GiveUp(r, status, how)
  BY DEF CompleteStep, CompleteRead, CompleteWrite, CompleteRenameVulns,
     CompleteRenamePaths, CompleteCopyGraph, CompleteCopyVulns, Swapping
<1>3. CASE \E next \in Swapping : GoOn(r, next)
  <2>1. /\ completion'[r] \in Swapping /\ UNCHANGED <<flags, ending>>
        /\ \A s \in Runs : s # r => completion'[s] = completion[s]
    BY <1>3 DEF GoOn, TypeOK
  <2>2. \A s \in Runs : s # r => SameWay(s)
    BY <1>1, <2>1, UntouchedWay
  <2>3. SameWay(r)
    BY <1>1, <2>1 DEF SameWay, Armed, ClosedInv, UnderWay, Alive, Swapping
  <2> QED BY <1>1, <2>2, <2>3, WayFrame DEF SameScan
<1>4. CASE \E status \in {"idle", "failed"}, how \in {"partial", "failed"} : GiveUp(r, status, how)
  <2>1. /\ completion'[r] = "ending" /\ ending'[r] # "none" /\ flags[r] \subseteq flags'[r]
        /\ \A s \in Runs : s # r =>
             completion'[s] = completion[s] /\ ending'[s] = ending[s] /\ flags'[s] = flags[s]
    BY <1>4 DEF GiveUp, End, TypeOK
  <2>2. \A s \in Runs : s # r => SameWay(s)
    BY <1>1, <2>1, UntouchedWay
  <2>3. SameWay(r)
    BY <1>1, <2>1 DEF SameWay, Armed, ClosedInv, UnderWay, Alive
  <2> QED BY <1>1, <2>2, <2>3, WayFrame DEF SameScan
<1> QED BY <1>2, <1>3, <1>4

LEMMA ReleaseWay ==
  ASSUME TypeOK, ExclusionInv, WayOutInv, NEW r \in Runs, CompleteArchive(r) \/ Discarded(r)
  PROVE  WayOutInv'
<1>1. ~Running'
  BY ScanUpdates DEF CompleteArchive, Discarded, Running, TypeOK
<1>2. UNCHANGED <<child, closing>>
  BY DEF CompleteArchive, Discarded, childVars
<1>3. \A s \in Runs : flags[s] \subseteq flags'[s] \/ closing[s] = "handled"
  BY DEF CompleteArchive, Discarded, Forget, TypeOK
<1>4. \A s \in Runs : closing[s] = "handled" => child[s] = "closed"
  BY DEF ExclusionInv, ClosureInv
<1>5. ASSUME NEW s \in Runs PROVE Armed(s)' /\ ClosedInv(s)'
  BY <1>2, <1>3, <1>4 DEF WayOutInv, Armed, ClosedInv, Alive
<1> QED BY <1>1, <1>5, WayReleased

(* 'close': the run is ended, waits for its completion, or is done with.   *)
LEMMA CloseWay ==
  ASSUME TypeOK, WayOutInv, NEW r \in Runs, Close(r)
  PROVE  WayOutInv'
<1>1. scan' = scan /\ completion' = completion /\ child'[r] = "closed" /\ closing'[r] # "none"
  BY DEF Close, moduleVars, TypeOK
<1>2. ASSUME NEW s \in Runs, s # r PROVE SameWay(s)
  <2>1. /\ child'[s] = child[s] /\ flags'[s] = flags[s] /\ ending'[s] = ending[s]
        /\ closing'[s] = closing[s]
    BY <1>2 DEF Close, Forget, End, TypeOK
  <2> QED BY <1>1, <2>1, UntouchedWay
<1>3. UnderWay(r) => UnderWay(r)'
  <2> SUFFICES ASSUME UnderWay(r) PROVE UnderWay(r)'
    OBVIOUS
  <2>1. CASE completion[r] # "none"
    <3>1. /\ closing'[r] = "awaiting" /\ ending' = ending
          /\ "ended" \in flags'[r] => "ended" \in flags[r]
      BY <2>1 DEF Close, TypeOK
    <3> QED BY <1>1, <2>1, <3>1 DEF UnderWay
  <2>2. CASE completion[r] = "none" /\ "ended" \in flags[r]
    <3>1. ending[r] # "none" /\ ending' = ending /\ closing'[r] = "handled"
      BY <2>2 DEF Close, UnderWay, TypeOK
    <3> QED BY <1>1, <2>2, <3>1 DEF UnderWay
  <2>3. CASE completion[r] = "none" /\ "ended" \notin flags[r]
    <3>1. ending'[r] # "none" /\ closing'[r] = "handled"
      BY <2>3 DEF Close, End, TypeOK
    <3> QED BY <1>1, <2>3, <3>1 DEF UnderWay
  <2> QED BY <2>1, <2>2, <2>3
<1>4. SameWay(r)
  BY <1>1, <1>3 DEF SameWay, Armed, ClosedInv, Alive
<1> QED BY <1>1, <1>2, <1>4, WayFrame DEF SameScan

LEMMA RefinedWay ==
  ASSUME TypeOK, ExclusionInv, WayOutInv, NEW r \in Runs, Refined(r)
  PROVE  WayOutInv'
<1>1. /\ closing[r] = "awaiting" /\ completion[r] = "done" /\ closing'[r] = "handled"
      /\ UNCHANGED <<completion, ending, child>> /\ child[r] = "closed"
  BY DEF Refined, ExclusionInv, ClosureInv, TypeOK
<1>2. SameScan
  BY RefiningOverUpdate DEF Refined, SameScan, TypeOK
<1>3. ASSUME NEW s \in Runs, s # r PROVE SameWay(s)
  <2>1. flags'[s] = flags[s] /\ closing'[s] = closing[s]
    BY <1>3 DEF Refined, Forget, TypeOK
  <2> QED BY <1>1, <2>1, UntouchedWay
<1>4. SameWay(r)
  BY <1>1 DEF SameWay, Armed, ClosedInv, UnderWay, Alive
<1> QED BY <1>2, <1>3, <1>4, WayFrame

LEMMA TaskWay ==
  ASSUME TypeOK, WayOutInv, BeginTask \/ TaskNext
  PROVE  WayOutInv'
<1>1. UNCHANGED <<flags, completion, ending, closing, child>>
  BY DEF BeginTask, TaskNext, TaskRead, TaskWriteVulns, TaskWritePaths, TaskWriteGraph, TaskEnd,
     taskUnchanged, closureVars, childVars
<1>2. SameScan
  BY RefiningOverUpdate
     DEF SameScan, TypeOK, BeginTask, TaskNext, TaskRead, TaskWriteVulns, TaskWritePaths, TaskWriteGraph,
         TaskEnd, taskUnchanged, moduleVars
<1> QED BY <1>1, <1>2, UntouchedWay, WayFrame

LEMMA WayOutPreserved == TypeOK /\ ExclusionInv /\ WayOutInv /\ [Next]_vars => WayOutInv'
<1> SUFFICES ASSUME TypeOK, ExclusionInv, WayOutInv, [Next]_vars PROVE WayOutInv'
  OBVIOUS
<1>1. CASE BackgroundStart
  <2>1. {} \in SUBSET {"replaceEmpty"}
    OBVIOUS
  <2> QED BY <1>1, <2>1, StartWay DEF BackgroundStart
<1>2. ASSUME NEW r \in Runs, RunNext(r) PROVE WayOutInv'
  BY <1>2, ChildWay, CompleteWay, ReleaseWay, CloseWay DEF RunNext, HandlerNext, CompleteNext, CompleteStep
<1>3. ASSUME NEW q \in Requests, Post(q) \/ PostPreempt(q) \/ Resume(q) PROVE WayOutInv'
  BY <1>3, RequestWay
<1>4. ASSUME NEW r \in Runs, Refined(r) PROVE WayOutInv'
  BY <1>4, RefinedWay
<1>5. CASE BeginTask \/ TaskNext
  BY <1>5, TaskWay
<1>6. CASE UNCHANGED vars
  BY <1>6, UntouchedWay, WayFrame DEF vars, SameScan, moduleVars, closureVars, childVars
<1> QED BY <1>1, <1>2, <1>3, <1>4, <1>5, <1>6 DEF Next, ContinuationNext

(* scan.ts:311-312, 433-451: a scan shown as running, or as refining, has  *)
(* at every moment a handler, a timer, a signal or a task left to end it,  *)
(* for any number of scans and requests and though the scanner may hang.   *)
THEOREM NothingHangs == Spec => []NeverHangs
<1>1. TypeOK /\ ExclusionInv /\ RefiningInv /\ WayOutInv => NeverHangs
  <2> SUFFICES ASSUME TypeOK, ExclusionInv, RefiningInv, WayOutInv PROVE NeverHangs
    OBVIOUS
  <2>1. ASSUME NEW r \in Runs
        PROVE  /\ child[r] \in {"unborn", "dead", "closed"} \/ Alive(r)
               /\ closing[r] \in {"none", "awaiting", "handled"}
               /\ completion[r] \in Swapping \cup {"none", "ending", "done"}
    BY DEF TypeOK, ChildStates, Closings, Completions, Alive
  <2>2. ASSUME Running PROVE WayOut(scan.run)
    <3>1. scan.run \in Runs /\ UnderWay(scan.run)
      BY <2>2 DEF WayOutInv
    <3>2. Armed(scan.run) /\ ClosedInv(scan.run)
      BY <3>1 DEF WayOutInv
    <3> QED BY <2>1, <3>1, <3>2 DEF UnderWay, WayOut, Armed, ClosedInv
  <2>3. ASSUME scan.refining PROVE WayOut(scan.run) \/ (task.kind # "none" /\ task.owner # 0)
    <3>1. /\ scan.run \in Runs /\ completion[scan.run] = "done"
          /\ closing[scan.run] # "handled" \/ (task.kind # "none" /\ task.owner # 0)
      BY <2>3 DEF RefiningInv, RefiningHasAnOwner
    <3>2. Armed(scan.run) /\ ClosedInv(scan.run)
      BY <3>1 DEF WayOutInv
    <3>3. child[scan.run] # "unborn"
      BY <3>1 DEF ExclusionInv, ClosureInv
    <3> QED BY <2>1, <3>1, <3>2, <3>3 DEF WayOut, Armed, ClosedInv
  <2> QED BY <2>2, <2>3 DEF NeverHangs
<1>2. Init => WayOutInv
  BY DEF Init, WayOutInv, Armed, ClosedInv, Alive, Running
<1> QED BY <1>1, <1>2, WayOutPreserved, TypeCorrect, Exclusion, RefinersAreKnown, PTL DEF Spec
=============================================================================
