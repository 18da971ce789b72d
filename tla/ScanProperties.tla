-------------------------- MODULE ScanProperties --------------------------
(***************************************************************************)
(* What the scan service promises: one scan or file-only task at a time,   *)
(* files that belong together, outcomes told to the one who asked.         *)
(***************************************************************************)
EXTENDS Scan

ScanStates == [run: Versions, status: {"idle", "running", "failed"},
               trigger: Triggers, refining: BOOLEAN]
Tasks == [kind: {"none", "recompute", "rescore"}, owner: Versions,
          step: {"none", "read", "vulns", "paths", "graph"},
          graph: Versions, vulns: Versions]
Completions == Swapping \cup {"none", "ending", "done"}
Endings == {"none", "idle", "failed", "stopped"}
Closings == {"none", "awaiting", "handled"}
ChildStates == {"unborn", "scanning", "written", "fetching", "dead", "closed"}
Copies == [graph: Versions, vulns: Versions, paths: Versions]
RequestStates == {"none", "waiting", "resolved", "answered"}
Reports == {"none", "ok", "failed"}

TypeOK ==
  /\ scan \in ScanStates
  /\ refiner \in Versions /\ stopRunning \in Versions /\ onScanDone \in Versions
  /\ exclusiveTask \in BOOLEAN /\ task \in Tasks
  /\ flags \in [Runs -> SUBSET Flags]
  /\ completion \in [Runs -> Completions]
  /\ ending \in [Runs -> Endings]
  /\ closing \in [Runs -> Closings]
  /\ whenStopped \in [Runs -> Requests \cup {NoRequest}]
  /\ child \in [Runs -> ChildStates]
  /\ output \in [Runs -> Outputs]
  /\ graph \in Versions /\ vulns \in Versions /\ paths \in Versions
  /\ vulnsTmp \in Versions /\ pathsTmp \in Versions
  /\ copy \in Copies /\ archive \subseteq Copies
  /\ request \in [Requests -> RequestStates]
  /\ outcome \in [Runs -> Outcomes]
  /\ reported \in [Runs -> Reports]

-----------------------------------------------------------------------------
Running == scan.status = "running"
MidSwap(r) == completion[r] \in Swapping \/ ending[r] # "none"

(* scan.ts:30-33, 276-277, 419: whatever a scan still does to the shared   *)
(* files (the renames, the archive copies, the removal of temp files)      *)
(* happens while it is the running scan and no file-only task runs.        *)
OneAtATime ==
  /\ Running => ~exclusiveTask
  /\ \A r \in Runs : MidSwap(r) => Running /\ scan.run = r

(* What makes OneAtATime inductive: how the closure and the process of a   *)
(* run advance together.  A run whose end is not decided is the running    *)
(* scan; one whose temp files are being removed has been decided; complete *)
(* starts only when the scanner has printed its graph and the run is not   *)
(* over; 'close' comes last, and handles a completion only once done.      *)
ClosureInv(r) ==
  /\ MidSwap(r) => Running /\ scan.run = r
  /\ child[r] # "unborn" /\ closing[r] # "handled" /\ "ended" \notin flags[r]
       => Running /\ scan.run = r
  /\ r > scan.run => child[r] = "unborn"
  /\ child[r] = "unborn" => completion[r] = "none" /\ ending[r] = "none"
  /\ child[r] \in {"scanning", "written"} =>
       completion[r] = "none" /\ ending[r] = "none" /\ "ended" \notin flags[r]
  /\ child[r] # "closed" => closing[r] = "none"
  /\ completion[r] \in Swapping => ending[r] = "none" /\ "ended" \notin flags[r]
  /\ ending[r] # "none" => "ended" \in flags[r] \/ closing[r] = "handled"
  /\ closing[r] = "handled" => completion[r] \in {"none", "done"}

(* Each rename leaves its temp file gone.                                  *)
RenamedInv(r) ==
  /\ completion[r] \in {"renamePaths", "copyGraph", "copyVulns", "copyPaths"} => vulnsTmp = 0
  /\ completion[r] \in {"copyGraph", "copyVulns", "copyPaths"} => pathsTmp = 0

(* scan.ts:276: every scan reuses the same two temp names, so a temp file  *)
(* is always the running scan's own; none outlives its scan.               *)
TempsOfTheRunningScan ==
  \A tmp \in {vulnsTmp, pathsTmp} : tmp # 0 => Running /\ tmp = scan.run

(* scan.ts:35-54: a task that still writes holds the lock, and no scan runs *)
(* beside it; with the above, an inductive invariant of the service.       *)
ExclusionInv ==
  /\ Running => ~exclusiveTask
  /\ task.step # "none" => exclusiveTask
  /\ \A r \in Runs : ClosureInv(r) /\ RenamedInv(r)
  /\ TempsOfTheRunningScan

(* scan.ts:224-228: the CVE list and the routes are moved into place after *)
(* the graph, so neither ever comes from a newer scan than the graph.      *)
NeverNewerThanGraph == vulns <= graph /\ paths <= graph

(* scan.ts:413-416: outside a swap, a CVE list from another scan than the  *)
(* graph's is only ever left by a scan that said so when it ended.         *)
SameScanUnlessSaid ==
  \/ vulns = graph
  \/ \E r \in Runs : MidSwap(r)
  \/ outcome[graph] = "partial"

(* scan.ts:419-421: an archived scan's graph and CVE list are of that one  *)
(* scan, its routes never newer, and no scan is archived twice.            *)
ArchiveIsOneScan ==
  /\ \A e \in archive : e.graph # 0 /\ e.vulns = e.graph /\ e.paths <= e.graph
  /\ \A e, f \in archive : e.graph = f.graph => e = f

(* scan.ts:224-228, 413-421: the graph, the CVE list, the routes and the   *)
(* archived scans never hold a mixture of scans that nobody announced.     *)
FilesAgree == NeverNewerThanGraph /\ SameScanUnlessSaid /\ ArchiveIsOneScan

(* scan.ts:224-225: a failed, timed-out or stopped scan leaves the graph,  *)
(* the CVE list, the routes and the history as they were.                  *)
UnsuccessfulLeavesNoTrace ==
  \A r \in Runs : outcome[r] \in {"failed", "stopped"} =>
    /\ graph # r /\ vulns # r /\ paths # r
    /\ \A e \in archive : e.graph # r

(* scan.ts:23, 41-44: the stop closure installed is always the running     *)
(* scan's, so a stop can only ever hit the scan its test looked at.        *)
StopClosureOfTheRunningScan ==
  /\ stopRunning # 0 <=> Running
  /\ stopRunning # 0 => stopRunning = scan.run
  /\ onScanDone # 0 => Running /\ onScanDone = scan.run

(* scan.ts:212-218, 365: onDone hears how its own scan ended, and a        *)
(* stopped scan's onDone hears nothing.                                    *)
ReportedTruthfully ==
  \A r \in Runs : /\ reported[r] = "ok" => outcome[r] \in {"completed", "partial"}
                  /\ reported[r] = "failed" => outcome[r] = "failed"
                  /\ outcome[r] = "stopped" => reported[r] = "none"

(* scan.ts:23, 41-44, 212-218: a stop hits the scan it was meant for, and  *)
(* whoever asked for a scan is told how that scan ended.                   *)
StoppedAndToldRightly == StopClosureOfTheRunningScan /\ ReportedTruthfully

(* scan.ts:32, 70-72: while a file-only task rewrites what it read, no     *)
(* scan swaps newer files under it.                                        *)
TaskSeesCurrentFiles ==
  task.step \in {"vulns", "paths", "graph"} => task.graph = graph /\ task.vulns = vulns

(* scan.ts:436, 450: refining shown means work is left that will end it:   *)
(* the shown scan's 'close' handler, or the rescore that handler started.  *)
RefiningHasAnOwner ==
  scan.refining => \/ closing[scan.run] # "handled"
                   \/ task.kind # "none" /\ task.owner # 0

(* scan.ts:21, 236, 256: a scanner that is still refining when a new scan  *)
(* starts has been told to stop.                                           *)
DisplacedRefinersAreKilled ==
  \A r \in Runs :
    outcome[r] = "completed" /\ Alive(r) /\ r # scan.run => "killed" \in flags[r]

(* scan.ts:21, 236, 256, 436-450: refining always has someone left to end  *)
(* it, and a scanner displaced by a newer scan has been told to stop.      *)
RefinersHaveAnOwner == RefiningHasAnOwner /\ DisplacedRefinersAreKilled

-----------------------------------------------------------------------------
(* What makes the properties above inductive, on top of ExclusionInv.      *)

(* How a run ended is decided once: by the step that marks it ended, and   *)
(* in agreement with the status its end() is about to set.                 *)
OutcomeInv(r) ==
  /\ child[r] = "unborn" => outcome[r] = "none"
  /\ "ended" \notin flags[r] /\ closing[r] # "handled" => outcome[r] = "none"
  /\ ending[r] = "idle" => outcome[r] = "partial"
  /\ ending[r] \in {"failed", "stopped"} => outcome[r] = ending[r]

SettledInv == (\A r \in Runs : OutcomeInv(r)) /\ StoppedAndToldRightly

(* complete() is called once, by the only stdout 'end' of its run.         *)
CompletesOnce ==
  \A r \in Runs : completion[r] # "none" /\ child[r] # "closed" => "eof" \in flags[r]

(* complete() once the graph is in place: what it has moved since, and     *)
(* what it has copied for the archive, is its own.                         *)
AfterWrite == {"renameVulns", "renamePaths", "copyGraph", "copyVulns", "copyPaths"}

WrittenInv(r) ==
  /\ completion[r] \in AfterWrite => graph = r
  /\ completion[r] \in AfterWrite \ {"renameVulns"} => vulns = r
  /\ completion[r] \in {"copyVulns", "copyPaths"} => copy.graph = r
  /\ completion[r] = "copyPaths" => copy.vulns = r

(* A scan whose results are served is moving the rest into place, or has   *)
(* completed at least in part; one in the archive has completed.           *)
TraceInv(r) ==
  /\ r \in {graph, vulns, paths} =>
       completion[r] \in AfterWrite \/ outcome[r] \in {"completed", "partial"}
  /\ \A e \in archive : e.graph = r => outcome[r] = "completed"

(* A file-only task writes back what it read.                              *)
FilesInv ==
  /\ \A r \in Runs : WrittenInv(r) /\ TraceInv(r)
  /\ graph <= scan.run /\ NeverNewerThanGraph /\ ArchiveIsOneScan
  /\ \/ vulns = graph
     \/ graph \in Runs /\ (outcome[graph] = "partial" \/ completion[graph] = "renameVulns")
  /\ TaskSeesCurrentFiles

(* Refining is shown of a completed scan whose scanner is the refiner, and *)
(* only a rescore started by the 'close' handler outlives that handler.    *)
RefinerInv(r) ==
  /\ "exited" \in flags[r] => child[r] = "closed"
  /\ outcome[r] = "completed" /\ Alive(r) =>
       "killed" \in flags[r] \/ (r = scan.run /\ refiner = r)

RefiningInv ==
  /\ \A r \in Runs : RefinerInv(r)
  /\ task.kind # "none" => exclusiveTask
  /\ scan.refining => /\ scan.run \in Runs
                      /\ completion[scan.run] = "done" /\ outcome[scan.run] = "completed"
  /\ RefiningHasAnOwner

-----------------------------------------------------------------------------
(* scan.ts:30-33: the three files change only in the hands of the running  *)
(* scan or of the task that holds the lock, and both never at once.        *)
FilesChangeUnderTheLock ==
  [][mapVars' # mapVars => (Running <=> ~exclusiveTask) /\ UNCHANGED <<scan, exclusiveTask>>]_vars

(* scan.ts:30-54: the service is the lock ScanLock describes: scans and     *)
(* file-only tasks begin only when it is free, a scan is shown as running  *)
(* exactly while it holds it, and only the holder writes the files.        *)
Holder == IF Running THEN "scan" ELSE IF exclusiveTask THEN "task" ELSE "nobody"

Lock == INSTANCE ScanLock WITH holder <- Holder, status <- scan.status, trigger <- scan.trigger,
                               files <- mapVars

KeepsTheLock == Lock!Spec

-----------------------------------------------------------------------------
(* scan.ts:311-312: a hung scan does not hold the lock for ever.           *)
EveryScanEnds ==
  \A r \in Runs : (Running /\ scan.run = r) ~> (outcome[r] # "none" /\ ~(Running /\ scan.run = r))

(* scan.ts:433-451: refining does not stay on the screen for ever.         *)
RefiningEnds == scan.refining ~> ~scan.refining

(* scan.ts:311-312, 433-451: the page never shows a scan or a refinement   *)
(* that nothing will end, though the scanner may hang.                     *)
ScansEnd == EveryScanEnds /\ RefiningEnds

(* What of this needs no fairness: some handler, timer, signal or task is  *)
(* always left that ends the scan shown as running, or shown as refining.  *)
Armed(r) == Alive(r) => flags[r] \cap {"timer", "killed"} # {}
WayOut(r) ==
  \/ Alive(r) /\ flags[r] \cap {"timer", "killed"} # {}
  \/ child[r] = "dead"
  \/ completion[r] \in Swapping \/ ending[r] # "none"
  \/ closing[r] = "awaiting" /\ completion[r] = "done"
NeverHangs ==
  /\ Running => WayOut(scan.run)
  /\ scan.refining => WayOut(scan.run) \/ (task.kind # "none" /\ task.owner # 0)

(* What makes that inductive: a scanner that lives can be timed out or has *)
(* been told to stop, and the end of the running scan, once decided, is    *)
(* under way until the lock is free.                                       *)
UnderWay(r) ==
  /\ child[r] # "unborn"
  /\ "ended" \in flags[r] \/ closing[r] = "handled" \/ completion[r] \in {"ending", "done"} =>
       ending[r] # "none"
  /\ closing[r] = "awaiting" => completion[r] # "none"
ClosedInv(r) == child[r] = "closed" => closing[r] # "none"
WayOutInv ==
  /\ \A r \in Runs : Armed(r) /\ ClosedInv(r)
  /\ Running => scan.run \in Runs /\ UnderWay(scan.run)

-----------------------------------------------------------------------------
(* A claim of the source that the code does not keep, and the property of  *)
(* a run that expects its violation.                                       *)

(* scan.ts:38: "resolve once its temp files are gone and the lock is free".*)
EveryStopResolves ==
  \A q \in Requests : request[q] = "waiting" ~> request[q] # "waiting"
=============================================================================
