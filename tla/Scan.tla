------------------------------- MODULE Scan -------------------------------
(***************************************************************************)
(* The scan service of the dashboard plugin (plugin/server/scan.ts): one   *)
(* module-level scan state, the closure every startScan call leaves behind *)
(* (its child process, its stdout 'end' and 'close' handlers, its          *)
(* complete() and end()), the runExclusive lock shared with the file-only  *)
(* tasks, and the POST /scan requests that may stop a background scan.     *)
(*                                                                         *)
(* One action is one turn of the event loop up to its next await, or one   *)
(* step of a child process.  A file's content is the number of the scan    *)
(* that produced it; 0 is what was there before the first scan (for a temp *)
(* file: no file).                                                         *)
(***************************************************************************)
EXTENDS Integers, FiniteSets

CONSTANTS MaxRuns,      \* bound: how many scans are ever started
          Requests,     \* the POST /scan requests that arrive
          NoRequest,    \* whenStopped's initial no-op
          OldMap,       \* the map before the first scan: "devices" or "empty"
          TaskKinds     \* the file-only tasks others ask for

ASSUME ConstantsOK == /\ MaxRuns \in Nat
                      /\ NoRequest \notin Requests
                      /\ OldMap \in {"devices", "empty"}
                      /\ TaskKinds \subseteq {"recompute", "rescore"}

Runs == 1 .. MaxRuns
Versions == 0 .. MaxRuns

Triggers == {"manual", "automatic", "scheduled"}
Outputs == {"none", "broken", "empty", "devices"}
Outcomes == {"none", "completed", "partial", "failed", "stopped"}
Swapping == {"read", "write", "renameVulns", "renamePaths",
             "copyGraph", "copyVulns", "copyPaths"}
(* The closure's booleans, its armed timer, and what befell the process:   *)
(* signalled, its 'end' event handled, CVE records logged as late.         *)
Flags == {"ended", "timedOut", "stopped", "saved", "exited", "timer", "replaceEmpty",
          "killed", "eof", "late"}

VARIABLES
  scan,           \* the ScanState: the run it describes, status, trigger, refining
  refiner,        \* the scanner still fetching CVE records, 0: null
  stopRunning,    \* the run whose stop closure is installed, 0: null
  onScanDone,     \* the run whose onDone is installed, 0: undefined
  exclusiveTask,  \* the runExclusive flag
  flags,          \* the closure of each run
  completion,     \* how far its complete() has come
  ending,         \* the status its end() will set once the temp files are gone
  closing,        \* its 'close' handler: not yet, awaiting completion, handled
  whenStopped,    \* the request its stop promise belongs to
  child,          \* the scanner process of each run
  output,         \* what it printed on stdout
  graph, vulns, paths,     \* the files the dashboard serves
  vulnsTmp, pathsTmp,      \* the scanner's temp files
  archive, copy,           \* the scan history, and the entry being copied
  task,           \* the file-only task that holds the lock
  request,        \* the POST /scan requests
  outcome,        \* history: how each run ended
  reported        \* history: what its onDone was told

moduleVars  == <<scan, refiner, stopRunning, onScanDone>>
closureVars == <<flags, completion, ending, closing, whenStopped>>
childVars   == <<child, output>>
mapVars     == <<graph, vulns, paths>>
tempVars    == <<vulnsTmp, pathsTmp>>
archiveVars == <<archive, copy>>
taskVars    == <<exclusiveTask, task>>
ghostVars   == <<outcome, reported>>
vars == <<moduleVars, closureVars, childVars, mapVars, tempVars, archiveVars, taskVars,
          request, ghostVars>>

-----------------------------------------------------------------------------
TaskOf(kind, owner, step) ==
  [kind |-> kind, owner |-> owner, step |-> step, graph |-> 0, vulns |-> 0]
NoTask == TaskOf("none", 0, "none")
NoCopy == [graph |-> 0, vulns |-> 0, paths |-> 0]

Init ==
  /\ scan = [run |-> 0, status |-> "idle", trigger |-> "manual", refining |-> FALSE]
  /\ refiner = 0 /\ stopRunning = 0 /\ onScanDone = 0
  /\ flags = [r \in Runs |-> {}]
  /\ completion = [r \in Runs |-> "none"]
  /\ ending = [r \in Runs |-> "none"]
  /\ closing = [r \in Runs |-> "none"]
  /\ whenStopped = [r \in Runs |-> NoRequest]
  /\ child = [r \in Runs |-> "unborn"]
  /\ output = [r \in Runs |-> "none"]
  /\ graph = 0 /\ vulns = 0 /\ paths = 0 /\ vulnsTmp = 0 /\ pathsTmp = 0
  /\ archive = {} /\ copy = NoCopy
  /\ exclusiveTask = FALSE /\ task = NoTask
  /\ request = [q \in Requests |-> "none"]
  /\ outcome = [r \in Runs |-> "none"]
  /\ reported = [r \in Runs |-> "none"]

-----------------------------------------------------------------------------
(* The lock: the test both startScan and runExclusive make.  (The          *)
(* definitions named Bug... are wrong variants, in no behaviour: each      *)
(* shows that a property notices the mistake it makes.)                    *)
BugTasksTakeNoLock == scan.status # "running"
Unlocked == scan.status # "running" /\ ~exclusiveTask

NextRun == scan.run + 1

(* A continuation of a promise that has resolved runs before the event     *)
(* loop takes the next event.                                              *)
EventTurn ==
  /\ ~ \E r \in Runs : closing[r] = "awaiting" /\ completion[r] = "done"
  /\ ~ \E q \in Requests : request[q] = "resolved"

(* terminate(), or the plain SIGTERM to a refining scanner.                *)
Killed(f, rs) == [r \in Runs |-> IF r \in rs THEN f[r] \cup {"killed"} ELSE f[r]]

(* startScan: a refining scanner is stopped, the state starts afresh, the  *)
(* child is spawned with its timer and stop closure.  Only the scheduler   *)
(* passes an onDone.                                                       *)
StartScan(trigger, options) ==
  /\ Unlocked
  /\ NextRun \in Runs
  /\ scan' = [run |-> NextRun, status |-> "running", trigger |-> trigger, refining |-> FALSE]
  /\ onScanDone' = IF trigger = "scheduled" THEN NextRun ELSE 0
  /\ stopRunning' = NextRun
  /\ flags' = [Killed(flags, {refiner}) EXCEPT ![NextRun] = {"timer"} \cup options]
  /\ child' = [child EXCEPT ![NextRun] = "scanning"]
  /\ UNCHANGED <<refiner, completion, ending, closing, whenStopped, output, mapVars, tempVars,
                 archiveVars, taskVars, ghostVars>>

(* autoRescan and the scheduler call startScan with their own trigger.     *)
BackgroundStart ==
  /\ EventTurn
  /\ \E trigger \in {"automatic", "scheduled"} : StartScan(trigger, {})
  /\ UNCHANGED request

(* The last step of POST /scan: start a manual scan, or answer 409.        *)
StartOrRefuse(q) ==
  \/ /\ \E options \in SUBSET {"replaceEmpty"} : StartScan("manual", options)
     /\ request' = [request EXCEPT ![q] = "answered"]
  \/ /\ ~Unlocked
     /\ request' = [request EXCEPT ![q] = "answered"]
     /\ UNCHANGED <<moduleVars, closureVars, childVars, mapVars, tempVars, archiveVars,
                    taskVars, ghostVars>>

(* stopBackgroundScan's test.                                              *)
Stoppable == scan.status = "running" /\ scan.trigger # "manual" /\ stopRunning # 0

(* POST /scan without preempt, or with it when there is nothing to stop.   *)
Post(q) ==
  /\ EventTurn
  /\ request[q] = "none"
  /\ StartOrRefuse(q)

(* POST /scan with preempt: stopRunning() marks the run stopped, remembers *)
(* this request as the one to resolve, and terminates the child.           *)
PostPreempt(q) ==
  /\ EventTurn
  /\ request[q] = "none"
  /\ Stoppable
  /\ flags' = [flags EXCEPT ![stopRunning] = @ \cup {"stopped", "killed"}]
  /\ whenStopped' = [whenStopped EXCEPT ![stopRunning] = q]
  /\ request' = [request EXCEPT ![q] = "waiting"]
  /\ UNCHANGED <<moduleVars, completion, ending, closing, childVars, mapVars, tempVars,
                 archiveVars, taskVars, ghostVars>>

(* The stop promise resolved: the handler goes on to startScan.            *)
Resume(q) ==
  /\ request[q] = "resolved"
  /\ StartOrRefuse(q)

(* whenStopped() of run r.                                                 *)
Resolved(r) ==
  IF whenStopped[r] = NoRequest THEN request
  ELSE [request EXCEPT ![whenStopped[r]] = "resolved"]

-----------------------------------------------------------------------------
(* The scanner process: it writes its temp files (the routes unless that   *)
(* stage was skipped), prints the graph and closes stdout, then fetches    *)
(* CVE records until it exits.                                             *)
childUnchanged == <<moduleVars, completion, ending, closing, whenStopped, mapVars, archiveVars,
                    taskVars, request, ghostVars>>

ChildWrites(r) ==
  /\ child[r] = "scanning"
  /\ pathsTmp' \in {pathsTmp, r}
  /\ vulnsTmp' = r
  /\ child' = [child EXCEPT ![r] = "written"]
  /\ UNCHANGED <<childUnchanged, flags, output>>

ChildEmits(r) ==
  /\ child[r] = "written"
  /\ \E o \in {"devices", "empty"} : output' = [output EXCEPT ![r] = o]
  /\ child' = [child EXCEPT ![r] = "fetching"]
  /\ UNCHANGED <<childUnchanged, flags, tempVars>>

(* Exit 0, having logged whether CVE records arrived late.                 *)
ChildExits(r) ==
  /\ child[r] = "fetching"
  /\ child' = [child EXCEPT ![r] = "dead"]
  /\ \E logged \in SUBSET {"late"} : flags' = [flags EXCEPT ![r] = @ \cup logged]
  /\ UNCHANGED <<childUnchanged, output, tempVars>>

Alive(r) == child[r] \in {"scanning", "written", "fetching"}

(* A failure of the scanner, or a signal.  One that dies while it prints   *)
(* leaves half a document on stdout.                                       *)
Dies(r) ==
  /\ Alive(r)
  /\ child' = [child EXCEPT ![r] = "dead"]
  /\ \/ UNCHANGED output
     \/ child[r] = "written" /\ output' = [output EXCEPT ![r] = "broken"]
  /\ UNCHANGED <<childUnchanged, flags, tempVars>>

ChildFails(r) == "killed" \notin flags[r] /\ Dies(r)

(* SIGTERM, or SIGKILL ten seconds later.                                  *)
ChildKilled(r) == "killed" \in flags[r] /\ Dies(r)

-----------------------------------------------------------------------------
BugFinishKeepsStop(status) ==
  /\ UNCHANGED stopRunning
  /\ onScanDone' = 0
  /\ reported' = IF onScanDone = 0 THEN reported
                 ELSE [reported EXCEPT ![onScanDone] = IF status = "failed" THEN "failed" ELSE "ok"]

(* finish(): stopRunning and onDone are cleared, and onDone is called.     *)
Finish(status) ==
  /\ stopRunning' = 0
  /\ onScanDone' = 0
  /\ reported' = IF onScanDone = 0 THEN reported
                 ELSE [reported EXCEPT ![onScanDone] = IF status = "failed" THEN "failed" ELSE "ok"]

(* end() up to its await: the run has ended, its temp files are removed.   *)
End(r, status, how) ==
  /\ ending' = [ending EXCEPT ![r] = status]
  /\ outcome' = [outcome EXCEPT ![r] = how]

(* The scan after its status is set and the lock is free.                  *)
Released(r) == [scan EXCEPT !.status = IF ending[r] = "failed" THEN "failed" ELSE "idle"]

(* The timeout timer: SIGTERM, then SIGKILL.                               *)
BugTimeoutDoesNotKill(r) ==
  /\ EventTurn
  /\ "timer" \in flags[r]
  /\ flags' = [flags EXCEPT ![r] = (@ \ {"timer"}) \cup {"timedOut"}]
  /\ UNCHANGED <<childUnchanged, childVars, tempVars>>
Timeout(r) ==
  /\ EventTurn
  /\ "timer" \in flags[r]
  /\ flags' = [flags EXCEPT ![r] = (@ \ {"timer"}) \cup {"timedOut", "killed"}]
  /\ UNCHANGED <<childUnchanged, childVars, tempVars>>

(* child 'error': the binary could not be launched.                        *)
SpawnError(r) ==
  /\ EventTurn
  /\ child[r] = "scanning" /\ "killed" \notin flags[r]
  /\ child' = [child EXCEPT ![r] = "dead"]
  /\ flags' = [flags EXCEPT ![r] = (@ \ {"timer"}) \cup {"ended"}]
  /\ End(r, "failed", "failed")
  /\ UNCHANGED <<moduleVars, completion, closing, whenStopped, output, mapVars, tempVars,
                 archiveVars, taskVars, request, reported>>

(* stdout 'end': save the graph, unless the run is over, timed out or      *)
(* stopped, or printed nothing.  Half a document fails to parse.           *)
Printed(r) == output[r] # "none" /\ flags[r] \cap {"ended", "timedOut", "stopped"} = {}

StdoutEnd(r) ==
  /\ EventTurn
  /\ child[r] \in {"fetching", "dead"} /\ "eof" \notin flags[r]
  /\ \/ /\ ~Printed(r)
        /\ flags' = [flags EXCEPT ![r] = @ \cup {"eof"}]
        /\ UNCHANGED <<completion, ending, outcome>>
     \/ /\ Printed(r) /\ output[r] = "broken"
        /\ flags' = [flags EXCEPT ![r] = @ \cup {"eof", "ended"}]
        /\ completion' = [completion EXCEPT ![r] = "ending"]
        /\ End(r, "failed", "failed")
     \/ /\ Printed(r) /\ output[r] # "broken"
        /\ flags' = [flags EXCEPT ![r] = @ \cup {"eof"}]
        /\ completion' = [completion EXCEPT ![r] = "read"]
        /\ UNCHANGED <<ending, outcome>>
  /\ UNCHANGED <<moduleVars, closing, whenStopped, childVars, mapVars, tempVars, archiveVars,
                 taskVars, request, reported>>

-----------------------------------------------------------------------------
(* complete(), from one await to the next: it goes on, or ends the scan.   *)
GoOn(r, next) ==
  /\ completion' = [completion EXCEPT ![r] = next]
  /\ UNCHANGED <<flags, ending, outcome>>

GiveUp(r, status, how) ==
  /\ completion' = [completion EXCEPT ![r] = "ending"]
  /\ flags' = [flags EXCEPT ![r] = @ \cup {"ended"}]
  /\ End(r, status, how)

completeUnchanged == <<moduleVars, closing, whenStopped, childVars, taskVars, request, reported>>

MapHasDevices == IF graph = 0 THEN OldMap = "devices" ELSE output[graph] = "devices"

(* shouldReplaceGraph: not when the crawl polled no device while the       *)
(* current map has devices, unless forced.                                 *)
ShouldReplace(r) == "replaceEmpty" \in flags[r] \/ output[r] # "empty" \/ ~MapHasDevices

CompleteRead(r) ==
  /\ EventTurn
  /\ completion[r] = "read"
  /\ IF ShouldReplace(r) THEN GoOn(r, "write") ELSE GiveUp(r, "failed", "failed")
  /\ UNCHANGED <<completeUnchanged, mapVars, tempVars, archiveVars>>

(* writeFileAtomic(graphPath): all of it, or an error and none of it.      *)
BugWriteInPlace(r) ==
  /\ EventTurn
  /\ completion[r] = "write"
  /\ graph' = r
  /\ GoOn(r, "renameVulns") \/ GiveUp(r, "failed", "failed")
  /\ UNCHANGED <<completeUnchanged, vulns, paths, tempVars, archiveVars>>
CompleteWrite(r) ==
  /\ EventTurn
  /\ completion[r] = "write"
  /\ \/ graph' = r /\ GoOn(r, "renameVulns")
     \/ UNCHANGED graph /\ GiveUp(r, "failed", "failed")
  /\ UNCHANGED <<completeUnchanged, vulns, paths, tempVars, archiveVars>>

(* The renames; after an error the scan still counts as completed.         *)
BugRenameErrorIgnored(r) ==
  /\ EventTurn
  /\ completion[r] = "renameVulns"
  /\ \/ vulnsTmp # 0 /\ vulns' = vulnsTmp /\ vulnsTmp' = 0
     \/ UNCHANGED <<vulns, vulnsTmp>>
  /\ GoOn(r, "renamePaths")
  /\ UNCHANGED <<completeUnchanged, graph, paths, pathsTmp, archiveVars>>
CompleteRenameVulns(r) ==
  /\ EventTurn
  /\ completion[r] = "renameVulns"
  /\ \/ /\ vulnsTmp # 0
        /\ vulns' = vulnsTmp /\ vulnsTmp' = 0
        /\ GoOn(r, "renamePaths")
     \/ /\ UNCHANGED <<vulns, vulnsTmp>>
        /\ GiveUp(r, "idle", "partial")
  /\ UNCHANGED <<completeUnchanged, graph, paths, pathsTmp, archiveVars>>

CompleteRenamePaths(r) ==
  /\ EventTurn
  /\ completion[r] = "renamePaths"
  /\ \/ /\ pathsTmp # 0
        /\ paths' = pathsTmp /\ pathsTmp' = 0
        /\ GoOn(r, "copyGraph")
     \/ /\ pathsTmp = 0   \* ENOENT: the attack-path stage was skipped
        /\ UNCHANGED <<paths, pathsTmp>>
        /\ GoOn(r, "copyGraph")
     \/ /\ UNCHANGED <<paths, pathsTmp>>
        /\ GiveUp(r, "idle", "partial")
  /\ UNCHANGED <<completeUnchanged, graph, vulns, vulnsTmp, archiveVars>>

(* archiveScan copies the three files one after another.                   *)
GraphCopied == [copy EXCEPT !.graph = graph]
VulnsCopied == [copy EXCEPT !.vulns = vulns]
Entry == [copy EXCEPT !.paths = paths]

CompleteCopyGraph(r) ==
  /\ EventTurn
  /\ completion[r] = "copyGraph"
  /\ copy' = GraphCopied
  /\ GoOn(r, "copyVulns")
  /\ UNCHANGED <<completeUnchanged, mapVars, tempVars, archive>>

CompleteCopyVulns(r) ==
  /\ EventTurn
  /\ completion[r] = "copyVulns"
  /\ copy' = VulnsCopied
  /\ GoOn(r, "copyPaths")
  /\ UNCHANGED <<completeUnchanged, mapVars, tempVars, archive>>

(* The scan once saved: the lock is free, and unless the scanner has exited *)
(* it is refining.                                                         *)
Saved(r) == [scan EXCEPT !.status = "idle", !.refining = "exited" \notin flags[r]]

(* The last copy and the index entry, or a failed archive (only a          *)
(* warning); then saved, refining and finish('idle') without a break.      *)
CompleteArchive(r) ==
  /\ EventTurn
  /\ completion[r] = "copyPaths"
  /\ archive' \in {archive, archive \cup {Entry}}
  /\ copy' = NoCopy
  /\ completion' = [completion EXCEPT ![r] = "done"]
  /\ flags' = [flags EXCEPT ![r] = @ \cup {"saved", "ended"}]
  /\ refiner' = IF "exited" \in flags[r] THEN refiner ELSE r
  /\ scan' = Saved(r)
  /\ outcome' = [outcome EXCEPT ![r] = "completed"]
  /\ Finish("idle")
  /\ UNCHANGED <<ending, closing, whenStopped, childVars, mapVars, tempVars, taskVars, request>>

-----------------------------------------------------------------------------
(* Nothing refers to a closure whose child is closed and handled; only the *)
(* graph file keeps what the run printed.                                  *)
Forget(r) ==
  /\ flags' = [flags EXCEPT ![r] = {}]
  /\ whenStopped' = [whenStopped EXCEPT ![r] = NoRequest]
  /\ output' = [output EXCEPT ![r] = IF graph = r THEN @ ELSE "none"]

(* child 'close': the process is gone and its pipes are closed.  It waits  *)
(* for a completion under way, has nothing to add to a spawn error, and    *)
(* otherwise ends the scan as stopped or failed.                           *)
Close(r) ==
  /\ EventTurn
  /\ child[r] = "dead" /\ "eof" \in flags[r]
  /\ child' = [child EXCEPT ![r] = "closed"]
  /\ \/ /\ completion[r] # "none"
        /\ closing' = [closing EXCEPT ![r] = "awaiting"]
        /\ flags' = [flags EXCEPT ![r] = (@ \ {"timer"}) \cup {"exited"}]
        /\ UNCHANGED <<ending, outcome, whenStopped, output>>
     \/ /\ completion[r] = "none" /\ "ended" \in flags[r]
        /\ closing' = [closing EXCEPT ![r] = "handled"]
        /\ IF ending[r] = "none" THEN Forget(r)
           ELSE UNCHANGED <<flags, whenStopped, output>>
        /\ UNCHANGED <<ending, outcome>>
     \/ /\ completion[r] = "none" /\ "ended" \notin flags[r]
        /\ closing' = [closing EXCEPT ![r] = "handled"]
        /\ flags' = [flags EXCEPT ![r] = (@ \ {"timer"}) \cup {"exited", "ended"}]
        /\ LET how == IF "stopped" \in flags[r] THEN "stopped" ELSE "failed"
           IN  End(r, how, how)
        /\ UNCHANGED <<whenStopped, output>>
  /\ UNCHANGED <<moduleVars, completion, mapVars, tempVars, archiveVars, taskVars, request,
                 reported>>

DiscardTemps == vulnsTmp' = 0 /\ pathsTmp' = 0

BugRefiningStays == scan
RefiningOver == [scan EXCEPT !.refining = FALSE]

(* The temp files are gone: end() goes on to finish(), the stop path to    *)
(* its own release, which tells onDone nothing and resolves the stop.      *)
Discarded(r) ==
  /\ EventTurn
  /\ ending[r] # "none"
  /\ DiscardTemps
  /\ scan' = Released(r)
  /\ ending' = [ending EXCEPT ![r] = "none"]
  /\ completion' = [completion EXCEPT ![r] = IF @ = "ending" THEN "done" ELSE @]
  /\ \/ /\ ending[r] = "stopped"
        /\ stopRunning' = 0 /\ onScanDone' = 0
        /\ request' = Resolved(r)
        /\ UNCHANGED reported
     \/ /\ ending[r] \in {"idle", "failed"}
        /\ Finish(ending[r])
        /\ UNCHANGED request
  /\ IF closing[r] = "handled" THEN Forget(r) ELSE UNCHANGED <<flags, whenStopped, output>>
  /\ UNCHANGED <<refiner, closing, child, mapVars, archiveVars, taskVars, outcome>>

(* The 'close' handler after completion: a stop that came too late is      *)
(* resolved, then refined() rescores if CVE records arrived late, unless   *)
(* the lock is taken; without a rescore refining is over.                  *)
Refined(r) ==
  /\ closing[r] = "awaiting" /\ completion[r] = "done"
  /\ closing' = [closing EXCEPT ![r] = "handled"]
  /\ request' = IF "stopped" \in flags[r] THEN Resolved(r) ELSE request
  /\ refiner' = IF refiner = r THEN 0 ELSE refiner
  /\ IF {"saved", "late"} \subseteq flags[r] /\ Unlocked
     THEN /\ exclusiveTask' = TRUE
          /\ task' = TaskOf("rescore", r, "read")
          /\ UNCHANGED scan
     ELSE /\ scan' = RefiningOver
          /\ UNCHANGED taskVars
  /\ Forget(r)
  /\ UNCHANGED <<stopRunning, onScanDone, completion, ending, child, mapVars, tempVars,
                 archiveVars, ghostVars>>

-----------------------------------------------------------------------------
(* runExclusive tasks: the liveness recompute (attack paths only) and the  *)
(* rescore after a target change; both read the saved files first.         *)
BeginTask ==
  /\ EventTurn
  /\ Unlocked
  /\ exclusiveTask' = TRUE
  /\ \E kind \in TaskKinds : task' = TaskOf(kind, 0, "read")
  /\ UNCHANGED <<moduleVars, closureVars, childVars, mapVars, tempVars, archiveVars, request,
                 ghostVars>>

taskUnchanged == <<moduleVars, closureVars, childVars, tempVars, archiveVars, exclusiveTask,
                   request, ghostVars>>

FilesRead == [task EXCEPT !.graph = graph, !.vulns = vulns,
                          !.step = IF task.kind = "rescore" THEN "vulns" ELSE "paths"]
TaskAt(step) == [task EXCEPT !.step = step]

TaskRead ==
  /\ task.step = "read"
  /\ task' = FilesRead
  /\ UNCHANGED <<taskUnchanged, mapVars>>

TaskWriteVulns ==
  /\ task.step = "vulns"
  /\ vulns' = task.vulns
  /\ task' = TaskAt("paths")
  /\ UNCHANGED <<taskUnchanged, graph, paths>>

TaskWritePaths ==
  /\ task.step = "paths"
  /\ paths' = task.graph
  /\ task' = TaskAt(IF task.kind = "rescore" THEN "graph" ELSE "none")
  /\ UNCHANGED <<taskUnchanged, graph, vulns>>

TaskWriteGraph ==
  /\ task.step = "graph"
  /\ graph' = task.graph
  /\ task' = TaskAt("none")
  /\ UNCHANGED <<taskUnchanged, vulns, paths>>

(* The task's promise settles: its process ended, or failed at any step.   *)
(* A late rescore also ends refining, whichever scan that now describes.   *)
TaskEnd ==
  /\ EventTurn
  /\ exclusiveTask
  /\ exclusiveTask' = FALSE
  /\ task' = NoTask
  /\ scan' = IF task.owner = 0 THEN scan ELSE RefiningOver
  /\ UNCHANGED <<refiner, stopRunning, onScanDone, closureVars, childVars, mapVars, tempVars,
                 archiveVars, request, ghostVars>>

-----------------------------------------------------------------------------
TaskNext == TaskRead \/ TaskWriteVulns \/ TaskWritePaths \/ TaskWriteGraph \/ TaskEnd

ChildNext(r) ==
  ChildWrites(r) \/ ChildEmits(r) \/ ChildExits(r) \/ ChildFails(r) \/ ChildKilled(r)

CompleteNext(r) ==
  \/ CompleteRead(r) \/ CompleteWrite(r) \/ CompleteRenameVulns(r) \/ CompleteRenamePaths(r)
  \/ CompleteCopyGraph(r) \/ CompleteCopyVulns(r) \/ CompleteArchive(r)

(* The handlers the event loop runs once their event has happened.         *)
HandlerNext(r) == StdoutEnd(r) \/ CompleteNext(r) \/ Close(r) \/ Discarded(r)

RunNext(r) == ChildNext(r) \/ Timeout(r) \/ SpawnError(r) \/ HandlerNext(r)

ContinuationNext ==
  \/ \E r \in Runs : Refined(r)
  \/ \E q \in Requests : Resume(q)

Next ==
  \/ ContinuationNext
  \/ BackgroundStart
  \/ BeginTask
  \/ TaskNext
  \/ \E q \in Requests : Post(q) \/ PostPreempt(q)
  \/ \E r \in Runs : RunNext(r)

Spec == Init /\ [][Next]_vars

(* The event loop runs every handler whose event happened, file operations *)
(* settle, timers fire, a killed process dies, and a file-only task ends.  *)
(* Nothing is assumed of the scanner itself: it may hang for ever.         *)
Fairness ==
  /\ WF_vars(ContinuationNext)
  /\ \A r \in Runs : WF_vars(HandlerNext(r)) /\ WF_vars(Timeout(r)) /\ WF_vars(ChildKilled(r))
  /\ WF_vars(TaskNext)

FairSpec == Spec /\ Fairness
=============================================================================
