----------------------------- MODULE Background -----------------------------
(***************************************************************************)
(* What the plugin does on its own (plugin/server/liveness.ts,             *)
(* autoRescan.ts, livenessRecompute.ts): a timer runs liveness passes over *)
(* the current graph; after each, a reason the pass gives may start a      *)
(* scan, and a change of the inactive hosts recomputes the attack paths.   *)
(* Both go through the lock that manual and scheduled scans and the        *)
(* updates of targets take (ScanLock).                                     *)
(*                                                                         *)
(* Time counts in liveness intervals.  A graph, which the code names by    *)
(* its scan_time, is named by how many graphs were saved since: 0 is       *)
(* graph.json as it is now.                                                *)
(***************************************************************************)
EXTENDS Integers, FiniteSets

CONSTANTS Hosts,         \* the endpoints a pass may mark inactive
          Reasons,       \* the reasons for a rescan it may give
          MaxSaves,      \* bound: how many graphs are saved during one pass
          MinInterval,   \* minRescanIntervalSeconds
          MaxBackoff,    \* MAX_BACKOFF_SECONDS
          Others,        \* who else takes the lock: scans by hand or on schedule, updates
          None

ASSUME BackgroundConstants ==
  /\ MaxSaves \in Nat
  /\ MinInterval \in Nat \ {0} /\ MaxBackoff \in Nat
  /\ Others \subseteq {"manual", "scheduled", "update"}
  /\ IsFiniteSet(Hosts) /\ IsFiniteSet(Reasons)
  /\ \A R \in SUBSET Reasons : R # None

(* MaxSaves + 1 stands for every graph older than any pass is made for.    *)
Graphs == 0 .. MaxSaves + 1
Older(g) == IF g <= MaxSaves THEN g + 1 ELSE g

VARIABLES
  holder, status, trigger,   \* the lock and the scan shown
  saved,        \* the running scan has replaced graph.json
  preempted,    \* a stopped scan's request goes on to start its own
  routes,       \* attack_paths.json: its graph, and the hosts left out of it
  liveness,     \* liveness.json
  pass,         \* the pass that runs, and the graph it read
  age,          \* since the start of the last scan, in intervals
  pending, settled, failures,   \* autoRescan's variables
  done, running,                \* livenessRecompute's variables
  task,         \* the file-only task that holds the lock
  scanned,      \* history: the listed reasons for which, since the automatic scan they
                \* asked for began, a scan completed
  served        \* history: those for which that scan itself did

lock == INSTANCE ScanLock WITH files <- routes,
                               Triggers <- {"manual", "automatic", "scheduled"}

lockVars == <<holder, status, trigger>>
fileVars == <<routes, liveness>>
rescanVars == <<pending, settled, failures>>
recomputeVars == <<done, running>>
scanVars == <<saved, preempted, age>>
history == <<scanned, served>>
vars == <<holder, status, trigger, scanVars, fileVars, pass, rescanVars, recomputeVars, task,
          history>>

Key(of, inactive) == [graph |-> of, inactive |-> inactive]
Doc(of, inactive, reasons) == [graph |-> of, inactive |-> inactive, reasons |-> reasons]
NoDoc == Doc(MaxSaves + 1, {}, {})
PassAt(step, of) == [step |-> step, graph |-> of]
NoPass == PassAt("none", 0)
TaskAt(kind, step, inactive) == [kind |-> kind, step |-> step, inactive |-> inactive]
NoTask == TaskAt("none", "none", {})

Longest == IF MaxBackoff > MinInterval THEN MaxBackoff ELSE MinInterval

Init ==
  /\ lock!Init /\ trigger = "manual"
  /\ saved = FALSE /\ preempted = FALSE /\ age = Longest
  /\ routes = Key(0, {}) /\ liveness = NoDoc
  /\ pass = NoPass
  /\ pending = None /\ settled = {} /\ failures = 0
  /\ done = None /\ running = None
  /\ task = NoTask
  /\ scanned = {} /\ served = {}

-----------------------------------------------------------------------------
(* The timer: a tick begins a pass unless one runs or a scan does.         *)
Tick ==
  /\ age' = IF age < Longest THEN age + 1 ELSE age
  /\ pass' = IF pass.step = "none" /\ status # "running" THEN PassAt("started", 0) ELSE pass
  /\ UNCHANGED <<lockVars, saved, preempted, fileVars, rescanVars, recomputeVars, task, history>>

passUnchanged == <<lockVars, scanVars, routes, rescanVars, recomputeVars, task, history>>

(* The child reads the graph and the last state.                           *)
PassReads ==
  /\ pass.step = "started"
  /\ pass' = PassAt("read", 0)
  /\ UNCHANGED <<passUnchanged, liveness>>

(* The monitor: a reason stands until a new scan replaces the graph.       *)
Carried(of) == IF liveness.graph = of THEN liveness.reasons ELSE {}

(* It prints the new state, and liveness.json is replaced.                 *)
PassSaves ==
  /\ pass.step = "read"
  /\ \E inactive \in SUBSET Hosts, new \in SUBSET Reasons :
       liveness' = Doc(pass.graph, inactive, Carried(pass.graph) \cup new)
  /\ pass' = PassAt("saved", pass.graph)
  /\ UNCHANGED passUnchanged

(* It fails, outlives its interval and is killed, or cannot be saved.      *)
PassFails ==
  /\ pass.step \in {"started", "read"}
  /\ pass' = NoPass
  /\ UNCHANGED <<passUnchanged, liveness>>

-----------------------------------------------------------------------------
(* autoRescan, the hook of a pass: the outcome of the automatic scan       *)
(* pending is taken from the scan shown now.  (The definitions named       *)
(* Bug... are wrong variants, in no behaviour: each shows that a property  *)
(* notices the mistake it makes.)                                          *)
Interval(fails) == IF MinInterval * 2 ^ fails < Longest THEN MinInterval * 2 ^ fails ELSE Longest

(* Once the interval has its greatest length, further failures are not     *)
(* counted: they change nothing.                                           *)
OneMore(fails) == IF Interval(fails) = Longest THEN fails ELSE fails + 1

FailuresSeen ==
  CASE pending = None -> failures
    [] pending # None /\ status = "failed" -> OneMore(failures)
    [] OTHER -> 0

BugFailureSettles(reasons) ==
  (settled \cup (IF pending # None THEN pending ELSE {})) \cap reasons
BugNothingSettles(reasons) == settled \cap reasons
SettledNow(reasons) ==
  (settled \cup (IF pending # None /\ status # "failed" THEN pending ELSE {})) \cap reasons

Fresh(reasons) == reasons \ SettledNow(reasons)

Asks(reasons) ==
  /\ status # "running"
  /\ Fresh(reasons) # {}
  /\ age >= Interval(FailuresSeen)

RescanSeen(reasons) ==
  IF status = "running" THEN UNCHANGED <<settled, failures>>
  ELSE failures' = FailuresSeen /\ settled' = SettledNow(reasons)

(* The history of a pass autoRescan looks at: a reason gone is new when it *)
(* comes back.                                                             *)
StillListed(reasons) ==
  IF status = "running" THEN UNCHANGED <<scanned, served>>
  ELSE scanned' = scanned \cap reasons /\ served' = served \cap reasons

(* The hooks after a pass is saved: the rescan first, which makes the      *)
(* recompute be refused; else the recompute, unless it was done or runs    *)
(* for the same hosts, or the lock is taken.                               *)
OnPassRescans ==
  /\ pass.step = "saved"
  /\ Asks(liveness.reasons)
  /\ lock!StartScan("automatic")
  /\ pending' = liveness.reasons
  /\ RescanSeen(liveness.reasons)
  /\ pass' = NoPass
  /\ age' = 0
  /\ StillListed(liveness.reasons)
  /\ UNCHANGED <<saved, preempted, liveness, recomputeVars, task>>

NotRescanned ==
  /\ pass.step = "saved"
  /\ ~(Asks(liveness.reasons) /\ lock!Free)
  /\ pending' = IF status = "running" THEN pending ELSE None
  /\ RescanSeen(liveness.reasons)
  /\ StillListed(liveness.reasons)
  /\ pass' = NoPass
  /\ UNCHANGED <<scanVars, liveness, done>>

KeyOf(doc) == Key(doc.graph, doc.inactive)
Same(doc) == KeyOf(doc) \in {done, running}

OnPassRecomputes ==
  /\ NotRescanned
  /\ ~Same(liveness)
  /\ lock!BeginTask
  /\ running' = KeyOf(liveness)
  /\ task' = TaskAt("recompute", "read", {})

OnPassDoesNothing ==
  /\ NotRescanned
  /\ Same(liveness) \/ ~lock!Free
  /\ UNCHANGED <<lockVars, routes, running, task>>

-----------------------------------------------------------------------------
(* Scans.                                                                  *)
Started(who) ==
  /\ lock!StartScan(who)
  /\ age' = 0
  /\ UNCHANGED <<saved, liveness, pass, rescanVars, recomputeVars, task, history>>

(* A scan by hand, or by the schedule.                                     *)
OtherScan ==
  /\ \E who \in Others \ {"update"} : Started(who)
  /\ UNCHANGED preempted

(* What was done for a graph no pass can still be made for is forgotten.   *)
StillKnown(k) == IF k = None \/ k.graph = MaxSaves THEN None ELSE Key(k.graph + 1, k.inactive)

(* A scan writes the graph, and the routes unless that stage is skipped;   *)
(* these leave no host out, since liveness.json describes the graph        *)
(* before.  What the routes of an older graph leave out matters no more.   *)
ScanSaves ==
  /\ holder = "scan" /\ ~saved
  /\ pass.step \in {"none", "started"} \/ pass.graph < MaxSaves
  /\ saved' = TRUE
  /\ routes' \in {Key(1, {}), Key(0, {})}
  /\ liveness' = [liveness EXCEPT !.graph = Older(@)]
  /\ pass' = IF pass.step \in {"none", "started"} THEN pass ELSE PassAt(pass.step, Older(pass.graph))
  /\ done' = StillKnown(done)
  /\ UNCHANGED <<lockVars, preempted, age, rescanVars, running, task, history>>

scanEndUnchanged == <<age, liveness, pass, rescanVars, recomputeVars, task>>

Asked == IF pending = None THEN {} ELSE pending

ScanCompletes ==
  /\ saved
  /\ lock!EndScan("idle")
  /\ saved' = FALSE
  /\ scanned' = scanned \cup Asked
  /\ served' = IF trigger = "automatic" THEN served \cup Asked ELSE served
  /\ UNCHANGED <<scanEndUnchanged, preempted>>

ScanFails ==
  /\ ~saved
  /\ lock!EndScan("failed")
  /\ UNCHANGED <<scanEndUnchanged, saved, preempted, history>>

(* A scan by hand stops one in the background and starts as soon as that   *)
(* has ended.                                                              *)
ScanIsStopped ==
  /\ "manual" \in Others /\ ~saved /\ trigger # "manual"
  /\ lock!EndScan("idle")
  /\ preempted' = TRUE
  /\ UNCHANGED <<scanEndUnchanged, saved, history>>

Resume ==
  /\ preempted
  /\ Started("manual")
  /\ preempted' = FALSE

-----------------------------------------------------------------------------
(* The file-only tasks: the recompute, and the update of a target or of    *)
(* late CVE records, which makes the routes too.  The hosts of a pass are  *)
(* left out only if it was made for this graph.                            *)
UpdateBegins ==
  /\ "update" \in Others
  /\ lock!BeginTask
  /\ task' = TaskAt("update", "read", {})
  /\ UNCHANGED <<scanVars, liveness, pass, rescanVars, recomputeVars, history>>

BugAnyGraph == liveness.inactive
InactiveHosts == IF liveness.graph = 0 THEN liveness.inactive ELSE {}

taskUnchanged == <<scanVars, liveness, pass, rescanVars, history>>

TaskReads ==
  /\ task.step = "read"
  /\ task' = TaskAt(task.kind, "write", InactiveHosts)
  /\ UNCHANGED <<lockVars, routes, taskUnchanged, recomputeVars>>

TaskWrites ==
  /\ task.step = "write"
  /\ routes' = Key(0, task.inactive)
  /\ task' = TaskAt(task.kind, "written", {})
  /\ UNCHANGED <<lockVars, taskUnchanged, recomputeVars>>

DoneNow == IF task.kind = "recompute" THEN running ELSE done

BugStaysRunning == running
RunningAfter == None

TaskEnds ==
  /\ task.step = "written"
  /\ lock!EndTask
  /\ done' = DoneNow
  /\ running' = RunningAfter
  /\ task' = NoTask
  /\ UNCHANGED taskUnchanged

(* It fails before it has written the routes; after that nothing in it     *)
(* that matters here can.                                                  *)
TaskFails ==
  /\ task.step \in {"read", "write"}
  /\ lock!EndTask
  /\ running' = RunningAfter
  /\ task' = NoTask
  /\ UNCHANGED <<taskUnchanged, done>>

-----------------------------------------------------------------------------
PassNext == PassReads \/ PassSaves \/ PassFails

OnPass == OnPassRescans \/ OnPassRecomputes \/ OnPassDoesNothing

ScanNext == ScanSaves \/ ScanCompletes \/ ScanFails \/ ScanIsStopped

TaskNext == TaskReads \/ TaskWrites \/ TaskEnds \/ TaskFails

Next ==
  \/ Resume
  \/ ~preempted /\ (Tick \/ PassNext \/ OnPass \/ OtherScan \/ ScanNext \/ UpdateBegins \/ TaskNext)

Spec == Init /\ [][Next]_vars

(* The timer ticks, and each of its turns and steps goes on (a pass that   *)
(* hangs is killed); scans end (the timeout sees to it), tasks end.  Not   *)
(* every pass is killed or unsaved, and not every recompute fails.         *)
FairSpec ==
  /\ Spec
  /\ WF_vars(Tick) /\ WF_vars(PassNext) /\ WF_vars(OnPass) /\ WF_vars(ScanNext)
  /\ WF_vars(TaskNext) /\ WF_vars(Resume)
  /\ SF_vars(PassReads) /\ SF_vars(PassSaves)
  /\ SF_vars(TaskReads) /\ SF_vars(TaskWrites) /\ SF_vars(TaskEnds)
=============================================================================
