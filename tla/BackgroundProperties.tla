------------------------ MODULE BackgroundProperties ------------------------
(* What the plugin's background work promises.                             *)
EXTENDS Background

Docs == [graph : Graphs, inactive : SUBSET Hosts, reasons : SUBSET Reasons]
Keys == [graph : Graphs, inactive : SUBSET Hosts]
Passes == [step : {"none", "started", "read", "saved"}, graph : 0 .. MaxSaves]
Tasks == [kind : {"none", "recompute", "update"}, step : {"none", "read", "write", "written"},
          inactive : SUBSET Hosts]

TypeOK ==
  /\ holder \in {"nobody", "scan", "task"} /\ status \in {"idle", "running", "failed"}
  /\ trigger \in {"manual", "automatic", "scheduled"}
  /\ saved \in BOOLEAN /\ preempted \in BOOLEAN /\ age \in 0 .. Longest
  /\ routes \in Keys /\ liveness \in Docs /\ pass \in Passes
  /\ pending \in (SUBSET Reasons) \cup {None} /\ settled \subseteq Reasons /\ failures \in Nat
  /\ done \in Keys \cup {None} /\ running \in Keys \cup {None}
  /\ task \in Tasks
  /\ scanned \subseteq Reasons /\ served \subseteq scanned

-----------------------------------------------------------------------------
(* autoRescan.ts:6-8, 47-61: no reason is settled, and so left without a   *)
(* scan, unless one completed since the automatic scan it asked for began; *)
(* neither a failed scan nor one stopped for another settles anything.     *)
SettledAfterAScan == settled \subseteq scanned

(* attackpaths.py:536-545: hosts are left out of the routes only by a pass *)
(* over the graph the routes are of, however scans, passes and recomputes  *)
(* overlap.                                                                *)
RoutesLeaveOutTheirOwn ==
  routes.inactive # {} /\ routes.graph = 0 => liveness.graph = 0

(* What the two need to be inductive.  The lock is held by what runs;      *)
(* what a recompute is for is named by a graph a pass can still be made    *)
(* for; a pass never reads a newer graph than liveness.json is of; hosts   *)
(* a task has read are of the current graph until it ends; and once the    *)
(* scan shown is idle, what the automatic one asked for was scanned.       *)
LockInv ==
  /\ holder = "task" <=> task.step # "none"
  /\ holder = "scan" <=> status = "running"

Known == [graph : 0 .. MaxSaves, inactive : SUBSET Hosts]
KeysInv ==
  /\ done \in Known \cup {None}
  /\ task.kind = "recompute" => running \in Known

PassInv ==
  /\ pass.step = "read" => pass.graph <= liveness.graph
  /\ pass.step = "saved" => pass.graph = liveness.graph

TaskInv == task.step = "write" /\ task.inactive # {} => liveness.graph = 0

PendingInv == pending # None /\ status = "idle" /\ ~preempted => pending \subseteq scanned

BackgroundInv ==
  /\ TypeOK /\ LockInv /\ KeysInv /\ PassInv /\ TaskInv /\ PendingInv
  /\ SettledAfterAScan /\ RoutesLeaveOutTheirOwn

-----------------------------------------------------------------------------
AutoScan == status = "running" /\ trigger = "automatic"

(* autoRescan.ts:6-10: it does not loop.  Once the passes give the same    *)
(* reasons for ever and scans do not fail, automatic scans end, whatever   *)
(* scans by hand or on schedule go on.                                     *)
NoEndlessRescans ==
  \A R \in (SUBSET Reasons) \ {{}} :
    <>[](liveness.reasons = R /\ status # "failed") => <>[]~AutoScan

(* What of this needs no fairness: an automatic scan asks for all reasons  *)
(* listed; until one fails, none of them starts another while they stay.   *)
Cleared == settled \cup Asked
AsksOnce ==
  [][/\ OnPassRescans => liveness'.reasons \subseteq Cleared'
     /\ liveness.reasons \subseteq Cleared /\ status # "failed" =>
          /\ ~OnPassRescans
          /\ liveness'.reasons = liveness.reasons => liveness.reasons \subseteq Cleared']_vars

(* autoRescan.ts:1-4: a listed reason that no scan was made for yet is     *)
(* followed by a scan, or goes, unless updates take the lock for ever.     *)
ReasonIsFollowed ==
  []<>(task.kind = "update") \/
  \A r \in Reasons : (r \in liveness.reasons \ scanned) ~>
                     (status = "running" \/ r \notin liveness.reasons)

RoutesRight(S) == routes = Key(0, S)
LivenessIs(S) == liveness.graph = 0 /\ liveness.inactive = S

(* livenessRecompute.ts:1-6: once scans have stopped and the passes mark   *)
(* the same hosts for ever, the routes leave out these hosts; with nobody  *)
(* else writing the routes and no recompute that lasts into the next pass. *)
Quick == [](task.kind = "recompute" => pass.step # "read")
RoutesFollow ==
  \A S \in SUBSET Hosts : <>[](status # "running" /\ LivenessIs(S)) => <>[]RoutesRight(S)

RoutesFollowUndisturbed == Quick /\ [](task.kind # "update") => RoutesFollow

-----------------------------------------------------------------------------
(* Claims of the source that the code does not keep.                       *)

(* livenessRecompute.ts:3-4: "the routes are recomputed with --liveness    *)
(* when the set of hosts it marks inactive has changed": also when updates *)
(* of targets come between.                                                *)
RoutesFollowLiveness == Quick /\ ~[]<>(task.kind = "update") => RoutesFollow

(* autoRescan.ts:6-8: "a reason a completed automatic scan did not clear   *)
(* is settled, and only a new reason starts another scan".                 *)
OnlyNewReasonsRescan ==
  [][OnPassRescans => ~(liveness.reasons \subseteq served)]_vars
=============================================================================
