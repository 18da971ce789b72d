------------------------------ MODULE ScanLock ------------------------------
(***************************************************************************)
(* What the plugin's lock promises (plugin/server/scan.ts): the result     *)
(* files have one writer at a time, a scan or a file-only task; a scan is  *)
(* running from its start until its end, and nothing else is.  Scan        *)
(* implements this; Background builds on it.                               *)
(***************************************************************************)
CONSTANT Triggers       \* who may start a scan

VARIABLES holder,       \* who may write: "nobody", "scan" or "task"
          status,       \* of the scan shown: "idle", "running" or "failed"
          trigger,      \* who started it
          files         \* what the lock protects

lockVars == <<holder, status, trigger>>
vars == <<lockVars, files>>

Init == holder = "nobody" /\ status = "idle" /\ trigger \in Triggers

Free == holder = "nobody"

StartScan(who) ==
  /\ Free
  /\ holder' = "scan" /\ status' = "running" /\ trigger' = who
  /\ UNCHANGED files

EndScan(how) ==
  /\ holder = "scan"
  /\ holder' = "nobody" /\ status' = how
  /\ UNCHANGED <<trigger, files>>

BeginTask == Free /\ holder' = "task" /\ UNCHANGED <<status, trigger, files>>

EndTask == holder = "task" /\ holder' = "nobody" /\ UNCHANGED <<status, trigger, files>>

(* The holder writes, whatever it writes.                                  *)
Write == ~Free /\ UNCHANGED lockVars

Next ==
  \/ \E who \in Triggers : StartScan(who)
  \/ \E how \in {"idle", "failed"} : EndScan(how)
  \/ BeginTask \/ EndTask \/ Write

Spec == Init /\ [][Next]_vars
=============================================================================
