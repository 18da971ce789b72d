--------------------------- MODULE MCScanSafety ---------------------------
(* Two scans beside file-only tasks, or beside requests that may stop one  *)
(* for another.  What competes with the scans is chosen once, so that the  *)
(* two kinds do not multiply.                                              *)
EXTENDS MCScan
VARIABLE rivals

TwoRequests == {q1, q2}
Alike == Permutations(TwoRequests)

(* CVE records that come late start a file-only task, the late rescore.    *)
NothingLate == \A r \in Runs : "late" \notin flags'[r]

SafetyInit == Init /\ rivals \in {"tasks", "requests"}
SafetyNext ==
  /\ Next
  /\ rivals = "tasks" => UNCHANGED request
  /\ rivals = "requests" => UNCHANGED task /\ NothingLate
  /\ UNCHANGED rivals
SafetySpec == SafetyInit /\ [][SafetyNext]_<<vars, rivals>>
=============================================================================
