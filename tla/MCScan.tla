------------------------------ MODULE MCScan ------------------------------
(* Model values for TLC's runs of the scan service.                        *)
EXTENDS ScanProperties, TLC
CONSTANT q1, q2

OneRequest == {q1}
=============================================================================
