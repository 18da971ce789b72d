------------------------------- MODULE Caches -------------------------------
(* The two caches a failed answer must not spoil: the threat feeds             *)
(* (scoring/feeds.py) and the CVEs of the server's packages (endpoints/osv.py). *)
EXTENDS Feeds, Osv

\* They share no state and no step waits for the other.
CachesSpec == FeedsSpec /\ OsvSpec

\* What a scan scores with is never less than an earlier scan has stored, nor half of what was asked (feeds.py:142,
\* osv.py:152-163).
CachesStayWhole == ThreatDataIsKept /\ ServerHasItsCves
=============================================================================
