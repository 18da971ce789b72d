-------------------------------- MODULE Feeds --------------------------------
(* A threat feed (scoring/feeds.py: the KEV catalogue, the EPSS scores) from    *)
(* one scan to the next: the copy on disk, one download when it is a day old,   *)
(* and what the scan scores with. A version is the number of its publication.  *)
EXTENDS Naturals

CONSTANTS Fresh,           \* how long a copy serves without a download
          MaxVersion       \* bound of the publications

ASSUME FeedsAssumption == Fresh \in Nat \ {0} /\ MaxVersion \in Nat

VARIABLES published,   \* the newest version of the feed
          copy,        \* the copy on disk: its version, or 0 for none that can be parsed
          age,         \* since it was stored
          scored,      \* what the last scan scored with: a version, or 0
          stored       \* history: the newest version stored since the copy was last lost or broken

feedsVars == <<published, copy, age, scored, stored>>

FeedsInit == published = 1 /\ copy = 0 /\ age = 0 /\ scored = 0 /\ stored = 0

\* What is on disk serves while it is fresh, and if it can be parsed.
Serves == copy > 0 /\ age < Fresh

ReadsFreshCopy == /\ Serves /\ scored' = copy
                  /\ UNCHANGED <<published, copy, age, stored>>

\* The body is parsed before it takes the place of the copy.
Downloads == /\ ~Serves
             /\ copy' = published /\ age' = 0 /\ scored' = published /\ stored' = published
             /\ UNCHANGED published

\* No answer, another status, a body that cannot be parsed: an old copy beats none.
FailsToDownload == /\ ~Serves /\ scored' = copy
                   /\ UNCHANGED <<published, copy, age, stored>>

IsPublished == /\ published < MaxVersion /\ published' = published + 1
               /\ UNCHANGED <<copy, age, scored, stored>>
TimePasses == /\ age < Fresh /\ age' = age + 1 /\ UNCHANGED <<published, copy, scored, stored>>
IsDamaged == /\ copy' = 0 /\ stored' = 0 /\ UNCHANGED <<published, age, scored>>

FeedsNext == ReadsFreshCopy \/ Downloads \/ FailsToDownload \/ IsPublished \/ TimePasses \/ IsDamaged

FeedsSpec == FeedsInit /\ [][FeedsNext]_feedsVars

-----------------------------------------------------------------------------
\* A download that fails, in whatever way, never takes threat data away or turns it back: a scan scores with the
\* newest version any scan has stored, until the copy itself is damaged (load_feed, feeds.py:119-155).
ThreatDataIsKept == stored = 0 \/ scored = stored
=============================================================================
