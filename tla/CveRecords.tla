----------------------------- MODULE CveRecords -----------------------------
(* The CVE records of one scan (scoring/cvss_select.py): fetched from cve.org  *)
(* by a pool of threads while the scan goes on, scored with by load() from     *)
(* what has come by then, and counted by finish() when they came too late.     *)
EXTENDS Naturals, FiniteSets

CONSTANTS Cves, Workers,
          Early         \* the CVEs whose fetch starts before load() (prefetch)

ASSUME RecordsAssumption == IsFiniteSet(Cves) /\ Workers \in Nat \ {0} /\ Early \subseteq Cves

VARIABLES kept,        \* the cache when the scan starts: of each CVE "none", or what is there
          answer,      \* what this scan's fetches have put into the cache
          fetch,       \* the fetch of each CVE: "none", "queued", "cleared", "sent", "kept", or what it ended with
          stopping,    \* no answer or a rate limit: ask no more
          out,         \* what load() scores each CVE with
          used,        \* fetches whose answer it scored with
          thread,      \* where the scan's thread is: "early", "waiting", "scoring", "finishing", "ended"
          saved,       \* the answers in the file
          late,        \* what finish() returned
          sentAfter    \* history: requests sent since a failure said to stop

recordsVars == <<kept, answer, fetch, stopping, out, used, thread, saved, late, sentAfter>>

Ended == {"found", "missing", "unanswered"}
Kept == {"none", "fresh", "freshMissing", "expired", "expiredMissing"}
IsFresh(c) == kept[c] \in {"fresh", "freshMissing"}
NotScored == "?"

RecordsInit ==
  /\ kept \in [Cves -> Kept] /\ answer = [c \in Cves |-> "none"] /\ fetch = [c \in Cves |-> "none"]
  /\ stopping = FALSE /\ out = [c \in Cves |-> NotScored] /\ used = {} /\ thread = "early"
  /\ saved = answer /\ late = 0 /\ sentAfter = 0

\* prefetch: every CVE with no fresh entry that is not being fetched yet.
Prefetched(cves) == [c \in Cves |-> IF c \in cves /\ ~IsFresh(c) /\ fetch[c] = "none" THEN "queued" ELSE fetch[c]]

PrefetchesEarly == /\ thread = "early" /\ fetch' = Prefetched(Early)
                   /\ UNCHANGED <<kept, answer, stopping, out, used, thread, saved, late, sentAfter>>

LoadBegins == /\ thread = "early" /\ fetch' = Prefetched(Cves) /\ thread' = "waiting"
              /\ UNCHANGED <<kept, answer, stopping, out, used, saved, late, sentAfter>>

\* wait: until every fetch has ended, or as long as the scan waits.
WaitEnds == /\ thread = "waiting" /\ thread' = "scoring"
            /\ UNCHANGED <<kept, answer, fetch, stopping, out, used, saved, late, sentAfter>>

\* A CVE is scored with the answer of its fetch if that has ended, else with what was cached.
FromTheCache(c) == IF kept[c] \in {"fresh", "expired"} THEN "old" ELSE "nothing"

\* Only a fetch that has ended counts as used; what it brings later is late.
BugUsedNow(c) == used \cup (IF fetch[c] = "none" THEN {} ELSE {c})

UsedNow(c) == used \cup (IF fetch[c] \in Ended THEN {c} ELSE {})

Scores(c) ==
  /\ thread = "scoring" /\ out[c] = NotScored
  /\ out' = [out EXCEPT ![c] = CASE fetch[c] = "found"   -> "new"
                                 [] fetch[c] = "missing" -> "nothing"
                                 [] OTHER                -> FromTheCache(c)]
  /\ used' = UsedNow(c)
  /\ UNCHANGED <<kept, answer, fetch, stopping, thread, saved, late, sentAfter>>

LoadEnds == /\ thread = "scoring" /\ \A c \in Cves : out[c] # NotScored
            /\ thread' = "finishing" /\ saved' = answer
            /\ UNCHANGED <<kept, answer, fetch, stopping, out, used, late, sentAfter>>

\* finish: the pool ends, the cache is saved, and the answers that came too late are counted.
Finishes ==
  /\ thread = "finishing" /\ \A c \in Cves : fetch[c] \in Ended \cup {"none"}
  /\ thread' = "ended" /\ saved' = answer
  /\ late' = Cardinality({c \in Cves \ used : fetch[c] \in {"found", "missing"}})
  /\ UNCHANGED <<kept, answer, fetch, stopping, out, used, sentAfter>>

-----------------------------------------------------------------------------
(* The threads of the pool                                                    *)

Busy == {c \in Cves : fetch[c] \in {"cleared", "sent", "kept"}}

\* A worker takes a CVE and asks whether to stop; its request goes out in a later step.
Begins(c) ==
  /\ fetch[c] = "queued" /\ Cardinality(Busy) < Workers
  /\ \/ ~stopping /\ fetch' = [fetch EXCEPT ![c] = "cleared"]
     \/ fetch' = [fetch EXCEPT ![c] = "unanswered"]          \* stopping, or the budget is spent
  /\ UNCHANGED <<kept, answer, stopping, out, used, thread, saved, late, sentAfter>>

Sends(c) ==
  /\ fetch[c] = "cleared" /\ fetch' = [fetch EXCEPT ![c] = "sent"]
  /\ sentAfter' = IF stopping THEN sentAfter + 1 ELSE 0
  /\ UNCHANGED <<kept, answer, stopping, out, used, thread, saved, late>>

\* The answer goes into the cache before its fetch has ended.
Keeps(c) ==
  /\ fetch[c] = "sent" /\ fetch' = [fetch EXCEPT ![c] = "kept"]
  /\ \E state \in {"found", "missing"} : answer' = [answer EXCEPT ![c] = state]
  /\ UNCHANGED <<kept, stopping, out, used, thread, saved, late, sentAfter>>

Ends(c) == /\ fetch[c] = "kept" /\ fetch' = [fetch EXCEPT ![c] = answer[c]]
           /\ UNCHANGED <<kept, answer, stopping, out, used, thread, saved, late, sentAfter>>

\* No answer or a rate limit stops the fetching; any other failure is of this CVE only.
IsNotAnswered(c) ==
  /\ fetch[c] = "sent" /\ fetch' = [fetch EXCEPT ![c] = "unanswered"] /\ stopping' \in {stopping, TRUE}
  /\ UNCHANGED <<kept, answer, out, used, thread, saved, late, sentAfter>>

RecordsNext == \/ PrefetchesEarly \/ LoadBegins \/ WaitEnds \/ LoadEnds \/ Finishes
               \/ \E c \in Cves : \/ Scores(c) \/ Begins(c) \/ Sends(c) \/ Keeps(c) \/ Ends(c)
                                 \/ IsNotAnswered(c)

RecordsSpec == RecordsInit /\ [][RecordsNext]_recordsVars

-----------------------------------------------------------------------------
\* No failure takes a CVE's record away: one with a record in the cache, fresh or expired, is scored with it or
\* with a newer one, unless cve.org itself said that the CVE has none (load, cvss_select.py:205-227).
RecordsAreKept ==
  \A c \in Cves : kept[c] \in {"fresh", "expired"} /\ out[c] = "nothing" => answer[c] = "missing"

\* Every answer that came is in the file at the end, and was scored with or is counted as late, also when it
\* came between two steps of load() (cvss_select.py:207-216, 241-249).
NoAnswerForgotten ==
  thread = "ended" =>
    /\ saved = answer
    /\ late = Cardinality({c \in Cves : answer[c] = "found" /\ out[c] # "new"}
                          \cup {c \in Cves : answer[c] = "missing" /\ c \notin used})

\* Once cve.org has said to stop, only the requests its other threads had already begun go out (130, 143-161).
StopsAsking == sentAfter < Workers

RecordsHold == RecordsAreKept /\ NoAnswerForgotten /\ StopsAsking
=============================================================================
