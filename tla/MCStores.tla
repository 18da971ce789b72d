------------------------------- MODULE MCStores -------------------------------
(* What is kept between scans, and who is asked for it: the server's schedule,   *)
(* history and recommendation states, and the scan's clients of NVD, cve.org,    *)
(* OSV, the threat feeds and Wazuh with their caches. They share no state, so    *)
(* that a behaviour of all is checked as one of each: the one in focus moves.    *)
EXTENDS Schedule, History, Tracker, Nvd, CveRecords, Caches, Wazuh, TLC

VARIABLE focus

MCEvery == [f \in {"15m"} |-> 2]
\* Two devices with the same software: the second finds what the first has left, an answer or a failure.
MCDevices == << <<"dictionary", "cves">>, <<"dictionary", "cves">> >>
MCWaits == <<1, 2>>
\* Three packages in two batches; OSV learns and withdraws ids, of which two do not name their CVE.
MCPackages == {1, 2, 3}
MCOsv == {(1 :> one) @@ (2 :> two) @@ (3 :> {"cve"}) : one \in {{}, {"usn", "cve"}}, two \in {{"usn", "dsa"}, {"cve"}}}
MCAliases == ("usn" :> {1, 2}) @@ ("dsa" :> {}) @@ ("cve" :> {3})

Stores == {"schedule", "history", "tracker", "nvd", "records", "feeds", "wazuh", "osv"}
\* A store that is not in focus stays as it starts.
Rest(s) ==
  /\ s # "schedule" => UNCHANGED scheduleVars
  /\ s # "history" => UNCHANGED historyVars
  /\ s # "tracker" => UNCHANGED trackerVars
  /\ s # "nvd" => UNCHANGED nvdVars
  /\ s # "records" => UNCHANGED recordsVars
  /\ s # "feeds" => UNCHANGED feedsVars
  /\ s # "wazuh" => UNCHANGED wazuhVars
  /\ s # "osv" => UNCHANGED osvVars

\* Of the agents the server and the next have documents, the latter any; two more may be there or come.
MCDocuments == {[a \in Agents |-> CASE a = 0 -> zero [] a = 1 -> one [] OTHER -> {}] : zero \in {{}, {1}}, one \in SUBSET Docs}
WazuhStart(f) ==
  IF f = "wazuh"
  THEN /\ registered \in {R \in SUBSET Agents : {0, 1} \subseteq R} /\ documents \in MCDocuments
       /\ packages \in {{0, 2}, {1, 3}}
  ELSE registered = {Server} /\ packages = {} /\ documents = [a \in Agents |-> {}]

\* The initial states of those that are not in focus are fixed.
MCInit ==
  /\ focus \in Stores
  /\ WazuhStart(focus) /\ WazuhStarts
  /\ ScheduleInit /\ HistoryInit /\ TrackerInit /\ NvdInit /\ RecordsInit /\ FeedsInit /\ OsvInit
  /\ focus # "records" => \A c \in Cves : kept[c] = "none"
  /\ focus # "schedule" => credential
  /\ focus # "osv" => advisories = << CHOOSE o \in OsvStates : TRUE >>

MCNext ==
  /\ UNCHANGED focus
  /\ \/ focus = "schedule" /\ ScheduleNext
     \/ focus = "history" /\ HistoryNext
     \/ focus = "tracker" /\ TrackerNext
     \/ focus = "nvd" /\ NvdNext
     \/ focus = "records" /\ RecordsNext
     \/ focus = "feeds" /\ FeedsNext
     \/ focus = "wazuh" /\ WazuhNext
     \/ focus = "osv" /\ OsvNext
  /\ Rest(focus)

MCSpec == MCInit /\ [][MCNext]_<<scheduleVars, historyVars, trackerVars, nvdVars, recordsVars, feedsVars, wazuhVars, osvVars, focus>>
=============================================================================
