------------------------------ MODULE Tracker ------------------------------
(* The shared tracker of recommendations (recommendations.json beside the      *)
(* graph): each request reads, changes and writes the file under its lock      *)
(* (withFileLock in fsutil.ts, the route and applyRecommendationStatus).        *)
EXTENDS Naturals, Sequences, SequencesExt

CONSTANTS Requests, Keys, Statuses      \* requests made, items, and statuses other than "open"

ASSUME TrackerAssumption == "none" \notin Requests /\ "open" \notin Statuses

VARIABLES tracker,   \* the file: the status of each item, "open" for one it does not list
          fileLock,  \* the chain of the file: requests that hold or await it, in order
          seen,      \* what each request has read and not written back, Nothing for the others
          asked,     \* what each request asks for, or NotAsked
          reply,    \* its response
          latest,    \* history: the status each item was last told to have, by a request that was answered "ok"
          spoilt     \* history: was the file unreadable once?

trackerVars == <<tracker, fileLock, seen, asked, reply, latest, spoilt>>

NotAsked == [key |-> "none", status |-> "none"]
Nothing == [k \in {} |-> "open"]
AllOpen == [k \in Keys |-> "open"]

TrackerInit == /\ tracker = AllOpen /\ fileLock = <<>> /\ latest = AllOpen /\ spoilt = FALSE
               /\ seen = [r \in Requests |-> Nothing]
               /\ asked = [r \in Requests |-> NotAsked] /\ reply = [r \in Requests |-> "none"]

\* The route has validated the body; withFileLock puts the request at the end of the file's chain.
Posts(r, key, status) == /\ asked[r] = NotAsked
                         /\ asked' = [asked EXCEPT ![r] = [key |-> key, status |-> status]]
                         /\ fileLock' = Append(fileLock, r)
                         /\ UNCHANGED <<tracker, seen, reply, latest, spoilt>>

BugHolds(r) == r \in ToSet(fileLock)

Holds(r) == fileLock # <<>> /\ Head(fileLock) = r

\* A file that cannot be read is taken for an empty one, whatever it holds (routes/index.ts).
Reads(r) == /\ Holds(r) /\ seen[r] = Nothing
            /\ \/ seen' = [seen EXCEPT ![r] = tracker] /\ UNCHANGED spoilt
               \/ seen' = [seen EXCEPT ![r] = AllOpen] /\ spoilt' = TRUE
            /\ UNCHANGED <<tracker, fileLock, asked, reply, latest>>

\* applyRecommendationStatus: "open" takes the item out of the file, the others stay.
Applied(current, a) == [current EXCEPT ![a.key] = a.status]

\* The file is replaced whole and the request answered, or it is as before and the reply an error; the
\* next request of the chain runs in both cases.
Writes(r) ==
  /\ Holds(r) /\ seen[r] # Nothing /\ seen' = [seen EXCEPT ![r] = Nothing]
  /\ fileLock' = Tail(fileLock)
  /\ \/ /\ tracker' = Applied(seen[r], asked[r])
        /\ reply' = [reply EXCEPT ![r] = "ok"] /\ latest' = Applied(latest, asked[r])
     \/ reply' = [reply EXCEPT ![r] = "error"] /\ UNCHANGED <<tracker, latest>>
  /\ UNCHANGED <<asked, spoilt>>

TrackerNext ==
  \E r \in Requests : \/ \E k \in Keys, s \in Statuses \cup {"open"} : Posts(r, k, s)
                      \/ Reads(r) \/ Writes(r)

TrackerSpec == TrackerInit /\ [][TrackerNext]_trackerVars

-----------------------------------------------------------------------------
\* Every change that was answered "ok" is in the file until a later one of the same item replaces it: no
\* request writes back a file read before another one's change (withFileLock, fsutil.ts), as long as the file can be read.
NoStatusLost == spoilt \/ tracker = latest
=============================================================================
