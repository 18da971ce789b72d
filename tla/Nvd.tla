-------------------------------- MODULE Nvd --------------------------------
(* Device CVEs (src/backend/vulnmapper/devicecves): a scan looks the software  *)
(* of its devices up in NVD, one query after another, through a cache that is  *)
(* kept between scans. NVD's answers are the environment. Time is in units of  *)
(* the shortest wait, and every clock is kept as what it tells: how long an    *)
(* answer is fresh, a failed query rests, a scan has run.                      *)
EXTENDS Naturals, Sequences, FiniteSets

CONSTANTS Devices,     \* the queries of each device: a CPE name and its CVEs, or one keyword
          Names,       \* the queries that ask whether the CPE dictionary lists a name
          Spacing, Waits, Timeout, Grace, Budget, MaxPages,     \* of one scan's client
          RetryFailed, FreshFound, FreshEmpty,                  \* of the cache
          Gaps                                                  \* the time between two scans

Queries == UNION {{Devices[d][i] : i \in DOMAIN Devices[d]} : d \in DOMAIN Devices}

ASSUME NvdAssumption ==
  /\ Devices \in Seq(Seq(STRING)) /\ \A d \in DOMAIN Devices : Devices[d] # <<>>
  /\ Waits \in Seq(Nat) /\ {Spacing, Timeout, Grace, Budget, MaxPages, RetryFailed, FreshFound, FreshEmpty} \subseteq Nat \ {0}
  /\ Gaps \subseteq Nat

VARIABLES cache,     \* the cache of the running scan: of each query its answer, and how long it rests
          disk,      \* nvd-cache.json
          client,    \* the client of the scan: the time since it started and since its last request,
                     \* and whether NVD is taken as unreachable
          at,        \* the device being looked up and its query; device 0 when no scan runs
          sent,      \* is a request unanswered?
          attempt, pages,
          status,    \* what this scan found of each device
          shown,     \* what the last scan that was saved says of it
          had,       \* history: devices that have shown CVEs since the cache was last unreadable
          silent     \* history: has a request of this scan got no answer?

nvdVars == <<cache, disk, client, at, sent, attempt, pages, status, shown, had, silent>>

NoAnswer == [fresh |-> 0, data |-> "none"]
NoCache == [answers |-> [q \in Queries |-> NoAnswer], rests |-> [q \in Queries |-> 0]]
NoClient == [spent |-> 0, since |-> Spacing, unreachable |-> FALSE]
NotAt == [device |-> 0, query |-> 0]
Unknown == [d \in DOMAIN Devices |-> "none"]

NvdInit == /\ cache = NoCache /\ disk = NoCache /\ client = NoClient /\ at = NotAt /\ sent = FALSE
           /\ attempt = 1 /\ pages = 0 /\ status = Unknown /\ shown = Unknown /\ had = {} /\ silent = FALSE

Scanning == at.device # 0
AtDevice == at.device \in DOMAIN Devices
Query == Devices[at.device][at.query]
Answer == cache.answers[Query]

Less(a, b) == IF a < b THEN 0 ELSE a - b
Least(a, b) == IF a < b THEN a ELSE b
Aged(c, t) == [answers |-> [q \in Queries |-> [c.answers[q] EXCEPT !.fresh = Less(@, t)]],
               rests |-> [q \in Queries |-> Less(c.rests[q], t)]]
\* The time of a scan is told apart up to a moment after its end.
Later(c, t) == [c EXCEPT !.spent = Least(@ + t, Budget + Grace + 1), !.since = Least(@ + t, Spacing)]

-----------------------------------------------------------------------------
(* Between scans                                                              *)

Elapse(gap) == /\ ~Scanning /\ disk' = Aged(disk, gap)
               /\ UNCHANGED <<cache, client, at, sent, attempt, pages, status, shown, had, silent>>

\* Cache.__init__: a file that cannot be read is a new one. NvdClient.__init__ starts the budget.
ScanStarts ==
  /\ ~Scanning
  /\ \/ cache' = disk /\ UNCHANGED <<disk, had>>
     \/ cache' = NoCache /\ disk' = NoCache /\ had' = {}
  /\ client' = NoClient /\ at' = [device |-> 1, query |-> 1]
  /\ silent' = FALSE /\ UNCHANGED <<sent, attempt, pages, status, shown>>

\* Every device is looked up: the cache is saved, then the scan's document.
ScanEnds ==
  /\ at.device = Len(Devices) + 1 /\ at' = NotAt
  /\ disk' = cache /\ shown' = status /\ had' = had \cup {d \in DOMAIN Devices : status[d] = "ok"}
  /\ cache' = NoCache /\ client' = NoClient /\ status' = Unknown
  /\ silent' = FALSE /\ UNCHANGED <<sent, attempt, pages>>

\* The scan ends (stopped, timed out) before its cache is saved: nothing of it is kept.
ScanDies == /\ Scanning /\ at' = NotAt /\ sent' = FALSE /\ attempt' = 1 /\ pages' = 0
            /\ cache' = NoCache /\ client' = NoClient /\ status' = Unknown
            /\ silent' = FALSE /\ UNCHANGED <<disk, shown, had>>

-----------------------------------------------------------------------------
(* lookup: the queries of one device, and what it is by their answers          *)

Settles(result) == /\ status' = [status EXCEPT ![at.device] = result]
                   /\ at' = [device |-> at.device + 1, query |-> 1]
\* A name that is not listed, or a query that is malformed, was asked in vain; a listed one goes on.
Takes(data) == CASE data \in {"unlisted", "invalid"}      -> Settles("unverified")
                 [] at.query < Len(Devices[at.device])    -> at' = [at EXCEPT !.query = @ + 1] /\ UNCHANGED status
                 [] OTHER                                 -> Settles("ok")
BugStaleOrUnanswered == Settles("unavailable")

\* An old answer beats no answer.
StaleOrUnanswered == IF Answer = NoAnswer THEN Settles("unavailable") ELSE Takes(Answer.data)

ToAsk == AtDevice /\ ~sent /\ attempt = 1 /\ pages = 0
AnsweredByTheCache ==
  /\ ToAsk
  /\ \/ Answer.fresh > 0 /\ Takes(Answer.data)
     \/ Answer.fresh = 0 /\ cache.rests[Query] > 0 /\ StaleOrUnanswered
  /\ UNCHANGED <<cache, disk, client, sent, attempt, pages, shown, had, silent>>

NextQuery == sent' = FALSE /\ attempt' = 1 /\ pages' = 0
Passes(t) == disk' = Aged(disk, t)
\* NvdUnavailable: the query rests, and is answered by what is there.
Failed(t) == /\ Passes(t) /\ cache' = [Aged(cache, t) EXCEPT !.rests[Query] = RetryFailed]
             /\ StaleOrUnanswered /\ NextQuery
\* NvdBudgetExceeded: the next scan may ask again.
OutOfBudget(t) == Passes(t) /\ cache' = Aged(cache, t) /\ StaleOrUnanswered /\ NextQuery
GoesOn(t) == Passes(t) /\ cache' = Aged(cache, t) /\ UNCHANGED <<at, status>>
\* What NVD answered is fresh for long, unless it does not list the name or calls the query malformed.
Answered(data, t) ==
  LET fresh == IF data \in {"unlisted", "invalid"} THEN FreshEmpty ELSE FreshFound
      aged == Aged(cache, t)
  IN  /\ Passes(t)
      /\ cache' = [answers |-> [aged.answers EXCEPT ![Query] = [fresh |-> fresh, data |-> data]],
                   rests |-> [aged.rests EXCEPT ![Query] = 0]]
      /\ Takes(data) /\ NextQuery

-----------------------------------------------------------------------------
(* NvdClient                                                                  *)

Remaining(t) == Less(Budget, client.spent + t)
BugToWait == 0
ToWait == Spacing - client.since

\* A request is spaced from the last one and sent within the budget, or not at all.
Asks ==
  /\ ToAsk => Answer.fresh = 0 /\ cache.rests[Query] = 0
  /\ AtDevice /\ ~sent
  /\ \/ client.unreachable /\ Failed(0) /\ UNCHANGED client
     \/ /\ ~client.unreachable /\ (ToWait > 0 => ToWait > Remaining(0))
        /\ ToWait > 0 /\ OutOfBudget(0) /\ UNCHANGED client
     \/ /\ ~client.unreachable /\ (ToWait > 0 => ToWait <= Remaining(0)) /\ Remaining(ToWait) = 0
        /\ OutOfBudget(ToWait) /\ client' = Later(client, ToWait)
     \/ /\ ~client.unreachable /\ (ToWait > 0 => ToWait <= Remaining(0)) /\ Remaining(ToWait) > 0
        /\ sent' = TRUE /\ client' = [Later(client, ToWait) EXCEPT !.since = 0]
        /\ GoesOn(ToWait) /\ UNCHANGED <<attempt, pages>>
  /\ UNCHANGED <<shown, had, silent>>

\* A reply comes in no time, or as late as it may.
Takings == {0, Least(Timeout, IF Remaining(0) > Grace THEN Remaining(0) ELSE Grace)}

\* No answer at all: NVD is asked no more in this scan.
DoesNotAnswer == /\ sent
                 /\ \E t \in Takings : Failed(t) /\ client' = [Later(client, t) EXCEPT !.unreachable = TRUE]
                 /\ silent' = TRUE /\ UNCHANGED <<shown, had>>

\* A page: the next one is asked for, until the last or as many as one query may have.
AnswersPage(last) ==
  /\ sent
  /\ \E t \in Takings :
       /\ client' = Later(client, t)
       /\ IF last \/ pages + 1 = MaxPages
          THEN \E data \in IF Query \in Names THEN {"listed", "unlisted"} ELSE {"cves"} : Answered(data, t)
          ELSE GoesOn(t) /\ sent' = FALSE /\ attempt' = 1 /\ pages' = pages + 1
  /\ UNCHANGED <<shown, had, silent>>

CallsItMalformed == /\ sent /\ \E t \in Takings : Answered("invalid", t) /\ client' = Later(client, t)
                    /\ UNCHANGED <<shown, had, silent>>

BugIsBusy ==
  /\ sent
  /\ \E t \in Takings :
       LET wait == IF attempt > Len(Waits) THEN 0 ELSE Waits[attempt]
       IN  IF attempt > Len(Waits) THEN Failed(t) /\ client' = Later(client, t)
           ELSE /\ GoesOn(t + wait) /\ client' = Later(client, t + wait)
                /\ attempt' = attempt + 1 /\ sent' = FALSE /\ UNCHANGED pages
  /\ UNCHANGED <<shown, had, silent>>

\* A rate limit or a server error: asked again after a wait, a few times, if the budget allows.
IsBusy ==
  /\ sent
  /\ \E t \in Takings :
       LET wait == IF attempt > Len(Waits) THEN 0 ELSE Waits[attempt]
       IN  IF attempt > Len(Waits) THEN Failed(t) /\ client' = Later(client, t)
           ELSE IF wait > Remaining(t) THEN OutOfBudget(t) /\ client' = Later(client, t)
           ELSE /\ GoesOn(t + wait) /\ client' = Later(client, t + wait)
                /\ attempt' = attempt + 1 /\ sent' = FALSE /\ UNCHANGED pages
  /\ UNCHANGED <<shown, had, silent>>

\* Any other status is no answer, and not retried.
Refuses == /\ sent /\ \E t \in Takings : Failed(t) /\ client' = Later(client, t)
           /\ UNCHANGED <<shown, had, silent>>

NvdNext == \/ (\E gap \in Gaps : Elapse(gap)) \/ ScanStarts \/ ScanEnds \/ ScanDies
           \/ AnsweredByTheCache \/ Asks \/ DoesNotAnswer
           \/ (\E last \in BOOLEAN : AnswersPage(last)) \/ CallsItMalformed \/ IsBusy \/ Refuses

NvdSpec == NvdInit /\ [][NvdNext]_nvdVars

-----------------------------------------------------------------------------
\* "a device never loses its CVEs because NVD had a bad day" (cache.py:29-31): once a saved scan has shown a
\* device's CVEs, no later one says they are unavailable, whatever NVD does and in whatever order answers
\* expire, fail and rest; only an unreadable cache file may take them.
NeverLosesCves == \A d \in had : shown[d] # "unavailable"

\* NVD is treated as its terms ask (nvd.py:33-41): requests of one scan are spaced, all are sent within the
\* time budget, none after one that got no answer, and none for a query that failed as long as it rests by
\* what the last saved scan left.
Considerate ==
  [][sent' /\ ~sent =>
       /\ client.since + (client'.spent - client.spent) >= Spacing /\ client'.spent < Budget
       /\ ~silent
       /\ ToAsk => disk.rests[Query] = 0]_nvdVars

\* No lookup keeps a scan longer than its budget and one last, short request (nvd.py:41, 144-150).
StageEndsInTime == client.spent <= Budget + Grace
=============================================================================
