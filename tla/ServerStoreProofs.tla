-------------------------- MODULE ServerStoreProofs --------------------------
(***************************************************************************)
(* Proofs about what the server keeps beside the graph: the shared tracker *)
(* of recommendations, for any requests, items and statuses; the schedule, *)
(* for any frequencies, hours and bounds, its owner choosing, as in the    *)
(* runs, after load() has ended; and the scan history, for any number of   *)
(* scans, of kept scans and of faults.                                     *)
(***************************************************************************)
EXTENDS Tracker, Schedule, History, SequenceTheorems, TLAPS

(* fsutil.ts, withFileLock: whoever has read the file and not written it   *)
(* back is first in its chain, and what it has read is still there, unless *)
(* the file could not be read.                                             *)
LockInv ==
  /\ fileLock \in Seq(Requests)
  /\ seen = [r \in Requests |-> seen[r]]
  /\ \A r \in Requests : seen[r] # Nothing =>
       /\ fileLock # <<>> /\ Head(fileLock) = r
       /\ spoilt \/ seen[r] = tracker

TrackerInv == LockInv /\ NoStatusLost

LEMMA Begins == TrackerInit => TrackerInv
BY DEF TrackerInit, TrackerInv, LockInv, NoStatusLost

LEMMA HeadStays ==
  ASSUME NEW s \in Seq(Requests), NEW r \in Requests, s # <<>>
  PROVE  Append(s, r) \in Seq(Requests) /\ Append(s, r) # <<>> /\ Head(Append(s, r)) = Head(s)
OBVIOUS

(* A request that joins the chain leaves its head alone.                   *)
LEMMA PostsKeeps ==
  ASSUME TrackerInv, NEW r \in Requests, NEW k \in Keys, NEW s \in Statuses \cup {"open"}, Posts(r, k, s)
  PROVE  TrackerInv'
<1>1. fileLock' \in Seq(Requests)
  BY DEF TrackerInv, LockInv, Posts
<1>2. fileLock # <<>> => fileLock' # <<>> /\ Head(fileLock') = Head(fileLock)
  BY HeadStays DEF TrackerInv, LockInv, Posts
<1>3. UNCHANGED <<tracker, seen, latest, spoilt>>
  BY DEF Posts
<1> QED
  BY <1>1, <1>2, <1>3 DEF TrackerInv, LockInv, NoStatusLost

(* Only the head of the chain reads.                                       *)
LEMMA ReadsKeeps ==
  ASSUME TrackerInv, NEW r \in Requests, Reads(r)
  PROVE  TrackerInv'
<1>1. UNCHANGED <<tracker, fileLock, latest>> /\ fileLock # <<>> /\ Head(fileLock) = r
  BY DEF Reads, Holds
<1>2. CASE seen' = [seen EXCEPT ![r] = tracker] /\ UNCHANGED spoilt
  BY <1>1, <1>2 DEF TrackerInv, LockInv, NoStatusLost
<1>3. CASE seen' = [seen EXCEPT ![r] = AllOpen] /\ spoilt' = TRUE
  BY <1>1, <1>3 DEF TrackerInv, LockInv, NoStatusLost
<1> QED
  BY <1>2, <1>3 DEF Reads

(* When the head has written nobody else holds anything it has read.       *)
LEMMA WritesKeeps ==
  ASSUME TrackerInv, NEW r \in Requests, Writes(r)
  PROVE  TrackerInv'
<1>1. fileLock' \in Seq(Requests)
  BY DEF TrackerInv, LockInv, Writes, Holds
<1>2. seen' = [seen EXCEPT ![r] = Nothing] /\ \A q \in Requests : seen'[q] = Nothing
  BY DEF TrackerInv, LockInv, Writes, Holds
<1>3. seen' = [q \in Requests |-> seen'[q]]
  BY <1>2 DEF TrackerInv, LockInv
<1>4. UNCHANGED spoilt /\ (spoilt \/ seen[r] = tracker)
  BY DEF TrackerInv, LockInv, Writes
<1>5. CASE tracker' = Applied(seen[r], asked[r]) /\ latest' = Applied(latest, asked[r])
  <2>1. spoilt \/ tracker' = latest'
    BY <1>4, <1>5 DEF TrackerInv, NoStatusLost
  <2> QED
    BY <1>1, <1>2, <1>3, <1>4, <2>1 DEF TrackerInv, LockInv, NoStatusLost
<1>6. CASE UNCHANGED <<tracker, latest>>
  BY <1>1, <1>2, <1>3, <1>4, <1>6 DEF TrackerInv, LockInv, NoStatusLost
<1> QED
  BY <1>5, <1>6 DEF Writes

(* withFileLock is a lock: every request writes back what it has just read,*)
(* with its own change, and nothing between (fsutil.ts, routes/index.ts).  *)
THEOREM TrackerAlways == TrackerSpec => []TrackerInv
<1>1. TrackerInv /\ [TrackerNext]_trackerVars => TrackerInv'
  <2> SUFFICES ASSUME TrackerInv, [TrackerNext]_trackerVars PROVE TrackerInv'
    OBVIOUS
  <2>1. CASE UNCHANGED trackerVars
    BY <2>1 DEF TrackerInv, LockInv, NoStatusLost, trackerVars
  <2>2. CASE TrackerNext
    BY <2>2, PostsKeeps, ReadsKeeps, WritesKeeps DEF TrackerNext
  <2> QED
    BY <2>1, <2>2
<1> QED
  BY Begins, <1>1, PTL DEF TrackerSpec

(* No change of a recommendation that was answered "ok" is lost by another *)
(* request, as long as the file can be read.                               *)
THEOREM NoneIsLost == TrackerSpec => []NoStatusLost
<1>1. TrackerInv => NoStatusLost
  BY DEF TrackerInv
<1> QED
  BY <1>1, TrackerAlways, PTL
-----------------------------------------------------------------------------
(* schedule.ts:112-120: the saves in the chain are newer than the file and *)
(* in order, the newest is what the scheduler holds; and once a run is on  *)
(* record every later save has one.                                        *)
IsNewer(a, b) == a.rev > b.rev /\ (b.lastRun # NoRun => a.lastRun # NoRun)
IsAsNew(a, b) == a.rev >= b.rev /\ (b.lastRun # NoRun => a.lastRun # NoRun)

ChainInv ==
  load = "up" =>
    /\ IsAsNew(state, file)
    /\ \A i \in 1..Len(writes) : IsNewer(writes[i], file) /\ IsAsNew(state, writes[i])
    /\ \A i, j \in 1..Len(writes) : i < j => IsNewer(writes[j], writes[i])
    /\ IF writes = <<>> THEN lost \/ file = state ELSE writes[Len(writes)] = state

(* schedule.ts:159-168: nothing is saved or started before load() ended.   *)
LoadInv ==
  /\ load # "up" => writes = <<>> /\ timer = NoSlot /\ scan.by # "scheduled"
  /\ load = "read" => text = file

ScheduleInv == ScheduleTypeOK /\ ChainInv /\ LoadInv

-----------------------------------------------------------------------------
LEMMA OffIsAState == OFF \in States
BY DEF OFF, States, Schedules, NoRun

LastRuns == [at : Nat, status : {"none", "completed", "failed", "skipped"}]

WithRun(s, run, n) == [s EXCEPT !.lastRun = run, !.rev = n]
WithChoice(s, choice, n) == [s EXCEPT !.choice = choice, !.rev = n]

LEMMA WithRunIsAState ==
  ASSUME NEW s \in States, NEW run \in LastRuns, NEW n \in Nat
  PROVE  WithRun(s, run, n) \in States /\ WithRun(s, run, n).lastRun = run /\ WithRun(s, run, n).rev = n
<1>1. WithRun(s, run, n) \in States
  BY DEF States, LastRuns, WithRun
<1>2. WithRun(s, run, n).rev = n /\ WithRun(s, run, n).lastRun = run
  BY DEF States, LastRuns, WithRun
<1> QED
  BY <1>1, <1>2

LEMMA WithChoiceIsAState ==
  ASSUME NEW s \in States, NEW choice \in Schedules, NEW n \in Nat
  PROVE  /\ WithChoice(s, choice, n) \in States
         /\ WithChoice(s, choice, n).lastRun = s.lastRun /\ WithChoice(s, choice, n).rev = n
<1>1. WithChoice(s, choice, n) \in States
  BY DEF States, WithChoice
<1>2. WithChoice(s, choice, n).rev = n /\ WithChoice(s, choice, n).lastRun = s.lastRun
  BY DEF States, WithChoice
<1> QED
  BY <1>1, <1>2

LEMMA RanIsAState ==
  ASSUME state \in States, NEW status \in {"completed", "failed", "skipped"}, NEW t \in Nat
  PROVE  Ran(status, t) \in States /\ IsNewer(Ran(status, t), state)
<1>1. state.rev \in Nat /\ state.rev + 1 \in Nat
  BY DEF States
<1>2. PICK run : run = [at |-> t, status |-> status]
  OBVIOUS
<1>3. run \in LastRuns
  BY <1>2 DEF LastRuns
<1>4. run # NoRun
  <2>1. run.status # "none"
    BY <1>2
  <2> QED
    BY <2>1 DEF NoRun
<1>5. PICK n \in Nat : n = state.rev + 1
  BY <1>1
<1>6. Ran(status, t) = WithRun(state, run, n)
  BY <1>2, <1>5 DEF Ran, WithRun
<1>7. Ran(status, t) \in States /\ Ran(status, t).rev = n /\ Ran(status, t).lastRun = run
  BY <1>3, <1>6, WithRunIsAState
<1> QED
  BY <1>1, <1>4, <1>5, <1>7 DEF IsNewer

LEMMA SetIsAState ==
  ASSUME state \in States, NEW choice \in Schedules
  PROVE  /\ [state EXCEPT !.choice = choice, !.rev = @ + 1] \in States
         /\ IsNewer([state EXCEPT !.choice = choice, !.rev = @ + 1], state)
<1>1. state.rev \in Nat /\ state.rev + 1 \in Nat
  BY DEF States
<1>2. PICK n \in Nat : n = state.rev + 1
  BY <1>1
<1>3. [state EXCEPT !.choice = choice, !.rev = @ + 1] = WithChoice(state, choice, n)
  BY <1>2 DEF WithChoice
<1>4. IsNewer(WithChoice(state, choice, n), state)
  BY <1>1, <1>2, WithChoiceIsAState DEF IsNewer
<1> QED
  BY <1>3, <1>4, WithChoiceIsAState

LEMMA ScheduleBegins == ScheduleInit => ScheduleInv
<1> SUFFICES ASSUME ScheduleInit PROVE ScheduleInv
  OBVIOUS
<1>1. ScheduleTypeOK
  <2>1. credential \in BOOLEAN /\ stopped \in BOOLEAN /\ lost \in BOOLEAN
    BY Zenon DEF ScheduleInit, StartsWith
  <2>2. Idle \in [by : {"none", "other", "scheduled"}, at : Nat]
    BY DEF Idle
  <2> QED
    BY <2>1, <2>2, OffIsAState DEF ScheduleInit, StartsWith, ScheduleTypeOK
<1> QED
  BY <1>1 DEF ScheduleInit, StartsWith, ScheduleInv, ChainInv, LoadInv, NoSlot, Idle

-----------------------------------------------------------------------------
(* Whatever is saved is newer than all before it and is what is held.      *)
LEMMA SaveKeepsTheChain ==
  ASSUME ScheduleInv, load = "up", UNCHANGED <<load, file>>, NEW next \in States, IsNewer(next, state), Save(next)
  PROVE  ChainInv' /\ state' \in States /\ writes' \in Seq(States)
<1>1. state' = next /\ writes' = Append(writes, next) /\ writes \in Seq(States) /\ {state, file} \subseteq States
  BY DEF Save, ScheduleInv, ScheduleTypeOK
<1>2. /\ Len(writes') = Len(writes) + 1 /\ Len(writes) \in Nat /\ writes' # <<>>
      /\ writes'[Len(writes')] = next /\ \A i \in 1..Len(writes) : writes'[i] = writes[i]
  BY <1>1
<1>3. \A i \in 1..Len(writes) : writes[i] \in States
  BY <1>1
<1>4. \A s \in States : s.rev \in Nat
  BY DEF States
<1>5. \A s \in States : IsAsNew(state, s) => IsNewer(next, s)
  BY <1>1, <1>4 DEF IsNewer, IsAsNew
<1>6. \A s \in States : IsNewer(next, s) => IsAsNew(next, s)
  BY <1>4 DEF IsNewer, IsAsNew
<1>7. IsNewer(next, file) /\ IsAsNew(next, file) /\ IsAsNew(next, next)
  BY <1>1, <1>4, <1>5, <1>6 DEF ScheduleInv, ChainInv, IsAsNew
<1>8. \A i \in 1..Len(writes) : IsNewer(next, writes[i]) /\ IsAsNew(next, writes[i]) /\ IsNewer(writes[i], file)
  BY <1>3, <1>5, <1>6 DEF ScheduleInv, ChainInv
<1>9. \A i \in 1..Len(writes') : IsNewer(writes'[i], file) /\ IsAsNew(next, writes'[i])
  BY <1>2, <1>7, <1>8
<1>10. \A i, j \in 1..Len(writes') : i < j => IsNewer(writes'[j], writes'[i])
  BY <1>2, <1>8 DEF ScheduleInv, ChainInv
<1>11. ChainInv'
  BY <1>1, <1>2, <1>7, <1>9, <1>10 DEF ChainInv, IsNewer, IsAsNew
<1> QED
  BY <1>1, <1>11

(* The scheduler saves: a choice, a slot that is refused, a run that ends. *)
LEMMA SetKeeps == ASSUME ~SetBeforeLoad, ScheduleInv, NEW c \in Schedules, Set(c) PROVE ScheduleInv'
<1>1. /\ load = "up" /\ Save([state EXCEPT !.choice = c, !.rev = @ + 1]) /\ state \in States /\ sets' = sets + 1
      /\ UNCHANGED <<now, credential, file, load, text, stopped, scan, lost, restarts>>
  BY DEF Set, ScheduleInv, ScheduleTypeOK
<1>2. ChainInv' /\ state' \in States /\ writes' \in Seq(States)
  BY <1>1, SetIsAState, SaveKeepsTheChain
<1>3. ScheduleTypeOK'
  BY <1>1, <1>2 DEF ScheduleInv, ScheduleTypeOK
<1> QED
  BY <1>1, <1>2, <1>3 DEF ScheduleInv, LoadInv

LEMMA RefusedKeeps == ASSUME ScheduleInv, FireRefused PROVE ScheduleInv'
<1>1. /\ load = "up" /\ state \in States /\ now \in Nat
      /\ UNCHANGED <<now, credential, file, load, text, stopped, scan, lost, sets, restarts>>
  BY DEF FireRefused, TimerFires, ScheduleInv, LoadInv, ScheduleTypeOK
<1>2. \E status \in {"failed", "skipped"} : Save(Ran(status, now))
  BY DEF FireRefused
<1>3. ChainInv' /\ state' \in States /\ writes' \in Seq(States)
  BY <1>1, <1>2, RanIsAState, SaveKeepsTheChain
<1>4. ScheduleTypeOK'
  BY <1>1, <1>3 DEF ScheduleInv, ScheduleTypeOK
<1> QED
  BY <1>1, <1>3, <1>4 DEF ScheduleInv, LoadInv

LEMMA EndKeeps == ASSUME ScheduleInv, RunningScanEnds PROVE ScheduleInv'
<1>1. /\ state \in States /\ scan.at \in Nat /\ scan' = Idle
      /\ UNCHANGED <<now, credential, timer, due, file, load, text, stopped, lost, sets, restarts>>
  BY DEF RunningScanEnds, ScheduleInv, ScheduleTypeOK
<1>2. CASE scan.by = "scheduled"
  <2>1. load = "up" /\ \E status \in {"completed", "failed"} : Save(Ran(status, scan.at))
    BY <1>2 DEF RunningScanEnds, ScheduleInv, LoadInv
  <2>2. ChainInv' /\ state' \in States /\ writes' \in Seq(States)
    BY <1>1, <2>1, RanIsAState, SaveKeepsTheChain
  <2>3. ScheduleTypeOK'
    BY <1>1, <2>2 DEF ScheduleInv, ScheduleTypeOK, Idle
  <2> QED
    BY <1>1, <2>1, <2>2, <2>3 DEF ScheduleInv, LoadInv
<1>3. CASE UNCHANGED <<state, writes>>
  BY <1>1, <1>3 DEF ScheduleInv, ScheduleTypeOK, ChainInv, LoadInv, Idle
<1> QED
  BY <1>2, <1>3 DEF RunningScanEnds

-----------------------------------------------------------------------------
(* The first of the chain reaches the file or not; the others wait.        *)
LEMMA WriteKeeps == ASSUME ScheduleInv, Write PROVE ScheduleInv'
<1>1. /\ writes # <<>> /\ writes' = Tail(writes) /\ writes \in Seq(States) /\ {state, file} \subseteq States
      /\ UNCHANGED <<now, credential, state, timer, due, load, text, stopped, scan, sets, restarts>>
      /\ load = "up"
  BY DEF Write, ScheduleInv, ScheduleTypeOK, LoadInv
<1>2. /\ writes' \in Seq(States) /\ Len(writes) \in Nat \ {0} /\ Len(writes') = Len(writes) - 1
      /\ \A i \in 1..Len(writes') : writes'[i] = writes[i + 1]
      /\ Head(writes) = writes[1] /\ writes[1] \in States
      /\ (writes' = <<>>) <=> (Len(writes) = 1)
  <2>1. Len(writes) \in Nat \ {0} /\ Head(writes) = writes[1] /\ writes[1] \in States
    BY <1>1
  <2>2. writes' \in Seq(States) /\ Len(writes') = Len(writes) - 1
    BY <1>1, <2>1
  <2>3. \A i \in 1..Len(writes') : writes'[i] = writes[i + 1]
    BY <1>1, <2>1, <2>2
  <2>4. (writes' = <<>>) <=> (Len(writes) = 1)
    BY <2>1, <2>2
  <2> QED
    BY <2>1, <2>2, <2>3, <2>4
<1>3. /\ \A i \in 1..Len(writes') : IsNewer(writes'[i], file) /\ IsNewer(writes'[i], writes[1]) /\ IsAsNew(state, writes'[i])
      /\ \A i, j \in 1..Len(writes') : i < j => IsNewer(writes'[j], writes'[i])
      /\ IsAsNew(state, writes[1]) /\ IsAsNew(state, file) /\ writes[Len(writes)] = state
  BY <1>1, <1>2 DEF ScheduleInv, ChainInv
<1>4. writes' # <<>> => writes'[Len(writes')] = state
  BY <1>2, <1>3
<1>5. ChainInv'
  <2>1. CASE file' = Head(writes) /\ lost' = FALSE
    <3>1. writes' = <<>> => file' = state
      BY <1>2, <1>3, <2>1
    <3> QED
      BY <1>1, <1>2, <1>3, <1>4, <2>1, <3>1 DEF ChainInv, IsNewer, IsAsNew
  <2>2. CASE UNCHANGED file /\ lost' = TRUE
    BY <1>1, <1>2, <1>3, <1>4, <2>2 DEF ChainInv, IsNewer, IsAsNew
  <2> QED
    BY <2>1, <2>2 DEF Write
<1>6. ScheduleTypeOK'
  BY <1>1, <1>2 DEF ScheduleInv, ScheduleTypeOK, Write
<1> QED
  BY <1>1, <1>5, <1>6 DEF ScheduleInv, LoadInv

(* load() reads the file and takes what it has read.                       *)
LEMMA LoadKeeps == ASSUME ScheduleInv, LoadReads \/ LoadSettles PROVE ScheduleInv'
<1>1. CASE LoadReads
  BY <1>1 DEF LoadReads, ScheduleInv, ScheduleTypeOK, ChainInv, LoadInv
<1>2. CASE LoadSettles
  <2>1. /\ load' = "up" /\ state' = file /\ writes = <<>> /\ text' = OFF /\ file \in States
        /\ UNCHANGED <<now, credential, writes, file, stopped, scan, lost, sets, restarts>>
    BY <1>2 DEF LoadSettles, ScheduleInv, LoadInv, ScheduleTypeOK
  <2>2. ScheduleTypeOK'
    BY <2>1, OffIsAState DEF ScheduleInv, ScheduleTypeOK
  <2>3. file.rev \in Nat
    BY <2>1 DEF States
  <2>4. ChainInv'
    BY <2>1, <2>3 DEF ChainInv, IsAsNew
  <2> QED
    BY <2>1, <2>2, <2>4 DEF ScheduleInv, LoadInv
<1> QED
  BY <1>1, <1>2

(* Nothing of the rest touches what is held, saved or read.                *)
LEMMA OthersKeep ==
  ASSUME ScheduleInv, FireStarts \/ OtherScan \/ Stop \/ Tick \/ Restart \/ UNCHANGED scheduleVars
  PROVE  ScheduleInv'
<1>1. CASE FireStarts
  BY <1>1 DEF FireStarts, TimerFires, ScheduleInv, ScheduleTypeOK, ChainInv, LoadInv
<1>2. CASE OtherScan
  BY <1>2 DEF OtherScan, ScheduleInv, ScheduleTypeOK, ChainInv, LoadInv
<1>3. CASE Stop
  BY <1>3 DEF Stop, ScheduleInv, ScheduleTypeOK, ChainInv, LoadInv
<1>4. CASE Tick
  BY <1>4 DEF Tick, ScheduleInv, ScheduleTypeOK, ChainInv, LoadInv
<1>5. CASE Restart
  <2>1. /\ state' = OFF /\ timer' = NoSlot /\ writes' = <<>> /\ load' = "reading" /\ text' = OFF /\ scan' = Idle
        /\ UNCHANGED <<now, credential, file, sets>> /\ restarts' = restarts + 1
    BY <1>5 DEF Restart
  <2>2. credential' \in BOOLEAN /\ stopped' \in BOOLEAN /\ lost' \in BOOLEAN
    BY <1>5, Zenon DEF Restart, ScheduleInv, ScheduleTypeOK
  <2>3. ScheduleTypeOK'
    BY <2>1, <2>2, OffIsAState DEF ScheduleInv, ScheduleTypeOK, Idle
  <2> QED
    BY <2>1, <2>3 DEF ScheduleInv, ChainInv, LoadInv, Idle
<1>6. CASE UNCHANGED scheduleVars
  BY <1>6 DEF scheduleVars, ScheduleInv, ScheduleTypeOK, ChainInv, LoadInv
<1> QED
  BY <1>1, <1>2, <1>3, <1>4, <1>5, <1>6

LEMMA ScheduleStep ==
  ASSUME ~SetBeforeLoad, ScheduleInv, [ScheduleNext]_scheduleVars PROVE ScheduleInv'
BY SetKeeps, RefusedKeeps, EndKeeps, WriteKeeps, LoadKeeps, OthersKeep DEF ScheduleNext

-----------------------------------------------------------------------------
(* The inductive invariant of the scheduler and the chain of its saves     *)
(* (schedule.ts:112-187).                                                  *)
THEOREM ScheduleAlways ==
  ASSUME ~SetBeforeLoad PROVE ScheduleSpec => []ScheduleInv
BY ScheduleBegins, ScheduleStep, PTL DEF ScheduleSpec

(* Types: schedule.json, what load() read and every save are schedules.    *)
THEOREM ScheduleTypeCorrect ==
  ASSUME ~SetBeforeLoad PROVE ScheduleSpec => []ScheduleTypeOK
<1>1. ScheduleInv => ScheduleTypeOK
  BY DEF ScheduleInv
<1> QED
  BY <1>1, ScheduleAlways, PTL

(* What the scheduler holds is in the file or the last of the chain, but   *)
(* for a save that failed (schedule.ts:112-120).                           *)
THEOREM AllIsSaved ==
  ASSUME ~SetBeforeLoad PROVE ScheduleSpec => []NothingUnsaved
<1>1. ScheduleInv => NothingUnsaved
  BY DEF ScheduleInv, ScheduleTypeOK, ChainInv, NothingUnsaved, Last
<1> QED
  BY <1>1, ScheduleAlways, PTL

(* No step takes a recorded run out of schedule.json, and what replaces    *)
(* its content is newer (schedule.ts:112-120, 170).                        *)
RunsStayOnRecord == [][file.lastRun # NoRun => file'.lastRun # NoRun]_scheduleVars

LEMMA FileMovesOn ==
  ASSUME ScheduleInv, [ScheduleNext]_scheduleVars
  PROVE  file' # file => IsNewer(file', file)
<1>1. file' # file => Write
  BY DEF ScheduleNext, scheduleVars, LoadReads, LoadSettles, Set, FireRefused, FireStarts, OtherScan,
         RunningScanEnds, Stop, Restart, Tick
<1>2. ASSUME Write, file' # file PROVE IsNewer(file', file)
  <2>1. file' = Head(writes) /\ writes # <<>> /\ load = "up" /\ writes \in Seq(States)
    BY <1>2 DEF Write, ScheduleInv, LoadInv, ScheduleTypeOK
  <2>2. Len(writes) \in Nat \ {0} /\ Head(writes) = writes[1]
    BY <2>1
  <2> QED
    BY <2>1, <2>2 DEF ScheduleInv, ChainInv
<1> QED
  BY <1>1, <1>2

THEOREM RunsAreKept ==
  ASSUME ~SetBeforeLoad PROVE ScheduleSpec => SavedInOrder /\ RunsStayOnRecord
<1>1. ScheduleInv /\ [ScheduleNext]_scheduleVars => [file' # file => file'.rev > file.rev]_scheduleVars
  BY FileMovesOn DEF IsNewer
<1>2. ScheduleInv /\ [ScheduleNext]_scheduleVars => [file.lastRun # NoRun => file'.lastRun # NoRun]_scheduleVars
  BY FileMovesOn DEF IsNewer
<1> QED
  BY <1>1, <1>2, ScheduleAlways, PTL DEF ScheduleSpec, SavedInOrder, RunsStayOnRecord

-----------------------------------------------------------------------------
(* nextRun (schedule.ts:62-83) finds a slot, and the first one: a slot is  *)
(* at a given offset in every period.                                      *)
LEMMA Remains ==
  ASSUME NEW e \in Nat \ {0}, NEW a \in Nat
  PROVE  /\ a \div e \in Nat /\ a % e \in 0..(e - 1) /\ a = (e * (a \div e)) + (a % e)
         /\ \A d \in Nat, r \in 0..(e - 1) : ((e * d) + r) % e = r
<1>1. a % e \in 0..(e - 1)
  OBVIOUS
<1>2. a \div e \in Nat /\ a = (e * (a \div e)) + (a % e)
  OBVIOUS
<1>3. ASSUME NEW d \in Nat, NEW r \in 0..(e - 1) PROVE ((e * d) + r) % e = r
  OBVIOUS
<1> QED
  BY <1>1, <1>2, <1>3

LEMMA FirstAfter ==
  ASSUME NEW e \in Nat \ {0}, NEW c \in 0..(e - 1), NEW a \in Nat
  PROVE  \E t \in (a + 1)..(a + e) : t % e = c /\ \A u \in (a + 1)..(t - 1) : u % e # c
<1>0. PICK d \in Nat : d = a \div e
  BY Remains
<1>1. PICK r \in 0..(e - 1) : a = (e * d) + r
  BY <1>0, Remains
<1>2. PICK p \in Nat : p = e * d
  OBVIOUS
<1>3. /\ e * (d + 1) = p + e /\ d + 1 \in Nat
      /\ \A s \in 0..(e - 1) : (p + s) % e = s /\ (p + e + s) % e = s
  <2>1. e * (d + 1) = p + e /\ d + 1 \in Nat
    BY <1>2
  <2>2. \A s \in 0..(e - 1) : ((e * d) + s) % e = s /\ ((e * (d + 1)) + s) % e = s
    BY <2>1, Remains
  <2> QED
    BY <1>2, <2>1, <2>2
<1>4. a = p + r
  BY <1>1, <1>2
<1>5. CASE r < c
  <2>1. (p + c) \in (a + 1)..(a + e) /\ (p + c) % e = c
    <3>1. (p + c) \in (a + 1)..(a + e)
      BY <1>4, <1>5
    <3> QED
      BY <1>3, <3>1
  <2>2. ASSUME NEW u \in (a + 1)..(p + c - 1) PROVE u % e # c
    <3>1. u - p \in 0..(e - 1) /\ u - p # c /\ u = p + (u - p)
      BY <1>4, <2>2
    <3>2. u % e = u - p
      BY <1>3, <3>1
    <3> QED
      BY <3>1, <3>2
  <2> QED
    BY <2>1, <2>2
<1>6. CASE c <= r
  <2>1. (p + e + c) \in (a + 1)..(a + e) /\ (p + e + c) % e = c
    <3>1. (p + e + c) \in (a + 1)..(a + e)
      BY <1>4, <1>6
    <3> QED
      BY <1>3, <3>1
  <2>2. PICK t : t = p + e + c
    OBVIOUS
  <2>3. ASSUME NEW u \in (a + 1)..(t - 1) PROVE u % e # c
    <3>0. u < p + e + c /\ u > p + r /\ u \in Nat
      BY <1>4, <2>2, <2>3
    <3>1. CASE u < p + e
      <4>1. u - p \in 0..(e - 1) /\ u - p # c /\ u = p + (u - p)
        BY <1>6, <3>0, <3>1
      <4>2. u % e = u - p
        BY <1>3, <4>1
      <4> QED
        BY <4>1, <4>2
    <3>2. CASE p + e <= u
      <4>1. u - p - e \in 0..(e - 1) /\ u - p - e # c /\ u = p + e + (u - p - e)
        BY <3>0, <3>2
      <4>2. u % e = u - p - e
        BY <1>3, <4>1
      <4> QED
        BY <4>1, <4>2
    <3> QED
      BY <3>0, <3>1, <3>2
  <2> QED
    BY <2>1, <2>2, <2>3
<1> QED
  BY <1>5, <1>6

(* A day is a whole number of units, and a period no longer than it.       *)
LEMMA DayIs ==
  ASSUME NEW h \in 0..(Hours - 1)
  PROVE  Hours * Hour \in Nat \ {0} /\ h * Hour \in 0..((Hours * Hour) - 1)
<1>1. Hours \in Nat \ {0} /\ Hour \in Nat \ {0}
  BY ScheduleAssumption
<1>2. Hours * Hour \in Nat \ {0} /\ h * Hour \in Nat
  BY <1>1
<1>3. (Hours - h) * Hour >= Hour
  BY <1>1
<1>4. (Hours - h) * Hour = (Hours * Hour) - (h * Hour)
  BY <1>1
<1> QED
  BY <1>1, <1>2, <1>3, <1>4

FirstSlot(choice, after, t) ==
  /\ t > after /\ IsSlot(choice, t)
  /\ \A u \in (after + 1)..(t - 1) : ~IsSlot(choice, u)

LEMMA SlotsOf ==
  ASSUME NEW choice \in Schedules, choice.frequency # "off"
  PROVE  \E e \in 1..(Hours * Hour) : \E c \in 0..(e - 1) : \A t \in Nat : IsSlot(choice, t) <=> t % e = c
<1>1. CASE choice.frequency = "daily"
  <2>1. choice.dailyHour \in 0..(Hours - 1)
    BY <1>1, ScheduleAssumption DEF Schedules
  <2>2. Hours * Hour \in 1..(Hours * Hour) /\ choice.dailyHour * Hour \in 0..((Hours * Hour) - 1)
    BY <2>1, DayIs
  <2>3. \A t : IsSlot(choice, t) <=> t % (Hours * Hour) = choice.dailyHour * Hour
    BY <1>1 DEF IsSlot
  <2> QED
    BY <2>2, <2>3
<1>2. CASE choice.frequency # "daily"
  <2>1. choice.frequency \in DOMAIN Every
    BY <1>2 DEF Schedules
  <2>2. PICK e \in 1..(Hours * Hour) : e = Every[choice.frequency]
    BY <2>1, ScheduleAssumption
  <2>3. \A t : IsSlot(choice, t) <=> t % e = 0
    BY <1>2, <2>2 DEF IsSlot
  <2>4. 0 \in 0..(e - 1)
    BY ScheduleAssumption
  <2> QED
    BY <2>3, <2>4
<1> QED
  BY <1>1, <1>2

LEMMA NextRunIs ==
  ASSUME NEW choice \in Schedules, NEW after \in Nat
  PROVE  /\ NextRun(choice, after) \in Nat
         /\ choice.frequency = "off" => NextRun(choice, after) = NoSlot
         /\ choice.frequency # "off" => FirstSlot(choice, after, NextRun(choice, after))
<1>1. CASE choice.frequency = "off"
  BY <1>1 DEF NextRun, NoSlot
<1>2. CASE choice.frequency # "off"
  <2>0. PICK e \in 1..(Hours * Hour) : \E c \in 0..(e - 1) : \A t \in Nat : IsSlot(choice, t) <=> t % e = c
    BY <1>2, SlotsOf
  <2>1. PICK c \in 0..(e - 1) : \A t \in Nat : IsSlot(choice, t) <=> t % e = c
    BY <2>0
  <2>2. Hours * Hour \in Nat /\ 2 * Hours * Hour = (Hours * Hour) + (Hours * Hour)
    BY ScheduleAssumption
  <2>3. e \in Nat \ {0} /\ e <= 2 * Hours * Hour /\ 2 * Hours * Hour \in Nat
    BY <2>1, <2>2
  <2>4. PICK first \in (after + 1)..(after + e) : first % e = c /\ \A u \in (after + 1)..(first - 1) : u % e # c
    BY <2>3, FirstAfter
  <2> DEFINE most == 2 * Hours * Hour
             P(t) == IsSlot(choice, t) /\ \A u \in (after + 1)..(t - 1) : ~IsSlot(choice, u)
  <2>5. NextRun(choice, after) = CHOOSE t \in (after + 1)..(after + most) : P(t)
    BY <1>2 DEF NextRun
  <2>6. first \in (after + 1)..(after + most) /\ P(first)
    BY <2>1, <2>3, <2>4
  <2> HIDE DEF P, most
  <2>7. NextRun(choice, after) \in (after + 1)..(after + most) /\ P(NextRun(choice, after))
    BY <2>5, <2>6
  <2>8. most \in Nat
    BY <2>3 DEF most
  <2> QED
    BY <1>2, <2>7, <2>8 DEF FirstSlot, P
<1> QED
  BY <1>1, <1>2

-----------------------------------------------------------------------------
(* schedule.ts:127-157: whatever is armed is a slot of the choice held.    *)
SlotInv == timer \in Nat /\ due \in Nat /\ TimerIsForTheChoice

LEMMA ArmIs ==
  ASSUME NEW choice \in Schedules, NEW after \in Nat, Arm(choice, after)
  PROVE  /\ timer' \in Nat /\ due' = timer'
         /\ choice.frequency = "off" => timer' = NoSlot
         /\ choice.frequency # "off" => FirstSlot(choice, after, timer')
BY NextRunIs DEF Arm

LEMMA ArmedIsForTheChoice ==
  ASSUME NEW after \in Nat, state'.choice \in Schedules, Arm(state'.choice, after)
  PROVE  SlotInv'
<1>1. PICK choice \in Schedules : choice = state'.choice
  OBVIOUS
<1>2. /\ timer' \in Nat /\ due' = timer'
      /\ choice.frequency = "off" => timer' = NoSlot
      /\ choice.frequency # "off" => FirstSlot(choice, after, timer')
  BY <1>1, ArmIs
<1> QED
  BY <1>1, <1>2 DEF SlotInv, TimerIsForTheChoice, FirstSlot

LEMMA ChoiceIs ==
  ASSUME ScheduleTypeOK
  PROVE  /\ state.choice \in Schedules /\ text.choice \in Schedules /\ now \in Nat
         /\ \A status, t : Ran(status, t).choice = state.choice
         /\ \A c \in Schedules : [state EXCEPT !.choice = c, !.rev = @ + 1].choice = c
<1>1. state \in States /\ text \in States /\ now \in Nat
  BY DEF ScheduleTypeOK
<1>2. \A status, t : Ran(status, t).choice = state.choice
  BY <1>1 DEF Ran, States
<1>3. \A c \in Schedules : [state EXCEPT !.choice = c, !.rev = @ + 1].choice = c
  BY <1>1 DEF States
<1> QED
  BY <1>1, <1>2, <1>3 DEF States

(* A slot that fires early or late is followed by the first one after the  *)
(* later of the two times (schedule.ts:153-154).                           *)
LEMMA NextAfterTheSlot ==
  ASSUME ScheduleTypeOK, SlotInv, ArmNext
  PROVE  \E from \in Nat : /\ from = (IF now > timer THEN now ELSE timer)
                           /\ Arm(state.choice, from)
<1>1. now \in Nat /\ timer \in Nat
  BY DEF ScheduleTypeOK, SlotInv
<1>2. PICK from : from = (IF now >= timer THEN now ELSE timer)
  OBVIOUS
<1>3. from \in Nat /\ from = (IF now > timer THEN now ELSE timer)
  BY <1>1, <1>2
<1> QED
  BY <1>2, <1>3 DEF ArmNext

LEMMA FiresOnce ==
  ASSUME ScheduleTypeOK, SlotInv, FireRefused \/ FireStarts
  PROVE  LET from == IF now > timer THEN now ELSE timer
         IN  IF timer' = NoSlot THEN state.choice.frequency = "off"
             ELSE timer' > from /\ \A u \in (from + 1)..(timer' - 1) : ~IsSlot(state.choice, u)
<1>1. ArmNext
  BY DEF FireRefused, FireStarts
<1>2. PICK from \in Nat : from = (IF now > timer THEN now ELSE timer) /\ Arm(state.choice, from)
  BY <1>1, NextAfterTheSlot
<1>3. PICK choice \in Schedules : choice = state.choice
  BY ChoiceIs
<1>4. /\ timer' \in Nat
      /\ choice.frequency = "off" => timer' = NoSlot
      /\ choice.frequency # "off" => FirstSlot(choice, from, timer')
  BY <1>2, <1>3, ArmIs
<1>5. IF timer' = NoSlot THEN choice.frequency = "off"
      ELSE timer' > from /\ \A u \in (from + 1)..(timer' - 1) : ~IsSlot(choice, u)
  <2>1. CASE choice.frequency = "off"
    BY <1>4, <2>1
  <2>2. CASE choice.frequency # "off"
    <3>1. timer' > from /\ \A u \in (from + 1)..(timer' - 1) : ~IsSlot(choice, u)
      BY <1>4, <2>2, Zenon DEF FirstSlot
    <3>2. timer' # NoSlot
      BY <1>4, <3>1 DEF NoSlot
    <3> QED
      BY <3>1, <3>2, Zenon
  <2> QED
    BY <2>1, <2>2
<1> QED
  BY <1>2, <1>3, <1>5

LEMMA SlotStep ==
  ASSUME ScheduleInv, SlotInv, [ScheduleNext]_scheduleVars
  PROVE  SlotInv'
<1>0. ScheduleTypeOK
  BY DEF ScheduleInv
<1>1. CASE LoadSettles
  <2>1. state'.choice = text.choice /\ Arm(text.choice, now)
    BY <1>1 DEF LoadSettles
  <2> QED
    BY <1>0, <2>1, ChoiceIs, ArmedIsForTheChoice
<1>2. ASSUME NEW c \in Schedules, Set(c) PROVE SlotInv'
  <2>1. state'.choice = c /\ Arm(c, now)
    BY <1>0, <1>2, ChoiceIs DEF Set, Save
  <2> QED
    BY <1>0, <2>1, ChoiceIs, ArmedIsForTheChoice
<1>3. CASE FireRefused \/ FireStarts
  <2>1. state'.choice = state.choice
    BY <1>0, <1>3, ChoiceIs DEF FireRefused, FireStarts, Save
  <2>2. PICK from \in Nat : Arm(state.choice, from)
    BY <1>0, <1>3, NextAfterTheSlot DEF FireRefused, FireStarts
  <2> QED
    BY <1>0, <2>1, <2>2, ChoiceIs, ArmedIsForTheChoice
<1>4. CASE RunningScanEnds
  <2>1. state'.choice = state.choice /\ UNCHANGED <<timer, due, load, stopped>>
    BY <1>0, <1>4, ChoiceIs DEF RunningScanEnds, Save
  <2> QED
    BY <2>1 DEF SlotInv, TimerIsForTheChoice
<1>5. CASE Stop \/ Restart
  BY <1>5 DEF Stop, Restart, SlotInv, TimerIsForTheChoice, NoSlot
<1>6. CASE LoadReads \/ OtherScan \/ Write \/ Tick \/ UNCHANGED scheduleVars
  <2>1. UNCHANGED <<state, timer, due, stopped>> /\ (load' = load \/ load' = "read")
    BY <1>6 DEF LoadReads, OtherScan, Write, Tick, scheduleVars
  <2> QED
    BY <2>1 DEF SlotInv, TimerIsForTheChoice
<1> QED
  BY <1>1, <1>2, <1>3, <1>4, <1>5, <1>6 DEF ScheduleNext

(* The timer is always that of the next slot of the choice, and of no      *)
(* other (schedule.ts:127-134).                                            *)
THEOREM SlotsAlways ==
  ASSUME ~SetBeforeLoad PROVE ScheduleSpec => [](SlotInv /\ TimerIsForTheChoice)
<1>1. ScheduleInit => SlotInv
  BY DEF ScheduleInit, StartsWith, SlotInv, TimerIsForTheChoice, NoSlot
<1>2. SlotInv => TimerIsForTheChoice
  BY DEF SlotInv
<1> QED
  BY <1>1, <1>2, SlotStep, ScheduleAlways, PTL DEF ScheduleSpec

(* The schedule is what its owner chose: saved in order, the timer for it, *)
(* no slot fired twice or left out, no record of a run lost                *)
(* (schedule.ts:112-187).                                                  *)
THEOREM ScheduleIsKept ==
  ASSUME ~SetBeforeLoad PROVE ScheduleSpec => ScheduleKeeps
<1>1. ScheduleInv /\ SlotInv /\ [ScheduleNext]_scheduleVars =>
        [/\ FireRefused \/ FireStarts =>
              LET from == IF now > timer THEN now ELSE timer
              IN  IF timer' = NoSlot THEN state.choice.frequency = "off"
                  ELSE timer' > from /\ \A u \in (from + 1)..(timer' - 1) : ~IsSlot(state.choice, u)
         /\ file.lastRun # NoRun => file'.lastRun # NoRun]_scheduleVars
  <2> SUFFICES ASSUME ScheduleInv, SlotInv, [ScheduleNext]_scheduleVars
               PROVE  /\ FireRefused \/ FireStarts =>
                           LET from == IF now > timer THEN now ELSE timer
                           IN  IF timer' = NoSlot THEN state.choice.frequency = "off"
                               ELSE timer' > from /\ \A u \in (from + 1)..(timer' - 1) : ~IsSlot(state.choice, u)
                      /\ file.lastRun # NoRun => file'.lastRun # NoRun
    OBVIOUS
  <2>1. file.lastRun # NoRun => file'.lastRun # NoRun
    BY FileMovesOn DEF IsNewer
  <2> QED
    BY <2>1, FiresOnce DEF ScheduleInv
<1> QED
  BY <1>1, ScheduleAlways, SlotsAlways, AllIsSaved, RunsAreKept, PTL DEF ScheduleSpec, ScheduleKeeps, NoSlotOrRunIsLost

-----------------------------------------------------------------------------
(* The scan history. What a running archive knows (history.ts:84-117):     *)
(* where it is says what it has copied, read and still has to remove.      *)
Places == {"waiting", "copying", "copied", "read", "indexed"}
HistoryTypeOK ==
  /\ index \in Seq(Nat) /\ chain \in Seq(Nat) /\ nextIndex \in Seq(Nat) /\ dropped \in Seq(Nat)
  /\ scans \in Nat /\ archiving \in Places /\ folders \subseteq Nat /\ whole \subseteq folders
  /\ reader \in [at : {"none", "found", "current", "done", "failed"}, id : Nat, previous : Nat]

(* An id is older than one still to be archived, but for that of the       *)
(* archive that runs, once the step is past that makes it so.              *)
Before(id, i, from) == id < chain[i] \/ (i = 1 /\ id = chain[1] /\ archiving \in from)
OrderInv ==
  /\ archiving # "waiting" => chain # <<>>
  /\ \A i \in DOMAIN chain : chain[i] \in 1..scans /\ \A j \in DOMAIN chain : i < j => chain[i] < chain[j]
  /\ \A id \in folders : id <= scans /\ \A i \in DOMAIN chain : Before(id, i, {"copying", "copied", "read", "indexed"})
  /\ \A k \in DOMAIN index : \A i \in DOMAIN chain : Before(index[k], i, {"indexed"})
  /\ reader.at # "none" => /\ reader.id <= scans
                           /\ \A i \in DOMAIN chain : Before(reader.id, i, {"indexed"})
                           /\ reader.previous < reader.id

(* pruneIndex: the new entry, then what was indexed, in the same order; the*)
(* rest is to be removed, unless the old index could not be read.          *)
NextIs ==
  /\ Len(nextIndex) \in 1..Keep /\ nextIndex[1] = chain[1]
  /\ \A i \in 2..Len(nextIndex) : i - 1 \in DOMAIN index /\ nextIndex[i] = index[i - 1]
  /\ \A k \in DOMAIN index : index[k] \in ToSet(nextIndex) \cup ToSet(dropped) \cup orphans
  /\ ToSet(dropped) \cap ToSet(nextIndex) = {}

ArchiveInv ==
  /\ archiving = "copying" => chain[1] \in folders
  /\ archiving \in {"copied", "read", "indexed"} => chain[1] \in whole
  /\ archiving = "read" => NextIs
  /\ archiving = "indexed" => chain[1] \in ToSet(index) /\ ToSet(dropped) \cap ToSet(index) = {}
  /\ archiving \notin {"read", "indexed"} => dropped = <<>>

HistoryInv == HistoryTypeOK /\ OrderInv /\ ArchiveInv /\ HistoryHolds

LEMMA HistoryBegins == HistoryInit => HistoryInv
<1> SUFFICES ASSUME HistoryInit PROVE HistoryInv
  OBVIOUS
<1>1. DOMAIN index = {} /\ Len(index) = 0 /\ Keep \in Nat /\ DOMAIN chain = {}
  BY HistoryAssumption DEF HistoryInit
<1>2. HistoryTypeOK
  BY DEF HistoryInit, HistoryTypeOK, NoReader, Places
<1>3. OrderInv /\ ArchiveInv
  BY <1>1 DEF HistoryInit, OrderInv, ArchiveInv, NoReader
<1>4. HistoryHolds
  BY <1>1 DEF HistoryInit, HistoryHolds, IndexedAreThere, FoldersAreNamed, ChangesAreOfTheScanBefore, NoReader, ToSet
<1> QED
  BY <1>2, <1>3, <1>4 DEF HistoryInv

LEMMA ToSetIs ==
  ASSUME NEW s \in Seq(Nat)
  PROVE  /\ DOMAIN s = 1..Len(s) /\ Len(s) \in Nat /\ ToSet(s) \subseteq Nat
         /\ \A e : e \in ToSet(s) <=> \E i \in DOMAIN s : s[i] = e
<1>1. DOMAIN s = 1..Len(s) /\ Len(s) \in Nat /\ \A i \in DOMAIN s : s[i] \in Nat
  OBVIOUS
<1> QED
  BY <1>1 DEF ToSet

LEMMA Rests ==
  ASSUME NEW s \in Seq(Nat), s # <<>>
  PROVE  /\ Tail(s) \in Seq(Nat) /\ Head(s) = s[1] /\ s[1] \in Nat /\ 1 \in DOMAIN s
         /\ \A i \in DOMAIN Tail(s) : i \in Nat \ {0} /\ i + 1 \in DOMAIN s /\ Tail(s)[i] = s[i + 1]
         /\ \A e : e \in ToSet(s) => e = s[1] \/ e \in ToSet(Tail(s))
         /\ ToSet(Tail(s)) \subseteq ToSet(s) /\ s[1] \in ToSet(s)
<1>1. /\ Tail(s) \in Seq(Nat) /\ Head(s) = s[1] /\ s[1] \in Nat /\ Len(s) \in Nat \ {0}
      /\ DOMAIN Tail(s) = 1..(Len(s) - 1) /\ DOMAIN s = 1..Len(s)
  OBVIOUS
<1>2. \A i \in DOMAIN Tail(s) : i \in Nat \ {0} /\ i + 1 \in DOMAIN s /\ Tail(s)[i] = s[i + 1]
  BY <1>1
<1>3. \A k \in DOMAIN s : k = 1 \/ (k - 1 \in DOMAIN Tail(s) /\ Tail(s)[k - 1] = s[k])
  BY <1>1
<1>4. 1 \in DOMAIN s
  BY <1>1
<1>5. /\ \A e : e \in ToSet(s) <=> \E i \in DOMAIN s : s[i] = e
      /\ \A e : e \in ToSet(Tail(s)) <=> \E i \in DOMAIN Tail(s) : Tail(s)[i] = e
  BY <1>1, ToSetIs
<1>6. \A e : e \in ToSet(s) => e = s[1] \/ e \in ToSet(Tail(s))
  BY <1>3, <1>5, Zenon
<1>7. ToSet(Tail(s)) \subseteq ToSet(s) /\ s[1] \in ToSet(s)
  BY <1>2, <1>4, <1>5, Zenon
<1> QED
  BY <1>1, <1>2, <1>4, <1>6, <1>7

(* pruneIndex (history.ts:70-73) for an id newer than all.                 *)
IsPruned(old, id, next, rest) ==
  /\ next \in Seq(Nat) /\ rest \in Seq(Nat) /\ Len(next) \in 1..Keep /\ next[1] = id
  /\ \A i \in 2..Len(next) : i - 1 \in DOMAIN old /\ next[i] = old[i - 1]
  /\ \A k \in DOMAIN old : old[k] \in ToSet(next) \cup ToSet(rest)
  /\ ToSet(rest) \cap ToSet(next) = {}

LEMMA PrunedIs ==
  ASSUME NEW old \in Seq(Nat), NEW id \in Nat, \A k \in DOMAIN old : old[k] < id,
         \A i, j \in DOMAIN old : i < j => old[i] > old[j]
  PROVE  IsPruned(old, id, Pruned(old, id).index, Pruned(old, id).dropped)
<1> DEFINE all == <<id>> \o old
           next == Pruned(old, id).index
           rest == Pruned(old, id).dropped
<1>1. id \notin ToSet(old)
  BY ToSetIs
<1>2. PICK n \in Nat : n = Len(old) /\ DOMAIN old = 1..n
  OBVIOUS
<1>3. <<id>> \in Seq(Nat) /\ Len(<<id>>) = 1 /\ <<id>>[1] = id
  OBVIOUS
<1>4. /\ all \in Seq(Nat) /\ Len(all) = n + 1
      /\ \A i \in 1..(n + 1) : all[i] = IF i <= 1 THEN <<id>>[i] ELSE old[i - 1]
  BY <1>2, <1>3, ConcatProperties
<1>5. all[1] = id /\ (\A i \in 2..(n + 1) : i - 1 \in 1..n /\ all[i] = old[i - 1]) /\ \A i \in 1..(n + 1) : all[i] \in Nat
  <2>1. 1 \in 1..(n + 1) /\ \A i \in 2..(n + 1) : i \in 1..(n + 1) /\ ~(i <= 1)
    BY <1>2
  <2>2. all[1] = id /\ \A i \in 2..(n + 1) : all[i] = old[i - 1]
    BY <1>3, <1>4, <2>1
  <2>3. \A i \in 1..(n + 1) : all[i] \in Nat
    BY <1>4, ElementOfSeq
  <2> QED
    BY <1>2, <2>2, <2>3
<1>6. PICK kept \in 1..(n + 1) : kept = (IF n + 1 < Keep THEN n + 1 ELSE Keep) /\ kept <= Keep
  BY <1>2, HistoryAssumption
<1>7. next = SubSeq(all, 1, kept) /\ rest = SubSeq(all, kept + 1, n + 1)
  BY <1>1, <1>4, <1>6 DEF Pruned, Without
<1> HIDE DEF all, next, rest
<1>8. /\ next \in Seq(Nat) /\ Len(next) = kept /\ \A i \in 1..kept : next[i] = all[i]
  <2>1. \A i \in 1..kept : all[i] \in Nat
    BY <1>5, <1>6
  <2>2. /\ next \in Seq(Nat) /\ Len(next) = IF 1 <= kept THEN kept - 1 + 1 ELSE 0
        /\ \A i \in 1..(kept - 1 + 1) : next[i] = all[1 + i - 1]
    BY <1>7, <2>1, SubSeqProperties
  <2>3. kept - 1 + 1 = kept /\ 1 <= kept /\ \A i \in 1..kept : 1 + i - 1 = i
    BY <1>6
  <2> QED
    BY <2>2, <2>3
<1>9. /\ rest \in Seq(Nat) /\ Len(rest) = n + 1 - kept /\ n + 1 - kept \in Nat
      /\ \A i \in 1..(n + 1 - kept) : rest[i] = all[kept + i]
  <2>1. \A i \in (kept + 1)..(n + 1) : all[i] \in Nat
    BY <1>5, <1>6
  <2>2. /\ rest \in Seq(Nat) /\ Len(rest) = IF kept + 1 <= n + 1 THEN n + 1 - (kept + 1) + 1 ELSE 0
        /\ \A i \in 1..(n + 1 - (kept + 1) + 1) : rest[i] = all[kept + 1 + i - 1]
    BY <1>7, <2>1, SubSeqProperties
  <2>3. /\ n + 1 - (kept + 1) + 1 = n + 1 - kept /\ n + 1 - kept \in Nat
        /\ \A i \in Int : kept + 1 + i - 1 = kept + i
        /\ ~(kept + 1 <= n + 1) => n + 1 - kept = 0
    <3>1. kept \in Int /\ n \in Int /\ kept <= n + 1 /\ 1 <= kept
      OBVIOUS
    <3> QED
      BY <3>1
  <2>4. Len(rest) = n + 1 - kept
    <3>1. CASE kept + 1 <= n + 1
      BY <2>2, <2>3, <3>1
    <3>2. CASE ~(kept + 1 <= n + 1)
      BY <2>2, <2>3, <3>2
    <3> QED
      BY <3>1, <3>2
  <2>5. \A i \in 1..(n + 1 - kept) : rest[i] = all[kept + i]
    <3> SUFFICES ASSUME NEW i \in 1..(n + 1 - kept) PROVE rest[i] = all[kept + i]
      OBVIOUS
    <3>1. i \in 1..(n + 1 - (kept + 1) + 1) /\ kept + 1 + i - 1 = kept + i
      BY <2>3
    <3>2. rest[i] = all[kept + 1 + i - 1]
      BY <2>2, <3>1
    <3> QED
      BY <3>1, <3>2
  <2> QED
    BY <2>2, <2>3, <2>4, <2>5
<1>10. \A i, j \in 1..(n + 1) : i < j => all[i] > all[j]
  <2> SUFFICES ASSUME NEW i \in 1..(n + 1), NEW j \in 1..(n + 1), i < j PROVE all[i] > all[j]
    OBVIOUS
  <2>1. j \in 2..(n + 1)
    BY <1>2
  <2>2. all[j] = old[j - 1] /\ j - 1 \in 1..n
    BY <1>5, <2>1
  <2>3. CASE i = 1
    BY <1>2, <1>5, <2>2, <2>3
  <2>4. CASE i \in 2..(n + 1)
    <3>1. all[i] = old[i - 1] /\ i - 1 \in 1..n /\ i - 1 < j - 1
      BY <1>5, <2>4
    <3> QED
      BY <1>2, <2>2, <3>1
  <2> QED
    BY <1>2, <2>3, <2>4
<1>11. \A i \in 1..kept : \A j \in 1..(n + 1 - kept) : next[i] # rest[j]
  <2> SUFFICES ASSUME NEW i \in 1..kept, NEW j \in 1..(n + 1 - kept) PROVE next[i] # rest[j]
    OBVIOUS
  <2>1. i \in 1..(n + 1) /\ kept + j \in 1..(n + 1) /\ i < kept + j
    BY <1>2, <1>6
  <2>2. all[i] > all[kept + j]
    BY <1>10, <2>1
  <2>3. all[i] \in Nat /\ all[kept + j] \in Nat
    BY <1>5, <2>1
  <2>4. next[i] = all[i]
    BY <1>8
  <2>5. rest[j] = all[kept + j]
    BY <1>9
  <2> QED
    BY <2>2, <2>3, <2>4, <2>5
<1>12. DOMAIN next = 1..kept /\ DOMAIN rest = 1..(n + 1 - kept)
  BY <1>8, <1>9
<1>13. \A k \in 1..n : old[k] \in ToSet(next) \cup ToSet(rest)
  <2> SUFFICES ASSUME NEW k \in 1..n PROVE old[k] \in ToSet(next) \cup ToSet(rest)
    OBVIOUS
  <2>1. k + 1 \in 2..(n + 1) /\ (k + 1) - 1 = k
    BY <1>2
  <2>2. all[k + 1] = old[k]
    BY <1>5, <2>1
  <2>3. CASE k + 1 \in 1..kept
    BY <1>8, <1>12, <2>2, <2>3, ToSetIs
  <2>4. CASE k + 1 - kept \in 1..(n + 1 - kept)
    <3>1. rest[k + 1 - kept] = all[k + 1]
      <4>1. kept + (k + 1 - kept) = k + 1
        BY <1>6
      <4>2. rest[k + 1 - kept] = all[kept + (k + 1 - kept)]
        BY <1>9, <2>4
      <4> QED
        BY <4>1, <4>2
    <3> QED
      BY <1>9, <1>12, <2>2, <2>4, <3>1, ToSetIs
  <2> QED
    BY <1>2, <1>6, <2>3, <2>4
<1>14. ToSet(rest) \cap ToSet(next) = {}
  BY <1>8, <1>9, <1>11, <1>12, ToSetIs
<1>15. \A i \in 2..Len(next) : i - 1 \in DOMAIN old /\ next[i] = old[i - 1]
  <2> SUFFICES ASSUME NEW i \in 2..kept PROVE i - 1 \in DOMAIN old /\ next[i] = old[i - 1]
    BY <1>8
  <2>1. i \in 2..(n + 1) /\ i \in 1..kept
    BY <1>6
  <2> QED
    BY <1>2, <1>5, <1>8, <2>1
<1>16. Len(next) \in 1..Keep /\ next[1] = id
  BY <1>5, <1>6, <1>8, HistoryAssumption
<1>17. IsPruned(old, id, next, rest)
  BY <1>2, <1>8, <1>9, <1>13, <1>14, <1>15, <1>16 DEF IsPruned
<1> QED
  BY <1>17 DEF next, rest

-----------------------------------------------------------------------------
(* The archive that runs is the first of the chain.                        *)
LEMMA ChainIs ==
  ASSUME HistoryInv
  PROVE  /\ chain \in Seq(Nat) /\ DOMAIN chain = 1..Len(chain) /\ Len(chain) \in Nat /\ (chain = <<>> <=> Len(chain) = 0)
         /\ chain # <<>> => Head(chain) = chain[1] /\ chain[1] \in Nat /\ 1 \in DOMAIN chain
         /\ archiving # "waiting" => chain # <<>>
         /\ index \in Seq(Nat) /\ DOMAIN index = 1..Len(index) /\ Len(index) \in Nat
<1>1. chain \in Seq(Nat) /\ index \in Seq(Nat)
  BY DEF HistoryInv, HistoryTypeOK
<1>2. DOMAIN chain = 1..Len(chain) /\ Len(chain) \in Nat /\ (chain = <<>> <=> Len(chain) = 0)
  BY <1>1
<1>3. chain # <<>> => Head(chain) = chain[1] /\ chain[1] \in Nat /\ 1 \in DOMAIN chain
  BY <1>1, Rests
<1>4. DOMAIN index = 1..Len(index) /\ Len(index) \in Nat
  BY <1>1
<1> QED
  BY <1>1, <1>2, <1>3, <1>4 DEF HistoryInv, OrderInv

LEMMA LeftIs ==
  ASSUME HistoryInv
  PROVE  Left = (ToSet(dropped) \cup (IF archiving = "waiting" THEN {} ELSE {chain[1]})) \ ToSet(index)
BY ChainIs DEF Left

(* An archive that ends in any way lets the next one be the first; those   *)
(* that waited are all later than what is there.                           *)
LEMMA EndOrders ==
  ASSUME HistoryInv, archiving' = "waiting", chain' = <<>> \/ (chain # <<>> /\ chain' = Tail(chain)),
         UNCHANGED <<index, folders, scans>>, reader' = reader \/ reader' = NoReader
  PROVE  OrderInv' /\ chain' \in Seq(Nat)
<1>1. CASE chain' = <<>>
  <2>1. DOMAIN chain' = {} /\ chain' \in Seq(Nat)
    BY <1>1
  <2> QED
    BY <2>1 DEF HistoryInv, OrderInv, NoReader
<1>2. CASE chain # <<>> /\ chain' = Tail(chain)
  <2>1. /\ chain' \in Seq(Nat) /\ 1 \in DOMAIN chain
        /\ \A i \in DOMAIN chain' : i \in Nat \ {0} /\ i + 1 \in DOMAIN chain /\ chain'[i] = chain[i + 1]
    BY <1>2, ChainIs, Rests
  <2>2. ASSUME NEW i \in DOMAIN chain'
        PROVE  /\ i + 1 \in DOMAIN chain /\ i + 1 # 1 /\ chain'[i] = chain[i + 1]
               /\ chain'[i] \in 1..scans' /\ \A j \in DOMAIN chain' : i < j => chain'[i] < chain'[j]
    <3>1. i + 1 \in DOMAIN chain /\ i + 1 # 1 /\ chain'[i] = chain[i + 1]
      BY <2>1
    <3>2. ASSUME NEW j \in DOMAIN chain', i < j PROVE chain'[i] < chain'[j]
      <4>1. j + 1 \in DOMAIN chain /\ chain'[j] = chain[j + 1] /\ i + 1 < j + 1
        BY <2>1, <3>2
      <4> QED
        BY <3>1, <4>1 DEF HistoryInv, OrderInv
    <3> QED
      BY <3>1, <3>2 DEF HistoryInv, OrderInv
  <2>3. ASSUME NEW id, NEW from, \A i \in DOMAIN chain : Before(id, i, from)
        PROVE  \A i \in DOMAIN chain' : \A to : Before(id, i, to)'
    BY <2>2, <2>3 DEF Before
  <2>4. \A i \in DOMAIN chain' : chain'[i] \in 1..scans' /\ \A j \in DOMAIN chain' : i < j => chain'[i] < chain'[j]
    BY <2>2
  <2>5. \A id \in folders' : id <= scans' /\ \A i \in DOMAIN chain' : Before(id, i, {"copying", "copied", "read", "indexed"})'
    BY <2>3 DEF HistoryInv, OrderInv
  <2>6. \A k \in DOMAIN index' : \A i \in DOMAIN chain' : Before(index[k], i, {"indexed"})'
    BY <2>3 DEF HistoryInv, OrderInv
  <2>7. reader'.at # "none" => /\ reader'.id <= scans' /\ \A i \in DOMAIN chain' : Before(reader.id, i, {"indexed"})'
                               /\ reader'.previous < reader'.id
    <3>1. reader'.at # "none" => reader' = reader
      BY DEF NoReader
    <3> QED
      BY <2>3, <3>1 DEF HistoryInv, OrderInv
  <2> QED
    BY <2>1, <2>4, <2>5, <2>6, <2>7 DEF OrderInv
<1> QED
  BY <1>1, <1>2

(* A scan joins the chain: its id is later than all.                       *)
LEMMA ScanArchivesKeeps == ASSUME HistoryInv, ScanArchives PROVE HistoryInv'
<1>0. UNCHANGED <<index, folders, whole, archiving, nextIndex, dropped, reader, orphans, faults>>
  BY DEF ScanArchives
<1>1. scans \in Nat /\ scans' = scans + 1 /\ scans' \in Nat /\ chain' = Append(chain, scans')
  BY DEF ScanArchives, HistoryInv, HistoryTypeOK
<1>2. /\ chain' \in Seq(Nat) /\ DOMAIN chain' = 1..(Len(chain) + 1) /\ chain'[Len(chain) + 1] = scans'
      /\ \A i \in DOMAIN chain : chain'[i] = chain[i]
  BY <1>1, ChainIs
<1>3. /\ chain' # <<>> /\ Head(chain') = chain'[1]
      /\ chain # <<>> => chain'[1] = chain[1] /\ Head(chain') = Head(chain)
  <2>1. chain' # <<>>
    BY <1>2, ChainIs
  <2> QED
    BY <1>2, <2>1, ChainIs, Rests
<1>4. ASSUME NEW i \in DOMAIN chain' PROVE (i \in DOMAIN chain /\ chain'[i] = chain[i]) \/ (i = Len(chain) + 1 /\ chain'[i] = scans')
  BY <1>2, ChainIs
<1>5. \A i \in DOMAIN chain : chain[i] \in 1..scans /\ \A j \in DOMAIN chain : i < j => chain[i] < chain[j]
  BY DEF HistoryInv, OrderInv
<1>6. \A i \in DOMAIN chain' : chain'[i] \in 1..scans'
  BY <1>1, <1>4, <1>5
<1>7. \A i, j \in DOMAIN chain' : i < j => chain'[i] < chain'[j]
  <2> SUFFICES ASSUME NEW i \in DOMAIN chain', NEW j \in DOMAIN chain', i < j PROVE chain'[i] < chain'[j]
    OBVIOUS
  <2>1. i \in DOMAIN chain /\ chain'[i] = chain[i]
    BY <1>2, <1>4, ChainIs
  <2> QED
    BY <1>1, <1>4, <1>5, <2>1
<1>8. ASSUME NEW id \in Nat, NEW from, id <= scans, \A i \in DOMAIN chain : Before(id, i, from)
      PROVE  \A i \in DOMAIN chain' : Before(id, i, from)'
  <2> SUFFICES ASSUME NEW i \in DOMAIN chain' PROVE Before(id, i, from)'
    OBVIOUS
  <2>1. CASE i \in DOMAIN chain /\ chain'[i] = chain[i]
    <3>1. chain # <<>> /\ chain'[1] = chain[1]
      BY <1>3, <2>1
    <3> QED
      BY <1>0, <1>8, <2>1, <3>1 DEF Before
  <2>2. CASE chain'[i] = scans'
    BY <1>1, <1>8, <2>2 DEF Before
  <2> QED
    BY <1>4, <2>1, <2>2
<1>9. \A k \in DOMAIN index : index[k] \in Nat /\ index[k] <= scans
  <2>1. \A k \in DOMAIN index : index[k] \in folders
    BY ToSetIs, ChainIs DEF HistoryInv, HistoryTypeOK, HistoryHolds, IndexedAreThere
  <2> QED
    BY <2>1 DEF HistoryInv, HistoryTypeOK, OrderInv
<1>10. reader.id \in Nat
  BY DEF HistoryInv, HistoryTypeOK
<1>11. \A id \in folders : id \in Nat /\ id <= scans'
  BY <1>1 DEF HistoryInv, HistoryTypeOK, OrderInv
<1>12. \A id \in folders' : id <= scans' /\ \A i \in DOMAIN chain' : Before(id, i, {"copying", "copied", "read", "indexed"})'
  BY <1>0, <1>8, <1>11 DEF HistoryInv, OrderInv
<1>13. \A k \in DOMAIN index' : \A i \in DOMAIN chain' : Before(index[k], i, {"indexed"})'
  BY <1>0, <1>8, <1>9 DEF HistoryInv, OrderInv
<1>14. reader'.at # "none" => /\ reader'.id <= scans' /\ \A i \in DOMAIN chain' : Before(reader.id, i, {"indexed"})'
                              /\ reader'.previous < reader'.id
  BY <1>0, <1>1, <1>8, <1>10 DEF HistoryInv, OrderInv
<1>15. OrderInv'
  BY <1>3, <1>6, <1>7, <1>12, <1>13, <1>14 DEF OrderInv
<1>16. ArchiveInv'
  BY <1>0, <1>3, ChainIs DEF HistoryInv, ArchiveInv, NextIs
<1>17. Left' = Left
  BY <1>0, <1>3, ChainIs DEF Left
<1>18. HistoryTypeOK'
  BY <1>0, <1>1, <1>2 DEF HistoryInv, HistoryTypeOK
<1> QED
  BY <1>0, <1>15, <1>16, <1>17, <1>18 DEF HistoryInv, HistoryHolds, IndexedAreThere, FoldersAreNamed, ChangesAreOfTheScanBefore

(* The folder and its files are there before the index names them.         *)
LEMMA CopyKeeps == ASSUME HistoryInv, MakesFolder \/ Copies PROVE HistoryInv'
<1>0. /\ UNCHANGED <<index, chain, nextIndex, dropped, reader, scans, orphans, faults>>
      /\ chain # <<>> /\ Head(chain) = chain[1] /\ chain[1] \in Nat /\ 1 \in DOMAIN chain
  BY ChainIs DEF MakesFolder, Copies
<1>1. \A i \in DOMAIN chain : i \in Nat /\ chain[i] \in Nat /\ (i # 1 => chain[1] < chain[i])
  <2>1. DOMAIN chain = 1..Len(chain) /\ Len(chain) \in Nat
    BY ChainIs
  <2>2. \A i \in DOMAIN chain : i \in Nat /\ chain[i] \in Nat /\ (i # 1 => 1 < i)
    BY <2>1, ChainIs
  <2> QED
    BY <1>0, <2>2 DEF HistoryInv, OrderInv
<1>2. CASE MakesFolder
  <2>1. archiving = "waiting" /\ archiving' = "copying" /\ folders' = folders \cup {chain[1]} /\ whole' = whole
    BY <1>0, <1>2 DEF MakesFolder, Waiting
  <2>2. OrderInv'
    BY <1>0, <1>1, <2>1 DEF HistoryInv, OrderInv, Before
  <2>3. ArchiveInv' /\ HistoryTypeOK'
    BY <1>0, <2>1 DEF HistoryInv, ArchiveInv, HistoryTypeOK, Places
  <2>4. Left \subseteq Left' /\ chain[1] \in ToSet(index') \cup Left'
    BY <1>0, <2>1 DEF Left
  <2>5. IndexedAreThere' /\ FoldersAreNamed' /\ ChangesAreOfTheScanBefore'
    BY <1>0, <2>1, <2>4 DEF HistoryInv, HistoryHolds, IndexedAreThere, FoldersAreNamed, ChangesAreOfTheScanBefore
  <2> QED
    BY <2>2, <2>3, <2>5 DEF HistoryInv, HistoryHolds
<1>3. CASE Copies
  <2>1. archiving = "copying" /\ archiving' = "copied" /\ whole' = whole \cup {chain[1]} /\ folders' = folders
    BY <1>0, <1>3 DEF Copies
  <2>2. OrderInv'
    BY <1>0, <2>1 DEF HistoryInv, OrderInv, Before
  <2>3. ArchiveInv' /\ HistoryTypeOK'
    BY <1>0, <2>1 DEF HistoryInv, ArchiveInv, HistoryTypeOK, Places
  <2>4. Left' = Left
    BY <1>0, <2>1 DEF Left
  <2>5. IndexedAreThere' /\ FoldersAreNamed' /\ ChangesAreOfTheScanBefore'
    BY <1>0, <2>1, <2>4 DEF HistoryInv, HistoryHolds, IndexedAreThere, FoldersAreNamed, ChangesAreOfTheScanBefore
  <2> QED
    BY <2>2, <2>3, <2>5 DEF HistoryInv, HistoryHolds
<1> QED
  BY <1>2, <1>3

(* The new index is what the old one was, after the new entry.             *)
LEMMA ReadsIndexKeeps == ASSUME HistoryInv, ReadsIndex PROVE HistoryInv'
<1>0. /\ archiving = "copied" /\ archiving' = "read" /\ UNCHANGED <<index, folders, whole, chain, reader, scans>>
      /\ chain # <<>> /\ Head(chain) = chain[1] /\ chain[1] \in Nat /\ 1 \in DOMAIN chain /\ dropped = <<>>
  BY ChainIs DEF ReadsIndex, HistoryInv, ArchiveInv
<1>1. PICK old \in {index, <<>>} :
        /\ orphans' = orphans \cup (ToSet(index) \ ToSet(old))
        /\ nextIndex' = Pruned(old, chain[1]).index /\ dropped' = Pruned(old, chain[1]).dropped
  BY <1>0 DEF ReadsIndex
<1>2. \A k \in DOMAIN index : index[k] < chain[1]
  BY <1>0 DEF HistoryInv, OrderInv, Before
<1>3. old \in Seq(Nat) /\ (old = index \/ (old = <<>> /\ DOMAIN old = {} /\ ToSet(old) = {}))
  <2>1. <<>> \in Seq(Nat) /\ DOMAIN <<>> = {}
    OBVIOUS
  <2>2. ToSet(<<>>) = {}
    BY DEF ToSet
  <2> QED
    BY <1>1, <2>1, <2>2, ChainIs
<1>4. \A i, j \in DOMAIN old : i < j => old[i] > old[j]
  BY <1>3 DEF HistoryInv, HistoryHolds, IndexedAreThere
<1>5. \A k \in DOMAIN old : old[k] < chain[1]
  BY <1>2, <1>3
<1>6. IsPruned(old, chain[1], nextIndex', dropped')
  BY <1>0, <1>1, <1>3, <1>4, <1>5, PrunedIs
<1>7. \A k \in DOMAIN index : index[k] \in ToSet(nextIndex') \cup ToSet(dropped') \cup orphans'
  <2>1. CASE old = index
    BY <1>6, <2>1 DEF IsPruned
  <2>2. CASE ToSet(old) = {}
    BY <1>1, <2>2, ToSetIs, ChainIs
  <2> QED
    BY <1>3, <2>1, <2>2
<1>8. \A i \in 2..Len(nextIndex') : i - 1 \in DOMAIN index /\ nextIndex'[i] = index[i - 1]
  BY <1>3, <1>6 DEF IsPruned
<1>9. NextIs'
  BY <1>0, <1>6, <1>7, <1>8 DEF NextIs, IsPruned
<1>10. ArchiveInv'
  BY <1>0, <1>9 DEF HistoryInv, ArchiveInv
<1>11. HistoryTypeOK'
  BY <1>0, <1>6 DEF HistoryInv, HistoryTypeOK, IsPruned, Places
<1>12. OrderInv'
  BY <1>0 DEF HistoryInv, OrderInv, Before
<1>13. Left \subseteq Left' /\ orphans \subseteq orphans'
  <2>1. ToSet(dropped) = {}
    BY <1>0 DEF ToSet
  <2> QED
    BY <1>0, <1>1, <2>1 DEF Left
<1>14. IndexedAreThere' /\ FoldersAreNamed' /\ ChangesAreOfTheScanBefore'
  BY <1>0, <1>13 DEF HistoryInv, HistoryHolds, IndexedAreThere, FoldersAreNamed, ChangesAreOfTheScanBefore
<1> QED
  BY <1>10, <1>11, <1>12, <1>14 DEF HistoryInv, HistoryHolds

(* The index is replaced whole: what a reader compared a scan with is still*)
(* the one before it, or the scan is no longer there.                      *)
LEMMA WritesIndexKeeps == ASSUME HistoryInv, WritesIndex PROVE HistoryInv'
<1>0. /\ archiving = "read" /\ archiving' = "indexed" /\ index' = nextIndex /\ nextIndex' = <<>>
      /\ UNCHANGED <<folders, whole, chain, dropped, reader, scans, orphans, faults>>
      /\ chain # <<>> /\ Head(chain) = chain[1] /\ chain[1] \in Nat /\ 1 \in DOMAIN chain
  BY ChainIs DEF WritesIndex
<1>1. NextIs /\ chain[1] \in whole
  BY <1>0 DEF HistoryInv, ArchiveInv
<1>2. PICK n \in Nat \ {0} : n = Len(index') /\ DOMAIN index' = 1..n /\ n <= Keep
  BY <1>0, <1>1, HistoryAssumption DEF NextIs, HistoryInv, HistoryTypeOK
<1>3. index' \in Seq(Nat) /\ index'[1] = chain[1] /\ \A i \in 2..n : i - 1 \in DOMAIN index /\ index'[i] = index[i - 1]
  BY <1>0, <1>1, <1>2 DEF NextIs, HistoryInv, HistoryTypeOK
<1>4. \A k \in DOMAIN index : index[k] < chain[1] /\ index[k] \in Nat /\ index[k] \in whole
  <2>1. \A k \in DOMAIN index : index[k] < chain[1]
    BY <1>0 DEF HistoryInv, OrderInv, Before
  <2>2. \A k \in DOMAIN index : index[k] \in ToSet(index) /\ index[k] \in Nat
    BY ChainIs, ToSetIs
  <2> QED
    BY <2>1, <2>2 DEF HistoryInv, HistoryHolds, IndexedAreThere
<1>5. \A e \in ToSet(index') : e = chain[1] \/ \E k \in DOMAIN index : e = index[k]
  <2>1. \A e \in ToSet(index') : \E i \in 1..n : index'[i] = e
    BY <1>2, <1>3, ToSetIs
  <2>2. \A i \in 1..n : i = 1 \/ i \in 2..n
    OBVIOUS
  <2> QED
    BY <1>3, <2>1, <2>2
<1>6. \A i, j \in DOMAIN index' : i < j => index'[i] > index'[j]
  <2> SUFFICES ASSUME NEW i \in 1..n, NEW j \in 1..n, i < j PROVE index'[i] > index'[j]
    BY <1>2
  <2>1. j \in 2..n
    OBVIOUS
  <2>2. index'[j] = index[j - 1] /\ j - 1 \in DOMAIN index
    BY <1>3, <2>1
  <2>3. CASE i = 1
    BY <1>0, <1>3, <1>4, <2>2, <2>3
  <2>4. CASE i \in 2..n
    <3>1. index'[i] = index[i - 1] /\ i - 1 \in DOMAIN index /\ i - 1 < j - 1
      BY <1>3, <2>4
    <3> QED
      BY <2>2, <3>1 DEF HistoryInv, HistoryHolds, IndexedAreThere
  <2> QED
    BY <2>3, <2>4
<1>7. IndexedAreThere'
  BY <1>0, <1>1, <1>2, <1>4, <1>5, <1>6 DEF IndexedAreThere
<1>8. FoldersAreNamed'
  <2>1. Left = (ToSet(dropped) \cup {chain[1]}) \ ToSet(index) /\ Left' = (ToSet(dropped) \cup {chain[1]}) \ ToSet(index')
    BY <1>0 DEF Left
  <2>2. ToSet(index) \subseteq ToSet(index') \cup ToSet(dropped) \cup orphans
    <3>1. \A e \in ToSet(index) : \E k \in DOMAIN index : index[k] = e
      BY ToSetIs, ChainIs
    <3> QED
      BY <1>0, <1>1, <3>1 DEF NextIs
  <2> QED
    BY <1>0, <2>1, <2>2 DEF HistoryInv, HistoryHolds, FoldersAreNamed
<1>9. ChangesAreOfTheScanBefore'
  <2>1. ASSUME reader.at # "none" PROVE reader.id < chain[1] /\ reader.previous < reader.id /\ reader.id \in Nat /\ reader.previous \in Nat
    BY <1>0, <2>1 DEF HistoryInv, HistoryTypeOK, OrderInv, Before
  <2>2. ASSUME NEW e \in Nat, e < chain[1], e \in ToSet(index') PROVE e \in ToSet(index)
    BY <1>0, <1>5, <2>2, ToSetIs, ChainIs
  <2>3. reader.at = "failed" => \/ reader.id \notin ToSet(index')
                                \/ reader.previous # 0 /\ reader.previous \notin ToSet(index')
    <3>1. reader.at = "failed" => \/ reader.id \notin ToSet(index)
                                  \/ reader.previous # 0 /\ reader.previous \notin ToSet(index)
      BY DEF HistoryInv, HistoryHolds, ChangesAreOfTheScanBefore
    <3>2. reader.at # "none" => reader.previous < chain[1]
      BY <1>0, <2>1
    <3> QED
      BY <2>1, <2>2, <3>1, <3>2
  <2>4. ASSUME NEW i \in 1..n, reader.at # "none", index'[i] = reader.id, i < n
        PROVE  reader.previous = index'[i + 1]
    <3>1. i \in 2..n
      BY <1>0, <1>3, <2>1, <2>4
    <3>2. i + 1 \in 2..n /\ (i + 1) - 1 = i /\ (i - 1) + 1 = i
      BY <2>4
    <3>3. i - 1 \in DOMAIN index /\ i \in DOMAIN index /\ index[i - 1] = reader.id /\ index'[i + 1] = index[i]
      <4>1. i - 1 \in DOMAIN index /\ index'[i] = index[i - 1]
        BY <1>3, <3>1
      <4>2. i \in DOMAIN index /\ index'[i + 1] = index[i]
        BY <1>3, <3>2
      <4> QED
        BY <2>4, <4>1, <4>2
    <3>4. i - 1 < Len(index)
      BY <3>3, ChainIs
    <3> QED
      BY <2>4, <3>2, <3>3, <3>4 DEF HistoryInv, HistoryHolds, ChangesAreOfTheScanBefore
  <2> QED
    BY <1>0, <1>2, <2>3, <2>4 DEF ChangesAreOfTheScanBefore
<1>10. OrderInv'
  <2>1. \A k \in DOMAIN index' : \A i \in DOMAIN chain : index'[k] < chain[i] \/ (i = 1 /\ index'[k] = chain[1])
    <3> SUFFICES ASSUME NEW k \in 1..n, NEW i \in DOMAIN chain
                 PROVE  index'[k] < chain[i] \/ (i = 1 /\ index'[k] = chain[1])
      BY <1>2
    <3>1. CASE k = 1
      <4>1. i = 1 \/ 1 < i
        BY ChainIs
      <4> QED
        BY <1>0, <1>3, <3>1, <4>1 DEF HistoryInv, OrderInv
    <3>2. CASE k \in 2..n
      <4>1. k - 1 \in DOMAIN index /\ index'[k] = index[k - 1]
        BY <1>3, <3>2
      <4> QED
        BY <1>0, <4>1 DEF HistoryInv, OrderInv, Before
    <3> QED
      BY <3>1, <3>2
  <2> QED
    BY <1>0, <2>1 DEF HistoryInv, OrderInv, Before
<1>11. ArchiveInv'
  <2>1. chain[1] \in ToSet(index') /\ ToSet(dropped) \cap ToSet(index') = {}
    <3>1. 1 \in 1..n
      OBVIOUS
    <3> QED
      BY <1>0, <1>1, <1>2, <1>3, <3>1, ToSetIs DEF NextIs
  <2> QED
    BY <1>0, <1>1, <2>1 DEF HistoryInv, ArchiveInv
<1>12. HistoryTypeOK'
  BY <1>0 DEF HistoryInv, HistoryTypeOK, Places
<1> QED
  BY <1>7, <1>8, <1>9, <1>10, <1>11, <1>12 DEF HistoryInv, HistoryHolds

(* What is removed is not in the index that has just been written.         *)
LEMMA RemovesKeeps == ASSUME HistoryInv, Removes PROVE HistoryInv'
<1>0. /\ archiving = "indexed" /\ dropped # <<>> /\ dropped \in Seq(Nat)
      /\ folders' = folders \ {Head(dropped)} /\ whole' = whole \ {Head(dropped)} /\ dropped' = Tail(dropped)
      /\ UNCHANGED <<index, chain, archiving, nextIndex, reader, scans, orphans, faults>>
  BY DEF Removes, HistoryInv, HistoryTypeOK
<1>1. /\ Head(dropped) = dropped[1] /\ dropped[1] \in ToSet(dropped) /\ dropped' \in Seq(Nat)
      /\ \A e : e \in ToSet(dropped) => e = dropped[1] \/ e \in ToSet(dropped')
      /\ ToSet(dropped') \subseteq ToSet(dropped)
  BY <1>0, Rests
<1>2. /\ chain[1] \in whole /\ chain[1] \in ToSet(index)
      /\ ToSet(dropped) \cap ToSet(index) = {} /\ dropped[1] \notin ToSet(index)
  BY <1>0, <1>1 DEF HistoryInv, ArchiveInv
<1>3. HistoryTypeOK'
  BY <1>0, <1>1 DEF HistoryInv, HistoryTypeOK
<1>4. OrderInv'
  BY <1>0 DEF HistoryInv, OrderInv, Before
<1>5. ArchiveInv'
  BY <1>0, <1>1, <1>2 DEF HistoryInv, ArchiveInv
<1>6. IndexedAreThere' /\ ChangesAreOfTheScanBefore'
  BY <1>0, <1>1, <1>2 DEF HistoryInv, HistoryHolds, IndexedAreThere, ChangesAreOfTheScanBefore
<1>7. FoldersAreNamed'
  <2>1. Left = (ToSet(dropped) \cup {Head(chain)}) \ ToSet(index) /\ Left' = (ToSet(dropped') \cup {Head(chain)}) \ ToSet(index)
    BY <1>0 DEF Left
  <2> QED
    BY <1>0, <1>1, <2>1 DEF HistoryInv, HistoryHolds, FoldersAreNamed
<1> QED
  BY <1>3, <1>4, <1>5, <1>6, <1>7 DEF HistoryInv, HistoryHolds

(* An archive ends, fails or is cut short: what it leaves is on record as  *)
(* given up, and the index is whole as it is.                              *)
LEMMA EndKeepsHistory ==
  ASSUME HistoryInv, archiving' = "waiting", chain' = <<>> \/ (chain # <<>> /\ chain' = Tail(chain)),
         dropped' = <<>>, nextIndex' \in Seq(Nat), Left \subseteq orphans',
         orphans \subseteq orphans', UNCHANGED <<index, folders, whole, scans>>, reader' = reader \/ reader' = NoReader
  PROVE  HistoryInv'
<1>1. OrderInv' /\ chain' \in Seq(Nat)
  BY EndOrders
<1>2. dropped' \in Seq(Nat) /\ reader' \in [at : {"none", "found", "current", "done", "failed"}, id : Nat, previous : Nat]
  BY DEF HistoryInv, HistoryTypeOK, NoReader
<1>3. HistoryTypeOK' /\ ArchiveInv'
  BY <1>1, <1>2 DEF HistoryInv, HistoryTypeOK, ArchiveInv, Places
<1>4. IndexedAreThere' /\ FoldersAreNamed'
  BY DEF HistoryInv, HistoryHolds, IndexedAreThere, FoldersAreNamed
<1>5. ChangesAreOfTheScanBefore'
  BY DEF HistoryInv, HistoryHolds, ChangesAreOfTheScanBefore, NoReader
<1> QED
  BY <1>1, <1>3, <1>4, <1>5 DEF HistoryInv, HistoryHolds

LEMMA EndsKeep == ASSUME HistoryInv, Archived \/ Fails \/ Crash PROVE HistoryInv'
<1>0. <<>> \in Seq(Nat) /\ ToSet(<<>>) = {} /\ nextIndex \in Seq(Nat)
  BY DEF ToSet, HistoryInv, HistoryTypeOK
<1>1. CASE Archived
  <2>1. archiving = "indexed" /\ dropped = <<>> /\ chain # <<>> /\ chain' = Tail(chain)
    BY <1>1, ChainIs DEF Archived
  <2>2. Left = {}
    BY <1>0, <2>1, LeftIs DEF HistoryInv, ArchiveInv
  <2> QED
    BY <1>0, <1>1, <2>1, <2>2, EndKeepsHistory DEF Archived
<1>2. CASE Fails
  <2>1. archiving # "waiting" /\ chain # <<>>
    BY <1>2, ChainIs DEF Fails, Waiting
  <2> QED
    BY <1>0, <1>2, <2>1, EndKeepsHistory DEF Fails
<1>3. CASE Crash
  BY <1>0, <1>3, EndKeepsHistory DEF Crash
<1> QED
  BY <1>1, <1>2, <1>3

(* A request finds the scan and the one before it, or what it looks for has*)
(* been removed under it.                                                  *)
LEMMA ReaderKeeps ==
  ASSUME HistoryInv, (\E id \in 1..scans : AsksChanges(id)) \/ ReadsScan \/ ReadsPrevious \/ AnswersChanges
  PROVE  HistoryInv'
<1>0. UNCHANGED <<index, folders, whole, chain, archiving, nextIndex, dropped, scans, orphans, faults>>
  BY DEF AsksChanges, ReadsScan, ReadsPrevious, ReadsFolder, AnswersChanges
<1>1. ASSUME /\ reader' \in [at : {"none", "found", "current", "done", "failed"}, id : Nat, previous : Nat]
             /\ reader'.at # "none" => /\ reader'.id <= scans
                                       /\ \A i \in DOMAIN chain : Before(reader'.id, i, {"indexed"})
                                       /\ reader'.previous < reader'.id
             /\ ChangesAreOfTheScanBefore'
      PROVE  HistoryInv'
  <2>1. HistoryTypeOK'
    BY <1>0, <1>1 DEF HistoryInv, HistoryTypeOK
  <2>2. OrderInv'
    BY <1>0, <1>1 DEF HistoryInv, OrderInv, Before
  <2>3. ArchiveInv'
    BY <1>0 DEF HistoryInv, ArchiveInv, NextIs
  <2>4. IndexedAreThere' /\ FoldersAreNamed'
    BY <1>0 DEF HistoryInv, HistoryHolds, IndexedAreThere, FoldersAreNamed, Left
  <2> QED
    BY <1>1, <2>1, <2>2, <2>3, <2>4 DEF HistoryInv, HistoryHolds
<1>2. ASSUME NEW id \in 1..scans, AsksChanges(id) PROVE HistoryInv'
  <2>1. id \in ToSet(index) /\ id \in Nat
    BY <1>2 DEF AsksChanges, HistoryInv, HistoryTypeOK
  <2>2. PICK at \in DOMAIN index : at = CHOOSE i \in DOMAIN index : index[i] = id
    BY <2>1, ToSetIs, ChainIs
  <2>3. index[at] = id
    BY <2>1, <2>2, ToSetIs, ChainIs
  <2>4. PICK previous : previous = (IF at < Len(index) THEN index[at + 1] ELSE 0)
    OBVIOUS
  <2>5. reader' = [at |-> "found", id |-> id, previous |-> previous]
    BY <1>2, <2>2, <2>4 DEF AsksChanges
  <2>6. previous \in Nat /\ previous < id
    <3>1. at \in Nat /\ (at < Len(index) => at + 1 \in DOMAIN index)
      BY ChainIs
    <3>2. at < Len(index) => index[at + 1] \in Nat /\ index[at] > index[at + 1]
      BY <3>1, ChainIs DEF HistoryInv, HistoryHolds, IndexedAreThere
    <3> QED
      BY <2>3, <2>4, <3>2
  <2>7. \A i \in DOMAIN index : index[i] = id => i = at
    <3>1. \A i \in DOMAIN index : i = at \/ i < at \/ at < i
      BY ChainIs
    <3>2. \A i \in DOMAIN index : index[i] = id => ~(i < at) /\ ~(at < i)
      BY <2>1, <2>3 DEF HistoryInv, HistoryHolds, IndexedAreThere
    <3> QED
      BY <3>1, <3>2
  <2>8. ChangesAreOfTheScanBefore'
    BY <1>0, <2>4, <2>5, <2>7 DEF ChangesAreOfTheScanBefore
  <2>9. \A i \in DOMAIN chain : Before(id, i, {"indexed"})
    BY <2>3 DEF HistoryInv, OrderInv
  <2> QED
    BY <1>1, <2>1, <2>5, <2>6, <2>8, <2>9
<1>3. ASSUME NEW from \in {"found", "current"}, NEW id \in {reader.id, reader.previous}, NEW to \in {"current", "done"},
             ReadsFolder(from, id, to)
      PROVE  HistoryInv'
  <2>1. /\ reader \in [at : {"none", "found", "current", "done", "failed"}, id : Nat, previous : Nat] /\ reader.at = from
        /\ reader' = [reader EXCEPT !.at = IF id = 0 \/ id \in whole THEN to ELSE "failed"]
    BY <1>3 DEF ReadsFolder, HistoryInv, HistoryTypeOK
  <2>2. PICK at \in {"current", "done", "failed"} : at = IF id = 0 \/ id \in whole THEN to ELSE "failed"
    OBVIOUS
  <2>3. /\ reader' \in [at : {"none", "found", "current", "done", "failed"}, id : Nat, previous : Nat]
        /\ reader'.at = at /\ reader'.id = reader.id /\ reader'.previous = reader.previous
    BY <2>1, <2>2
  <2>4. ToSet(index) \subseteq whole
    BY DEF HistoryInv, HistoryHolds, IndexedAreThere
  <2>5. at = "failed" => id # 0 /\ id \notin ToSet(index)
    BY <2>2, <2>4
  <2>6. ChangesAreOfTheScanBefore'
    BY <1>0, <2>1, <2>3, <2>5 DEF HistoryInv, HistoryHolds, ChangesAreOfTheScanBefore
  <2> QED
    BY <1>1, <2>1, <2>3, <2>6 DEF HistoryInv, OrderInv
<1>4. ASSUME AnswersChanges PROVE HistoryInv'
  <2>1. reader' = NoReader /\ NoReader.at = "none"
    BY <1>4 DEF AnswersChanges, NoReader
  <2> QED
    BY <1>1, <2>1 DEF NoReader, ChangesAreOfTheScanBefore
<1> QED
  BY <1>2, <1>3, <1>4 DEF ReadsScan, ReadsPrevious

(* The inductive invariant of the history: where an archive is says which  *)
(* files are there and which index comes next (history.ts:73-143).         *)
THEOREM HistoryAlways == HistorySpec => []HistoryInv
<1>1. HistoryInv /\ [HistoryNext]_historyVars => HistoryInv'
  <2> SUFFICES ASSUME HistoryInv, [HistoryNext]_historyVars PROVE HistoryInv'
    OBVIOUS
  <2>1. CASE UNCHANGED historyVars
    BY <2>1 DEF historyVars, HistoryInv, HistoryTypeOK, OrderInv, Before, ArchiveInv, NextIs, HistoryHolds, IndexedAreThere,
       FoldersAreNamed, Left, ChangesAreOfTheScanBefore
  <2>2. CASE HistoryNext
    BY <2>2, ScanArchivesKeeps, CopyKeeps, ReadsIndexKeeps, WritesIndexKeeps, RemovesKeeps, EndsKeep, ReaderKeeps
       DEF HistoryNext
  <2> QED
    BY <2>1, <2>2
<1> QED
  BY HistoryBegins, <1>1, PTL DEF HistorySpec

(* Every scan the index offers is there whole, no folder is left but those *)
(* given up, and what changed is told of the scan before, between any two  *)
(* steps of archives, failures and crashes (history.ts:73-143).            *)
THEOREM HistoryAlwaysHolds == HistorySpec => []HistoryHolds
<1>1. HistoryInv => HistoryHolds
  BY DEF HistoryInv
<1> QED
  BY <1>1, HistoryAlways, PTL
=============================================================================
