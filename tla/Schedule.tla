------------------------------ MODULE Schedule ------------------------------
(* Scheduled scans of the plugin (src/plugin/server/schedule.ts): the owner's  *)
(* choice in schedule.json, the timer of the next slot, and the last run.      *)
(* Times are multiples of a unit in which a timer may fire early.              *)
EXTENDS Naturals, Sequences, SequencesExt

CONSTANTS Every,          \* the period of each frequency but "off" and "daily", in units: at most a day
          Hours, Hour,    \* the hours of a day, and the units of one hour
          EarlyBy,          \* how early a timer may fire
          SetBeforeLoad,  \* may the owner choose before load() has ended?
          MaxTime, MaxSets, MaxRestarts, MaxPending     \* bounds; the last, of the saves not done yet

ASSUME ScheduleAssumption ==
  /\ DOMAIN Every \cap {"off", "daily"} = {}
  /\ Hours \in Nat \ {0} /\ Hour \in Nat \ {0} /\ \A f \in DOMAIN Every : Every[f] \in 1..(Hours * Hour)
  /\ EarlyBy \in 0..(Hour - 1)
  /\ SetBeforeLoad \in BOOLEAN /\ MaxTime \in Nat /\ MaxSets \in Nat /\ MaxRestarts \in Nat /\ MaxPending \in Nat

VARIABLES now,         \* the server's clock
          credential,  \* does the environment hold an SNMP credential?
          state,       \* choice, last run, and (history) how many changes it has seen
          timer,       \* the slot the timer is set for, or NoSlot
          due,         \* the slot shown as the next run
          writes,      \* the chain of saves not done yet
          file,        \* schedule.json
          load,        \* where load() is: "reading", "read", "up"
          text,        \* what load() read
          stopped,     \* was stop() called?
          scan,        \* the running scan: "none", "other" or "scheduled", and when it was due
          lost,        \* history: did the last save fail?
          sets, restarts

scheduleVars == <<now, credential, state, timer, due, writes, file, load, text, stopped, scan, lost, sets, restarts>>

NoSlot == 0
NoRun == [at |-> 0, status |-> "none"]
Idle == [by |-> "none", at |-> 0]
Schedules == [frequency : DOMAIN Every \cup {"off"}, dailyHour : {0}]
             \cup [frequency : {"daily"}, dailyHour : 0..(Hours - 1)]
OFF == [choice |-> [frequency |-> "off", dailyHour |-> 0], lastRun |-> NoRun, rev |-> 0]

IsSlot(choice, t) ==
  CASE choice.frequency = "off"   -> FALSE
    [] choice.frequency = "daily" -> t % (Hours * Hour) = choice.dailyHour * Hour
    [] OTHER                      -> t % Every[choice.frequency] = 0

\* The first slot strictly after a time; every frequency has one within two days.
NextRun(choice, after) ==
  IF choice.frequency = "off" THEN NoSlot
  ELSE CHOOSE t \in (after + 1)..(after + 2 * Hours * Hour) :
         IsSlot(choice, t) /\ \A u \in (after + 1)..(t - 1) : ~IsSlot(choice, u)

\* The plugin starts with what is in schedule.json.
StartsWith(saved) ==
  /\ now = 1 /\ credential \in BOOLEAN /\ state = OFF /\ timer = NoSlot /\ due = NoSlot
  /\ writes = <<>> /\ file = saved /\ load = "reading" /\ text = OFF /\ stopped = FALSE
  /\ scan = Idle /\ lost = FALSE /\ sets = 0 /\ restarts = 0

ScheduleInit == StartsWith(OFF)

\* arm: the old timer is cleared, the next slot is due and its timer set.
Arm(choice, after) == due' = NextRun(choice, after) /\ timer' = due'

\* save: the text is fixed now and written after every earlier one.
Save(next) == Len(writes) < MaxPending /\ state' = next /\ writes' = Append(writes, next)

Ran(status, at) == [state EXCEPT !.lastRun = [at |-> at, status |-> status], !.rev = @ + 1]

LoadReads == /\ load = "reading" /\ load' = "read" /\ text' = file
             /\ UNCHANGED <<now, credential, state, timer, due, writes, file, stopped, scan, lost, sets, restarts>>

LoadSettles == /\ load = "read" /\ load' = "up" /\ state' = text /\ text' = OFF
            /\ Arm(text.choice, now)
            /\ UNCHANGED <<now, credential, writes, file, stopped, scan, lost, sets, restarts>>

Set(choice) ==
  /\ sets < MaxSets /\ ~stopped /\ (load = "up" \/ SetBeforeLoad)
  /\ Arm(choice, now)
  /\ Save([state EXCEPT !.choice = choice, !.rev = @ + 1])
  /\ sets' = sets + 1
  /\ UNCHANGED <<now, credential, file, load, text, stopped, scan, lost, restarts>>

TimerFires == timer # NoSlot /\ now + EarlyBy >= timer
BugArmNextFromNow == Arm(state.choice, now)

\* A timer can fire a moment early: never pick the same slot again.
ArmNext == Arm(state.choice, IF now >= timer THEN now ELSE timer)

FireRefused ==                 \* no credential, or a scan is running: the slot is dropped
  /\ TimerFires
  /\ \/ ~credential /\ Save(Ran("failed", now))
     \/ credential /\ scan # Idle /\ Save(Ran("skipped", now))
  /\ ArmNext
  /\ UNCHANGED <<now, credential, file, load, text, stopped, scan, lost, sets, restarts>>

FireStarts ==
  /\ TimerFires /\ credential /\ scan = Idle
  /\ scan' = [by |-> "scheduled", at |-> now]
  /\ ArmNext
  /\ UNCHANGED <<now, credential, state, writes, file, load, text, stopped, lost, sets, restarts>>

OtherScan == /\ scan = Idle /\ scan' = [by |-> "other", at |-> now]
             /\ UNCHANGED <<now, credential, state, timer, due, writes, file, load, text, stopped, lost, sets, restarts>>

RunningScanEnds ==
  /\ scan # Idle /\ scan' = Idle
  /\ IF scan.by = "scheduled" THEN \E status \in {"completed", "failed"} : Save(Ran(status, scan.at))
                              ELSE UNCHANGED <<state, writes>>
  /\ UNCHANGED <<now, credential, timer, due, file, load, text, stopped, lost, sets, restarts>>

\* The next save of the chain ends: the file is replaced whole, or is as before.
Write ==
  /\ writes # <<>> /\ writes' = Tail(writes)
  /\ \/ file' = Head(writes) /\ lost' = FALSE
     \/ UNCHANGED file /\ lost' = TRUE
  /\ UNCHANGED <<now, credential, state, timer, due, load, text, stopped, scan, sets, restarts>>

Stop == /\ ~stopped /\ stopped' = TRUE /\ timer' = NoSlot
        /\ UNCHANGED <<now, credential, state, due, writes, file, load, text, scan, lost, sets, restarts>>

\* The server ends, as it was asked or not, and a new one starts: the file is what is left.
Restart ==
  /\ restarts < MaxRestarts /\ restarts' = restarts + 1
  /\ state' = OFF /\ timer' = NoSlot /\ due' = NoSlot /\ writes' = <<>> /\ load' = "reading" /\ text' = OFF
  /\ stopped' = FALSE /\ scan' = Idle /\ lost' = FALSE
  /\ UNCHANGED <<now, credential, file, sets>>

Tick == /\ now < MaxTime /\ now' = now + 1
        /\ UNCHANGED <<credential, state, timer, due, writes, file, load, text, stopped, scan, lost, sets, restarts>>

ScheduleNext ==
        \/ LoadReads \/ LoadSettles \/ (\E c \in Schedules : Set(c)) \/ FireRefused \/ FireStarts \/ OtherScan
        \/ RunningScanEnds \/ Write \/ Stop \/ Restart \/ Tick

ScheduleSpec == ScheduleInit /\ [][ScheduleNext]_scheduleVars

-----------------------------------------------------------------------------
States == [choice : Schedules, lastRun : [at : Nat, status : {"none", "completed", "failed", "skipped"}], rev : Nat]

\* Type correctness of the scheduler: schedule.json, what load() read and every save in the chain are whole
\* schedules (parseSchedule and save, schedule.ts:34-58, 112-120).
ScheduleTypeOK ==
  /\ now \in Nat /\ credential \in BOOLEAN /\ stopped \in BOOLEAN /\ lost \in BOOLEAN
  /\ state \in States /\ file \in States /\ text \in States /\ writes \in Seq(States)
  /\ load \in {"reading", "read", "up"}
  /\ scan \in [by : {"none", "other", "scheduled"}, at : Nat] /\ sets \in Nat /\ restarts \in Nat

\* Once load() has ended, schedule.json is what the scheduler holds, or a save of exactly that is the last of
\* the chain; only a save that failed leaves an older one (save, schedule.ts:112-120), and every change that
\* lands is newer than the one it replaces.
NothingUnsaved ==
  load = "up" => IF writes = <<>> THEN lost \/ file = state ELSE Last(writes) = state

SavedInOrder == [][file' # file => file'.rev > file.rev]_scheduleVars

\* A slot that fires, early or late, is never armed a second time, and no slot of the choice that is still to
\* come is left out (schedule.ts:153-154: the next is counted from the later of now and the slot); and "The last
\* run is kept" (schedule.ts:170): no change of the schedule, no load and no restart makes a recorded run
\* disappear from schedule.json.
NoSlotOrRunIsLost ==
  [][/\ FireRefused \/ FireStarts =>
          LET from == IF now > timer THEN now ELSE timer
          IN  IF timer' = NoSlot THEN state.choice.frequency = "off"
              ELSE timer' > from /\ \A u \in (from + 1)..(timer' - 1) : ~IsSlot(state.choice, u)
     /\ file.lastRun # NoRun => file'.lastRun # NoRun]_scheduleVars

\* While the scheduler is up, its timer is the slot shown as the next run, a slot of the choice it holds; there
\* is none only when the choice is off (arm, schedule.ts:127-134).
TimerIsForTheChoice ==
  load = "up" /\ ~stopped =>
    /\ timer = due
    /\ IF state.choice.frequency = "off" THEN timer = NoSlot ELSE IsSlot(state.choice, timer)

\* The schedule is what its owner chose: it is saved, in order, the timer is for it, and neither a slot nor the
\* record of a run is lost, whatever fires, fails, stops or restarts (schedule.ts:112-187).
ScheduleKeeps == [](NothingUnsaved /\ TimerIsForTheChoice) /\ SavedInOrder /\ NoSlotOrRunIsLost
=============================================================================
