------------------------------ MODULE History ------------------------------
(* The scan history beside the graph (src/plugin/server/history.ts): one       *)
(* folder per archived scan, an index of the newest of them, and a reader that *)
(* compares a scan with the one before it. A scan's id is its place in time.   *)
EXTENDS Naturals, Sequences, FiniteSets, SequencesExt

CONSTANTS Keep, MaxScans, MaxFaults      \* HISTORY_KEEP, and bounds

ASSUME HistoryAssumption == Keep \in Nat \ {0} /\ MaxScans \in Nat /\ MaxFaults \in Nat

VARIABLES index,     \* index.json, newest first
          folders,   \* the folders with copies, whole or begun
          whole,     \* those that hold a copy of every file of their scan
          chain,     \* archives asked for and not ended, in order; the first one runs
          archiving,      \* where it is
          nextIndex,      \* the index it is about to write
          dropped,   \* the entries it still has to remove
          reader,    \* a request for "what changed"
          scans,     \* scans made so far
          orphans,   \* history: folders no index will name again, because something failed
          faults

historyVars == <<index, folders, whole, chain, archiving, nextIndex, dropped, reader, scans, orphans, faults>>

NoReader == [at |-> "none", id |-> 0, previous |-> 0]
Waiting == archiving = "waiting"

HistoryInit == /\ index = <<>> /\ folders = {} /\ whole = {} /\ chain = <<>> /\ archiving = "waiting" /\ nextIndex = <<>>
        /\ dropped = <<>> /\ reader = NoReader /\ scans = 0 /\ orphans = {} /\ faults = 0

\* pruneIndex: the entry first, then the others without it; the newest Keep stay. An id is in an index once.
Without(old, id) == IF id \in ToSet(old) THEN RemoveAt(old, CHOOSE i \in DOMAIN old : old[i] = id) ELSE old
Pruned(old, id) == LET all == <<id>> \o Without(old, id)
                       kept == IF Len(all) < Keep THEN Len(all) ELSE Keep
                   IN  [index |-> SubSeq(all, 1, kept), dropped |-> SubSeq(all, kept + 1, Len(all))]

ScanArchives == /\ scans < MaxScans /\ scans' = scans + 1 /\ chain' = Append(chain, scans')
                /\ UNCHANGED <<index, folders, whole, archiving, nextIndex, dropped, reader, orphans, faults>>

MakesFolder == /\ chain # <<>> /\ Waiting /\ archiving' = "copying" /\ folders' = folders \cup {Head(chain)}
               /\ UNCHANGED <<index, whole, chain, nextIndex, dropped, reader, scans, orphans, faults>>

Copies == /\ archiving = "copying" /\ archiving' = "copied" /\ whole' = whole \cup {Head(chain)}
          /\ UNCHANGED <<index, folders, chain, nextIndex, dropped, reader, scans, orphans, faults>>

\* readIndex: what is unreadable is an empty history.
ReadsIndex ==
  /\ archiving = "copied" /\ archiving' = "read"
  /\ \E old \in {index, <<>>} :
       /\ old # index => faults < MaxFaults
       /\ faults' = IF old = index THEN faults ELSE faults + 1
       /\ orphans' = orphans \cup (ToSet(index) \ ToSet(old))
       /\ nextIndex' = Pruned(old, Head(chain)).index /\ dropped' = Pruned(old, Head(chain)).dropped
  /\ UNCHANGED <<index, folders, whole, chain, reader, scans>>

WritesIndex == /\ archiving = "read" /\ archiving' = "indexed" /\ index' = nextIndex /\ nextIndex' = <<>>
               /\ UNCHANGED <<folders, whole, chain, dropped, reader, scans, orphans, faults>>

BugRemovesEarly == /\ archiving \in {"read", "indexed"} /\ dropped # <<>>
                   /\ folders' = folders \ {Head(dropped)} /\ whole' = whole \ {Head(dropped)} /\ dropped' = Tail(dropped)
                   /\ UNCHANGED <<index, chain, archiving, nextIndex, reader, scans, orphans, faults>>

Removes == /\ archiving = "indexed" /\ dropped # <<>>
           /\ folders' = folders \ {Head(dropped)} /\ whole' = whole \ {Head(dropped)} /\ dropped' = Tail(dropped)
           /\ UNCHANGED <<index, chain, archiving, nextIndex, reader, scans, orphans, faults>>

Archived == /\ archiving = "indexed" /\ dropped = <<>> /\ archiving' = "waiting" /\ chain' = Tail(chain)
            /\ UNCHANGED <<index, folders, whole, nextIndex, dropped, reader, scans, orphans, faults>>

\* What an archive leaves that goes no further: its folder, if not indexed, and what it had to remove.
Left == (ToSet(dropped) \cup (IF archiving = "waiting" THEN {} ELSE {Head(chain)})) \ ToSet(index)

\* A copy, the index or a removal fails: the archive ends there, the next one runs.
Fails == /\ ~Waiting /\ faults < MaxFaults /\ faults' = faults + 1 /\ orphans' = orphans \cup Left
         /\ archiving' = "waiting" /\ chain' = Tail(chain) /\ nextIndex' = <<>> /\ dropped' = <<>>
         /\ UNCHANGED <<index, folders, whole, reader, scans>>

\* The server stops between any two steps; what it had in memory is gone.
Crash == /\ faults < MaxFaults /\ faults' = faults + 1 /\ orphans' = orphans \cup Left
         /\ archiving' = "waiting" /\ chain' = <<>> /\ nextIndex' = <<>> /\ dropped' = <<>> /\ reader' = NoReader
         /\ UNCHANGED <<index, folders, whole, scans>>

\* readChanges: an id is a path only if the index names it.
AsksChanges(id) ==
  /\ reader.at = "none"
  /\ id \in ToSet(index)
  /\ LET at == CHOOSE i \in DOMAIN index : index[i] = id
     IN  reader' = [at |-> "found", id |-> id, previous |-> IF at < Len(index) THEN index[at + 1] ELSE 0]
  /\ UNCHANGED <<index, folders, whole, chain, archiving, nextIndex, dropped, scans, orphans, faults>>

ReadsFolder(from, id, to) ==
  /\ reader.at = from
  /\ reader' = [reader EXCEPT !.at = IF id = 0 \/ id \in whole THEN to ELSE "failed"]
  /\ UNCHANGED <<index, folders, whole, chain, archiving, nextIndex, dropped, scans, orphans, faults>>

ReadsScan == ReadsFolder("found", reader.id, "current")
ReadsPrevious == ReadsFolder("current", reader.previous, "done")
AnswersChanges == /\ reader.at \in {"done", "failed"} /\ reader' = NoReader
            /\ UNCHANGED <<index, folders, whole, chain, archiving, nextIndex, dropped, scans, orphans, faults>>

HistoryNext == \/ ScanArchives \/ MakesFolder \/ Copies \/ ReadsIndex \/ WritesIndex \/ Removes \/ Archived \/ Fails \/ Crash
        \/ (\E id \in 1..scans : AsksChanges(id)) \/ ReadsScan \/ ReadsPrevious \/ AnswersChanges

HistorySpec == HistoryInit /\ [][HistoryNext]_historyVars

-----------------------------------------------------------------------------
\* What the index offers can be downloaded and compared: each entry has a copy of every file of its scan, at
\* most Keep of them, newest first (archiveScan and pruneIndex, history.ts:73-119), at every step of an
\* archive, after a failed one and after a crash.
IndexedAreThere ==
  ToSet(index) \subseteq whole /\ Len(index) <= Keep /\ \A i, j \in DOMAIN index : i < j => index[i] > index[j]

\* No folder is left that neither the index nor the running archive knows, but for those an archive that
\* failed, an unreadable index or a crash gave up (history.ts:108-117).
FoldersAreNamed == folders \subseteq ToSet(index) \cup Left \cup orphans

\* A request for what changed fails only when an archive removed a scan under it, and it compares a scan with
\* the one right before it in the index as long as that one is there (readChanges, history.ts:122-143).
ChangesAreOfTheScanBefore ==
  /\ reader.at = "failed" =>
       \/ reader.id \notin ToSet(index)
       \/ reader.previous # 0 /\ reader.previous \notin ToSet(index)
  /\ \A i \in DOMAIN index : reader.at # "none" /\ index[i] = reader.id /\ i < Len(index)
                                => reader.previous = index[i + 1]

\* The history as its readers see it, between any two steps.
HistoryHolds == IndexedAreThere /\ FoldersAreNamed /\ ChangesAreOfTheScanBefore
=============================================================================
