--------------------------------- MODULE Snmp ---------------------------------
(***************************************************************************)
(* network/snmp.py: how one device is read. A credential is found once; then *)
(* walks of several columns go on at the same time, each request taking up    *)
(* where the last one of its walk ended, with GETBULK until one fails. OIDs   *)
(* are numbers, the subtree of a column is its ten; what the agent holds is   *)
(* which OID it answers after which, in whatever order.                       *)
(***************************************************************************)
EXTENDS Naturals, Sequences, FiniteSets, SequencesExt

CONSTANTS
  SnmpAgents,   \* what a device may hold: the OID after each, and the credentials it answers to
  Credentials,  \* how many the operator gave; they are tried in order
  Walks,        \* the columns each walk reads
  Limits,       \* max_rows, 0 for none
  Repetitions   \* max_repetitions

\* A device holds finitely many OIDs; a column is the ten of its subtree, and a walk has one, and none twice.
ASSUME SnmpAssumption ==
  /\ \A a \in SnmpAgents : IsFiniteSet(DOMAIN a.next) /\ DOMAIN a.next \subseteq Nat /\ \A o \in DOMAIN a.next : a.next[o] \in Nat
  /\ \A w \in DOMAIN Walks :
       /\ Walks[w] \in Seq({c \in Nat : c >= 10}) /\ Walks[w] # << >>
       /\ \A i, j \in DOMAIN Walks[w] : Walks[w][i] = Walks[w][j] => i = j
  /\ Limits \subseteq Nat /\ Repetitions \in Nat \ {0}

VARIABLES
  mib,         \* what the device holds
  limit,       \* max_rows of its walks
  trying,      \* the credential tried next
  credential,  \* the one the device answered, 0 for none: _resolved
  bulkFailed,  \* _bulk_failed
  walking      \* each walk: its columns still read, the OID each is at, the rows so far, and how it stands

snmpVars == <<mib, limit, trying, credential, bulkFailed, walking>>

End == 0   \* EndOfMibView
After(oid) == IF oid \in DOMAIN mib.next THEN mib.next[oid] ELSE End
Within(oid, base) == oid \div 10 = base \div 10 /\ oid # base
NoRows(w) == [c \in ToSet(Walks[w]) |-> << >>]

SnmpStarts ==
  /\ trying = 1 /\ credential = 0 /\ bulkFailed = FALSE
  /\ walking = [w \in DOMAIN Walks |->
               [at |-> "waiting", active |-> Walks[w], from |-> [c \in ToSet(Walks[w]) |-> c], rows |-> NoRows(w)]]
SnmpInit == mib \in SnmpAgents /\ limit \in Limits /\ SnmpStarts

\* resolve_credential: each is tried once, and the device may be silent for one it knows.
Tries ==
  /\ credential = 0 /\ trying <= Credentials
  /\ trying' = trying + 1
  /\ credential' \in {0} \cup ({trying} \cap mib.answersTo)
  /\ UNCHANGED <<mib, limit, bulkFailed, walking>>

\* walk, walk_columns: nothing is asked of a device that answered no credential.
BeginsWalk(w) ==
  /\ walking[w].at = "waiting" /\ (credential # 0 \/ trying > Credentials)
  /\ walking' = [walking EXCEPT ![w].at = IF credential = 0 THEN "broken" ELSE "reading"]
  /\ UNCHANGED <<mib, limit, trying, credential, bulkFailed>>

-----------------------------------------------------------------------------
\* One answer: the columns in the order of the request, repetition after repetition.

Onward(oid, repetitions) ==
  LET on[k \in 0..repetitions] == IF k = 0 THEN oid ELSE After(on[k - 1]) IN on
AnswerTo(s, repetitions) ==
  LET n == Len(s.active)
  IN [k \in 1..(n * repetitions) |-> Onward(s.from[s.active[((k - 1) % n) + 1]], repetitions)[((k - 1) \div n) + 1]]

\* A row is kept unless its column is done: at the end of its subtree, at an OID returned twice, or with
\* as many rows as were asked for.
Full(rows) == limit > 0 /\ Len(rows) >= limit
BugKeepRow(st, base, oid) ==
  LET rows == Append(st.rows[base], oid)
      highest == CHOOSE o \in ToSet(rows) : \A x \in ToSet(rows) : x <= o
  IN [st EXCEPT !.rows[base] = rows, !.from[base] = highest, !.done = IF Full(rows) THEN @ \cup {base} ELSE @]
KeepRow(st, base, oid) ==
  LET rows == Append(st.rows[base], oid)
  IN [st EXCEPT !.rows[base] = rows, !.from[base] = oid, !.done = IF Full(rows) THEN @ \cup {base} ELSE @]
Takes(st, base, oid) ==
  IF base \in st.done THEN st
  ELSE IF ~Within(oid, base) \/ oid \in ToSet(st.rows[base]) THEN [st EXCEPT !.done = @ \cup {base}]
  ELSE KeepRow(st, base, oid)

TakesAll(s, binds) ==
  LET n == Len(s.active)
      after[k \in 0..Len(binds)] ==
        IF k = 0 THEN [rows |-> s.rows, from |-> s.from, done |-> {}]
        ELSE Takes(after[k - 1], s.active[((k - 1) % n) + 1], binds[k])
  IN after[Len(binds)]
StillActive(columns, done) ==
  LET kept[i \in 0..Len(columns)] ==
        IF i = 0 THEN << >> ELSE IF columns[i] \in done THEN kept[i - 1] ELSE Append(kept[i - 1], columns[i])
  IN kept[Len(columns)]
Taken(s, binds) ==
  LET st == TakesAll(s, binds)
      active == StillActive(s.active, st.done)
  IN [at |-> IF active = << >> THEN "done" ELSE "reading", active |-> active, from |-> st.from, rows |-> st.rows]

Asks(w) ==
  /\ walking[w].at = "reading"
  /\ walking' = [walking EXCEPT ![w].at = IF bulkFailed THEN "next" ELSE "bulk"]
  /\ UNCHANGED <<mib, limit, trying, credential, bulkFailed>>

\* An agent may answer a GETBULK with fewer rows than were asked for.
GetsBulk(w) ==
  /\ walking[w].at = "bulk"
  /\ LET whole == AnswerTo(walking[w], Repetitions)
     IN \E k \in 1..Len(whole) : walking' = [walking EXCEPT ![w] = Taken(walking[w], SubSeq(whole, 1, k))]
  /\ UNCHANGED <<mib, limit, trying, credential, bulkFailed>>

\* From then on every walk of the device asks for a row at a time; this one goes on from where it is.
BulkFails(w) ==
  /\ walking[w].at = "bulk"
  /\ bulkFailed' = TRUE
  /\ walking' = [walking EXCEPT ![w].at = "reading"]
  /\ UNCHANGED <<mib, limit, trying, credential>>

GetsNext(w) ==
  /\ walking[w].at = "next"
  /\ walking' = [walking EXCEPT ![w] = Taken(walking[w], AnswerTo(walking[w], 1))]
  /\ UNCHANGED <<mib, limit, trying, credential, bulkFailed>>

\* No answer to a GETNEXT, an error, or an answer without rows: the walk ends with what it has.
BreaksOff(w) ==
  /\ walking[w].at \in {"bulk", "next"}
  /\ walking' = [walking EXCEPT ![w].at = "broken"]
  /\ UNCHANGED <<mib, limit, trying, credential, bulkFailed>>

SnmpNext ==
  \/ Tries
  \/ \E w \in DOMAIN Walks : BeginsWalk(w) \/ Asks(w) \/ GetsBulk(w) \/ BulkFails(w) \/ GetsNext(w) \/ BreaksOff(w)
SnmpSpec == SnmpInit /\ [][SnmpNext]_snmpVars
-----------------------------------------------------------------------------
\* Properties.

\* The rows of a column as the agent holds them: from one to the next until it leaves the subtree or
\* answers one again.
FromOf(rows, base) == IF rows = << >> THEN base ELSE Last(rows)
NextRows(rows, base) ==
  LET next == After(FromOf(rows, base))
  IN IF ~Within(next, base) \/ next \in ToSet(rows) THEN rows ELSE Append(rows, next)
Column(base) ==
  LET size == Cardinality(DOMAIN mib.next) + 1
      rows[k \in 0..size] == IF k = 0 THEN << >> ELSE NextRows(rows[k - 1], base)
  IN rows[size]
RowsAsked(base) == IF Full(Column(base)) THEN SubSeq(Column(base), 1, limit) ELSE Column(base)

\* A walk that is not broken off reads every row of each column once, in the agent's order, whatever that is, however
\* many columns share a request, short the answers are, and whenever GETBULK fails here or in another walk;
\* what a broken walk has is a beginning of that (snmp.py:227-247).
WalksReadTheTable ==
  \A w \in {v \in DOMAIN Walks : walking[v].at # "waiting"} : \A c \in ToSet(Walks[w]) :
    /\ IsPrefix(walking[w].rows[c], RowsAsked(c))
    /\ walking[w].at = "done" => walking[w].rows[c] = RowsAsked(c)
=============================================================================
