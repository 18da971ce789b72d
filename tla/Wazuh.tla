-------------------------------- MODULE Wazuh --------------------------------
(* The Wazuh side of a scan (endpoints/wazuh.py): the login, the list of agents *)
(* and their inventories from the Manager API, then the CVEs of each agent from *)
(* the Indexer, page by page, while agents and documents come and go.           *)
EXTENDS Integers, Sequences, FiniteSets, SequencesExt

CONSTANTS Agents,          \* ids of agents, in the order the Manager API lists them
          Docs,            \* places of an agent's CVE documents in the order of the search
          AgentPage, AgentMaxPages, PageSize, Cap, LoginAttempts,
          MaxChanges       \* bound of what comes and goes during the scan

ASSUME WazuhAssumption ==
  /\ Agents \subseteq Nat /\ Docs \subseteq Nat \ {0} /\ IsFiniteSet(Agents) /\ IsFiniteSet(Docs)
  /\ {AgentPage, AgentMaxPages, PageSize, Cap, LoginAttempts} \subseteq Nat \ {0} /\ MaxChanges \in Nat

VARIABLES registered,    \* the agents of the Manager API now
          always,        \* history: those it has had since the scan began
          removals,      \* history: agents removed since
          documents,     \* the CVE documents of each agent in the Indexer now
          packages,      \* agents it has a package inventory of
          stage,         \* "login", "agents", "inventory", "cves", "packages", "done", "failed"
          login,         \* how often it has been tried
          listed,        \* the agents the scan has, in order
          skipped,       \* the server, once it is left out of them with a note
          unread,        \* the others whose inventory could not be read
          turn,          \* the agent whose CVEs are being read: its place in listed
          rows,          \* its documents read so far
          steady,        \* history: its documents that have been there since its first page
          down,          \* the Indexer gave no answer: ask it for no more CVEs
          found,         \* of each agent what the scan says: a set of documents, or why there is none
          capped,        \* agents with more documents than are read
          changes

wazuhVars == <<registered, always, removals, documents, packages, stage, login, listed, skipped, unread, turn,
               rows, steady, down, found, capped, changes>>

Server == 0             \* the agent that is the Wazuh server itself (SERVER_AGENT_ID)
Unscored == {-1}        \* the Indexer did not answer for it
NoInventory == {-2}     \* never examined
NotChecked == {-3}      \* whether it was examined could not be read

WazuhStarts ==
  /\ always = registered /\ removals = 0
  /\ stage = "login" /\ login = 1 /\ listed = <<>> /\ skipped = {} /\ unread = {} /\ turn = 0 /\ rows = <<>> /\ steady = {}
  /\ down = FALSE /\ found = [a \in Agents |-> {}] /\ capped = {} /\ changes = 0
WazuhInit ==
  /\ registered \in SUBSET Agents /\ Agents \cap {Server} \subseteq registered
  /\ documents \in [Agents -> SUBSET Docs] /\ packages \in SUBSET Agents
  /\ WazuhStarts

-----------------------------------------------------------------------------
(* What comes and goes                                                        *)

IsRegistered(a) ==
  /\ changes < MaxChanges /\ changes' = changes + 1 /\ stage = "agents"
  /\ \A b \in registered \cup ToSet(listed) : a > b          \* ids are given in order
  /\ registered' = registered \cup {a}
  /\ UNCHANGED <<always, removals, documents, packages, stage, login, listed, skipped, unread, turn, rows, steady, down, found, capped>>

IsRemoved(a) ==
  /\ changes < MaxChanges /\ changes' = changes + 1 /\ stage = "agents" /\ a \in registered \ {Server}
  /\ registered' = registered \ {a} /\ always' = always \ {a} /\ removals' = removals + 1
  /\ UNCHANGED <<documents, packages, stage, login, listed, skipped, unread, turn, rows, steady, down, found, capped>>

DocumentsChange(a, d) ==
  /\ changes < MaxChanges /\ changes' = changes + 1 /\ stage = "cves"
  /\ documents' = [documents EXCEPT ![a] = IF d \in @ THEN @ \ {d} ELSE @ \cup {d}]
  /\ steady' = IF listed[turn] = a THEN steady \ {d} ELSE steady
  /\ UNCHANGED <<registered, always, removals, packages, stage, login, listed, skipped, unread, turn, rows, down, found, capped>>

-----------------------------------------------------------------------------
(* collect                                                                    *)

\* _login: a login that gets no answer is tried again; a rejected one, or the last, ends the scan.
LogsIn ==
  /\ stage = "login"
  /\ \/ stage' = "agents" /\ UNCHANGED login
     \/ login < LoginAttempts /\ login' = login + 1 /\ UNCHANGED stage
     \/ stage' = "failed" /\ UNCHANGED login
  /\ UNCHANGED <<registered, always, removals, documents, packages, listed, skipped, unread, turn, rows, steady, down, found, capped, changes>>

Sorted(S) == CHOOSE s \in [1..Cardinality(S) -> S] : \A i, j \in DOMAIN s : i < j => s[i] < s[j]
FirstOf(s, n) == SubSeq(s, 1, IF n < Len(s) THEN n ELSE Len(s))

\* _paged: a page of the agents that follow as many as were listed; a short page is the last, and so is page
\* AGENT_MAX_PAGES, whether more follow or not. All pages before the last are full.
MostAgents == AgentMaxPages * AgentPage
PageFrom(n) == FirstOf(SubSeq(Sorted(registered), n + 1, Cardinality(registered)), AgentPage)

ListsPage ==
  /\ stage = "agents"
  /\ LET page == PageFrom(Len(listed))
     IN  /\ listed' = listed \o page
         /\ stage' = IF Len(page) < AgentPage \/ Len(listed) + Len(page) >= MostAgents THEN "inventory" ELSE "agents"
  /\ UNCHANGED <<registered, always, removals, documents, packages, login, skipped, unread, turn, rows, steady, down, found, capped, changes>>

\* A failure of the list ends the scan: the previous graph stays.
ListFails == /\ stage = "agents" /\ stage' = "failed"
             /\ UNCHANGED <<registered, always, removals, documents, packages, login, listed, skipped, unread, turn, rows, steady, down, found, capped, changes>>

\* The turn of the n-th of agents.
Starts(n, agents) ==
  /\ turn' = n /\ rows' = <<>>
  /\ steady' = IF n \in DOMAIN agents THEN documents[agents[n]] ELSE {}
  /\ stage' = IF n \in DOMAIN agents THEN "cves" ELSE "done"

\* An inventory that cannot be read, asked again once, leaves its agent in the scan. The server alone, whose id is
\* the least, is left out when its own tells no real address, or is not read (_server_node). The CVEs are next.
ReadsInventories ==
  /\ stage = "inventory"
  /\ \E left \in SUBSET ({Server} \cap ToSet(listed)) :
       LET agents == IF left = {} THEN listed ELSE Tail(listed)
       IN /\ skipped' = left /\ listed' = agents
          /\ unread' \in SUBSET (ToSet(agents) \ {Server})
          /\ Starts(1, agents)
  /\ UNCHANGED <<registered, always, removals, documents, packages, login, down, found, capped, changes>>

-----------------------------------------------------------------------------
(* score                                                                      *)

Turn == listed[turn]
\* The agent's result, and the next agent.
Settled(result) == found' = [found EXCEPT ![Turn] = result] /\ Starts(turn + 1, listed)

\* _agent_cves: the page after the last row; one more row tells whether more than the cap are there.
Size == IF PageSize < Cap - Len(rows) THEN PageSize ELSE Cap - Len(rows)
BugHits(size) == FirstOf(SubSeq(Sorted(documents[Turn]), Len(rows) + 1, Cardinality(documents[Turn])), size)

Hits(size) == FirstOf(Sorted({d \in documents[Turn] : rows = <<>> \/ d > Last(rows)}), size)

\* Every document read: an agent with none is looked at again, unless it is known to have been examined.
Read(all, more) ==
  /\ capped' = IF more THEN capped \cup {Turn} ELSE capped
  /\ IF all = <<>> THEN stage' = "packages" /\ rows' = all /\ UNCHANGED <<turn, steady, found>>
                   ELSE Settled(ToSet(all))

SearchesPage ==
  /\ stage = "cves" /\ ~down
  /\ IF Size = 0 THEN Read(rows, Hits(1) # <<>>)
     ELSE LET all == rows \o Hits(Size)
          IN  IF Len(Hits(Size)) < Size THEN Read(all, FALSE)
              ELSE rows' = all /\ UNCHANGED <<stage, turn, steady, found, capped>>
  /\ UNCHANGED <<registered, always, removals, documents, packages, login, listed, skipped, unread, down, changes>>

\* An error leaves this agent unscored, no answer at all the ones after it too.
SearchFails ==
  /\ stage = "cves" /\ ~down /\ down' \in BOOLEAN /\ Settled(Unscored)
  /\ UNCHANGED <<registered, always, removals, documents, packages, login, listed, skipped, unread, capped, changes>>

LeavesUnscored ==
  /\ stage = "cves" /\ down /\ Settled(Unscored)
  /\ UNCHANGED <<registered, always, removals, documents, packages, login, listed, skipped, unread, down, capped, changes>>

\* An agent without documents has no CVEs only if its packages were examined.
Counts(has) == IF has THEN {} ELSE NoInventory

CountsPackages ==
  /\ stage = "packages"
  /\ \/ Settled(Counts(Turn \in packages))
     \/ Settled(NotChecked)
  /\ UNCHANGED <<registered, always, removals, documents, packages, login, listed, skipped, unread, down, capped, changes>>

WazuhNext ==
  \/ \E a \in Agents : IsRegistered(a) \/ IsRemoved(a) \/ \E d \in Docs : DocumentsChange(a, d)
  \/ LogsIn \/ ListsPage \/ ListFails \/ ReadsInventories
  \/ SearchesPage \/ SearchFails \/ LeavesUnscored \/ CountsPackages

WazuhSpec == WazuhInit /\ [][WazuhNext]_wazuhVars

-----------------------------------------------------------------------------
\* The list of agents is paged by offset (_paged, wazuh.py:239-248) while agents come and go: each agent that
\* is there throughout is listed, once, but for as many as were removed meanwhile, for the server when it is
\* left out with its note (wazuh.py:181-185), and for those behind the last agent of a list that is as long as
\* a list may get (AGENT_MAX_PAGES, wazuh.py:233): these are left out without a word.
Full == Len(listed) + Cardinality(skipped) >= MostAgents
Overlooked ==
  {a \in always \ (ToSet(listed) \cup skipped) : Full => \E i \in DOMAIN listed : a <= listed[i]}
ListedOrShifted ==
  stage \notin {"login", "agents", "failed"} =>
    /\ Cardinality(Overlooked) <= removals
    /\ \A i, j \in DOMAIN listed : i # j => listed[i] # listed[j]

\* The documents of an agent are read in order and once, and those that come and go between two pages shift
\* none that is there throughout (_agent_cves pages by the sort values of the last row, wazuh.py:308-332).
NothingIsSkipped ==
  stage = "cves" =>
    /\ \A i, j \in DOMAIN rows : i < j => rows[i] < rows[j]
    /\ rows # <<>> => \A d \in steady : d <= Last(rows) => d \in ToSet(rows)

\* An agent is shown without CVEs only if its packages were examined: an Indexer that fails, or has not seen
\* the agent yet, leaves it unscored (score, wazuh.py:334-348).
CleanIsExamined ==
  \A i \in DOMAIN listed : (i < turn \/ stage = "done") /\ found[listed[i]] = {} => listed[i] \in packages

\* What a scan says of the agents, at every step of its reading.
WazuhHolds == ListedOrShifted /\ NothingIsSkipped /\ CleanIsExamined
=============================================================================
