--------------------------- MODULE CrawlProperties ---------------------------
(***************************************************************************)
(* What the crawl promises: each address is asked once and gets a verdict, *)
(* each device is read once, the map is what can be reached, and the cap,  *)
(* the queue and the workers do not get in each other's way.               *)
(***************************************************************************)
EXTENDS Crawl

Steps == {"idle", "identify", "read", "check", "neighbors", "stopped"}
Statuses == {"none", "discovered", "unreachable", "online"}
Mains == {"seeding", "joining", "stopping", "done", "failed"}
WorkerStates == [step : Steps, ip : Ips \cup {None}, expected : Ids \cup {None},
                 id : Ids \cup {None}, lldp : SUBSET LldpEntry, cdp : SUBSET CdpEntry,
                 accessPoint : BOOLEAN]
Links == [source : Ids, target : Ids, protocol : {"lldp", "cdp"}]

(* Every variable in its range; no more than MaxNodes addresses are        *)
(* reserved, whichever workers reserve them (crawl.py _enqueue).           *)
TypeOK ==
  /\ network \in Networks
  /\ main \in Mains
  /\ seeds \in Seq(Ips)
  /\ queue \in Seq(Items \cup {Stop})
  /\ worker \in [Workers -> WorkerStates]
  /\ status \in [Ids -> Statuses]
  /\ links \subseteq Links
  /\ seen \subseteq Ids
  /\ enqueuedIps \subseteq Ips /\ failures \subseteq Ips
  /\ platformByIp \in [Ips -> Platforms \cup {None}]
  /\ reserved \in 0 .. MaxNodes
  /\ cidByIp \in [Ips -> Ids \cup {None}] /\ cidByName \in [Names -> Ids \cup {None}]
  /\ cdpLinks \subseteq [source : Ids, entry : CdpEntry]
  /\ accessPoints \subseteq Ids

-----------------------------------------------------------------------------
Queued(ip) == \E i \in DOMAIN queue : queue[i] # Stop /\ queue[i].ip = ip
Polling(w) == worker[w].step \in {"read", "check", "neighbors"}
Settled(ip) == cidByIp[ip] # None \/ ip \in failures

(* The queue never holds more addresses than its bound, so that _enqueue's *)
(* put_nowait cannot raise (crawl.py:116).                                 *)
QueueFits == main \in {"seeding", "joining"} => Len(queue) <= MaxNodes

(* No address is asked twice, whatever tables name it at the same time: it *)
(* is queued once, at one worker, or has been dealt with.                  *)
NoAddressTwice ==
  /\ \A i, j \in DOMAIN queue :
       i # j /\ Stop \notin {queue[i], queue[j]} => queue[i].ip # queue[j].ip
  /\ \A w \in Workers : worker[w].step = "identify" =>
       /\ ~Queued(worker[w].ip) /\ ~Settled(worker[w].ip)
       /\ \A v \in Workers \ {w} : worker[v].ip # worker[w].ip
  /\ \A ip \in Ips : Settled(ip) => ~Queued(ip)

(* A device that answers at several addresses is read by one worker only   *)
(* (docs/CODE_TOUR.md:32: "Each device it reaches is polled once").        *)
PolledByOne ==
  \A v, w \in Workers :
    v # w /\ Polling(v) /\ Polling(w) => worker[v].id # worker[w].id

(* A polled device stays polled, though another address of it is dead.     *)
PolledStaysPolled ==
  [][\A i \in Ids : status[i] = "online" => status'[i] = "online"]_vars

(* Only addresses somebody gave are ever contacted: seeds, those of an     *)
(* earlier crawl, and those in the table of a device that was polled.      *)
NamedBy(d) == {nb.ip : nb \in network.lldp[d]} \cup {c.ip : c \in network.cdp[d]}
Given(ip) ==
  \/ \E i \in DOMAIN network.seeds : network.seeds[i] = ip
  \/ \E k \in network.known : k.ip = ip
  \/ \E a \in enqueuedIps \ {ip} : /\ Host(a) # None /\ ip \in NamedBy(Host(a))
                                   /\ cidByIp[a] # None /\ status[cidByIp[a]] = "online"
OnlyGivenAddresses == \A ip \in enqueuedIps : Given(ip)

(* When the crawl is over every address it queued has an answer: a device  *)
(* id, or the exception that ended its poll; none is left in the queue.    *)
EverySettledWhenDone ==
  main = "done" => \A ip \in enqueuedIps : Settled(ip) /\ ~Queued(ip)

(* A link's source is a polled device.  Its target is a device too, unless *)
(* the address it was to be polled at was over the cap, raised, or         *)
(* answered under another id.                                              *)
Elsewhere(id) ==
  \E d \in Cids : \E nb \in network.lldp[d] :
    /\ LldpTarget(nb) = id /\ nb.ip # None
    /\ nb.ip \notin enqueuedIps \/ nb.ip \in failures \/ cidByIp[nb.ip] # id
LinksHaveEnds ==
  main = "done" => \A l \in links : /\ status[l.source] = "online"
                                    /\ status[l.target] # "none" \/ Elsewhere(l.target)

(* A pair of devices LLDP links gets no second link from CDP (backend/     *)
(* README.md:116: "A neighbour seen over both is one device and one link").*)
OneLinkPerPair ==
  \A k, l \in links : {k.source, k.target} = {l.source, l.target} => k.protocol = l.protocol

-----------------------------------------------------------------------------
(* What a sequential walk of the network finds: the least set of devices   *)
(* that has those at the seeds and those that its own devices name.        *)
Hosts(ips) == {Host(i) : i \in ips \ {None}} \ {None}
Closed(S) ==
  /\ Hosts({network.seeds[i] : i \in DOMAIN network.seeds}) \subseteq S
  /\ \A d \in S : Hosts(NamedBy(d)) \subseteq S
Reach == {d \in Cids : \A S \in SUBSET Cids : Closed(S) => d \in S}

(* A network whose devices describe themselves and each other alike: each  *)
(* gives its chassis id, names are unique, a table's entry has an address  *)
(* and it is the address of the device it names, which answers there at    *)
(* all its addresses or at none; and a CDP entry that is taken for the     *)
(* neighbour of an LLDP entry is of that neighbour.                        *)
Alike ==
  /\ network.known = {}
  /\ \A d \in Cids : network.gives[d] = "chassis"
  /\ \A d, e \in Cids : network.name[d] = network.name[e] => d = e \/ network.name[d] = None
  /\ \A d \in Cids : \A nb \in network.lldp[d] :
       /\ nb.ip # None /\ nb.chassis # None
       /\ Host(nb.ip) = nb.chassis \/ (Host(nb.ip) = None /\ \A i \in Ips : Host(i) # nb.chassis)
  /\ \A d \in Cids : \A c \in network.cdp[d] :
       /\ c.ip # None /\ (c.name # None /\ Host(c.ip) # None => c.name = network.name[Host(c.ip)])
       /\ \A nb \in network.lldp[d] : SameNeighbor(c, {nb}) => Host(c.ip) = Host(nb.ip)

(* The pool finds exactly what the sequential walk finds, in whichever     *)
(* order the devices answer, when no poll failed and the cap was not met.  *)
FindsTheNetwork ==
  main = "done" /\ Alike /\ failures = {} /\ reserved < MaxNodes =>
    {i \in Ids : status[i] = "online"} = Reach

(* The map is whole: what a sequential walk finds, each link with its ends. *)
MapIsWhole == FindsTheNetwork /\ LinksHaveEnds

(* Under the fairness of FairSpec the crawl ends, with a map or without.   *)
Over == main \in {"done", "failed"}
CrawlEnds == <>Over

(* What of this needs no fairness.  With a worker at all, join(), the      *)
(* workers and gather() never all wait for one another: a worker polls, or *)
(* is free and has an item, or what run() waits for is there.              *)
SomeoneCanGoOn ==
  \/ main = "seeding"
  \/ \E w \in Workers : worker[w].step = "identify" \/ Polling(w)
  \/ queue # <<>> /\ \E w \in Workers : worker[w].step = "idle"
  \/ main = "joining" /\ Joined
  \/ main = "stopping" /\ \A w \in Workers : worker[w].step = "stopped"
NeverStuck == Workers # {} => Over \/ SomeoneCanGoOn

(* And no step is taken for nothing: run() gets further, or a seed is      *)
(* queued, or one of the MaxNodes reservations made, or an item taken, or  *)
(* the one worker that moves gets nearer to the end of its item, whatever  *)
(* loops the tables of the devices describe.                               *)
Phase == CASE main = "seeding" -> 0 [] main = "joining" -> 1 [] main = "stopping" -> 2 [] OTHER -> 3
Stage(w) ==
  LET step == worker[w].step
  IN  CASE step = "identify" -> 0 [] step = "read" -> 1 [] step = "check" -> 2
        [] step = "neighbors" -> 3 [] OTHER -> 4
NearerItsEnd(w) ==
  \/ Stage(w)' > Stage(w)
  \/ /\ Stage(w)' = Stage(w)
     /\ worker'[w].lldp \subseteq worker[w].lldp /\ worker'[w].cdp \subseteq worker[w].cdp
     /\ worker'[w].lldp # worker[w].lldp \/ worker'[w].cdp # worker[w].cdp
Onward ==
  \/ Phase' > Phase
  \/ Phase' = Phase /\ Len(seeds') < Len(seeds)
  \/ Phase' = Phase /\ seeds' = seeds /\ reserved' > reserved
  \/ UNCHANGED <<Phase, seeds, reserved>> /\ Len(queue') < Len(queue)
  \/ /\ UNCHANGED <<Phase, seeds, reserved, queue>>
     /\ \E w \in Workers : NearerItsEnd(w) /\ \A v \in Workers \ {w} : worker'[v] = worker[v]
GoesOnward == [][Onward]_vars

-----------------------------------------------------------------------------
(* Claims of the code's comments and documentation that the code breaks.   *)

(* network/config.py:69: "Sizing it to the cap keeps it from becoming a    *)
(* second limit".                                                          *)
QueueIsNoLimit == main # "failed"
=============================================================================
