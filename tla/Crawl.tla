------------------------------- MODULE Crawl -------------------------------
(***************************************************************************)
(* The network crawl (backend/vulnmapper/network/crawl.py): a pool of      *)
(* workers that share one queue of addresses.  Each takes an address, asks *)
(* who answers there, reads its LLDP and CDP neighbour tables and queues   *)
(* the addresses they name; run() waits for the queue to drain, stops the  *)
(* workers and turns the kept CDP entries into links.                      *)
(*                                                                         *)
(* One action is what a worker does between two answers of the network,    *)
(* the handling of one neighbour entry being a step of its own (the code   *)
(* takes the lock for each).  The network is fixed while it is crawled:    *)
(* who answers at an address, what each device says of itself and of its   *)
(* neighbours.  Ports are kept only where they decide something.           *)
(***************************************************************************)
EXTENDS Integers, Sequences, FiniteSets

CONSTANTS Cids,       \* the chassis ids of devices
          Ips,        \* management addresses
          Names,      \* device names, as _name_key gives them
          Workers,    \* as many as --concurrency
          MaxNodes,   \* --max-nodes, also the queue's bound
          Networks,   \* the networks a crawl may meet
          None,       \* a missing field
          Unknown,    \* the id of a neighbour that names nothing
          Stop        \* the item that stops a worker

(* What a crawl can call a device: by its own id, or by one it makes up.   *)
MadeUpIds == ({"name"} \X Names) \cup ({"ip"} \X Ips) \cup ({"mac"} \X Cids)
               \cup ({"cdp"} \X (Names \cup Ips \cup {None})) \cup {Unknown}
Ids == Cids \cup MadeUpIds

LldpEntry == [chassis : Cids \cup {None}, name : Names \cup {None},
              ip : Ips \cup {None}, port : Nat]
(* A CDP entry's platform names an access point, or something else.        *)
Platforms == {"access point", "other"}
CdpEntry == [name : Names \cup {None}, ip : Ips \cup {None}, port : Nat,
             platform : Platforms \cup {None}]

(* A network: the device that answers at an address, whether the device    *)
(* gives an id of its own (its LLDP chassis id, else a base MAC), its      *)
(* name, its tables, whether it is an access point by its own account, and *)
(* where the crawl starts.  known: the nodes of an earlier crawl.          *)
Network ==
  [host : [Ips -> Cids \cup {None}],
   gives : [Cids -> {"chassis", "mac", "nothing"}],
   name : [Cids -> Names \cup {None}],
   lldp : [Cids -> SUBSET LldpEntry],
   cdp : [Cids -> SUBSET CdpEntry],
   wireless : SUBSET Cids,
   seeds : Seq(Ips),
   known : SUBSET [id : Cids, ip : Ips \cup {None}, name : Names \cup {None}]]

Items == [ip : Ips, expected : Ids \cup {None}]

(* The last three conjuncts only tell the special values from the rest.    *)
ASSUME CrawlConstants ==
  /\ MaxNodes \in Nat
  /\ IsFiniteSet(Workers)
  /\ \A n \in Networks :
       /\ n.host \in [Ips -> Cids \cup {None}]
       /\ n.gives \in [Cids -> {"chassis", "mac", "nothing"}]
       /\ n.name \in [Cids -> Names \cup {None}]
       /\ DOMAIN n.lldp = Cids /\ \A d \in Cids : n.lldp[d] \subseteq LldpEntry
       /\ DOMAIN n.cdp = Cids /\ \A d \in Cids : n.cdp[d] \subseteq CdpEntry
       /\ n.seeds \in Seq(Ips)
       /\ \A k \in n.known : /\ k.id \in Cids
                             /\ k.ip \in Ips \cup {None} /\ k.name \in Names \cup {None}
  /\ None \notin Ids \cup Ips \cup Names
  /\ Stop \notin Items
  /\ Cids \cap MadeUpIds = {}

VARIABLES
  network,       \* the network crawled
  main,          \* where run() and its caller are
  seeds,         \* the seeds still to queue
  queue,         \* the addresses to poll
  worker,        \* each worker: its step, and what it holds
  status,        \* _devices: the status of each device recorded, "none": no device
  links,         \* _links
  seen,          \* _seen: chassis ids reserved or recorded
  enqueuedIps,   \* _enqueued_ips
  reserved,      \* _reserved, counts toward MaxNodes
  cidByIp, cidByName,   \* _cid_by_ip, _cid_by_name
  cdpLinks,      \* _cdp_links: the entries kept for the end
  platformByIp,  \* _platform_by_ip: the first platform told of an address
  accessPoints,  \* devices marked access_point
  failures       \* history: the addresses whose poll raised

recordVars == <<status, accessPoints>>
queueVars == <<queue, enqueuedIps, reserved>>
lookupVars == <<cidByIp, cidByName>>
vars == <<network, main, seeds, queueVars, worker, recordVars, links, seen, lookupVars,
          cdpLinks, platformByIp, failures>>

-----------------------------------------------------------------------------
(* What a worker holds at a step; a neighbour entry it has handled is      *)
(* dropped from its tables.                                                *)
At(step, ip, expected) == [step |-> step, ip |-> ip, expected |-> expected, id |-> None,
                           lldp |-> {}, cdp |-> {}, accessPoint |-> FALSE]
Idle == At("idle", None, None)
Moved(w, step) == [worker[w] EXCEPT !.step = step]

(* know(): the devices of an earlier crawl count as seen; the first one    *)
(* with an address or a name gives it its chassis id.                      *)
IdOfFirst(nodes) == IF nodes = {} THEN None ELSE (CHOOSE k \in nodes : TRUE).id

Init ==
  /\ network \in Networks
  /\ main = "seeding" /\ seeds = network.seeds
  /\ queue = <<>> /\ reserved = 0
  /\ worker = [w \in Workers |-> Idle]
  /\ status = [i \in Ids |-> "none"]
  /\ links = {} /\ cdpLinks = {} /\ accessPoints = {} /\ failures = {}
  /\ platformByIp = [i \in Ips |-> None]
  /\ seen = {k.id : k \in network.known}
  /\ enqueuedIps = {k.ip : k \in network.known} \ {None}
  /\ cidByIp = [i \in Ips |-> IdOfFirst({k \in network.known : k.ip = i})]
  /\ cidByName = [n \in Names |-> IdOfFirst({k \in network.known : k.name = n})]

-----------------------------------------------------------------------------
(* _enqueue: reserve and queue an address, unless it or the chassis id is  *)
(* a duplicate or the cap is reached.  (The definitions named Bug... are   *)
(* wrong variants, in no behaviour: each shows that a property notices the *)
(* mistake it makes.)                                                      *)
Enqueues(ip, cid) ==
  ip \notin enqueuedIps /\ (cid = None \/ cid \notin seen) /\ reserved < MaxNodes

Item(ip, cid) == [ip |-> ip, expected |-> cid]

Enqueue(ip, cid) ==
  \/ /\ Enqueues(ip, cid)
     /\ enqueuedIps' = enqueuedIps \cup {ip}
     /\ seen' = seen \cup ({cid} \ {None})
     /\ reserved' = reserved + 1
     /\ queue' = Append(queue, Item(ip, cid))
  \/ ~Enqueues(ip, cid) /\ UNCHANGED <<queueVars, seen>>

(* seed(): one seed after another, before any worker exists.               *)
Seed ==
  /\ main = "seeding" /\ seeds # <<>>
  /\ Enqueue(Head(seeds), None)
  /\ seeds' = Tail(seeds)
  /\ UNCHANGED <<network, main, worker, recordVars, links, lookupVars, cdpLinks, platformByIp,
                 failures>>

(* run(): the workers are created.                                         *)
Start ==
  /\ main = "seeding" /\ seeds = <<>>
  /\ main' = "joining"
  /\ UNCHANGED <<network, seeds, queueVars, worker, recordVars, links, seen, lookupVars, cdpLinks,
                 platformByIp, failures>>

-----------------------------------------------------------------------------
(* A worker takes the next item: an address, or the order to stop.         *)
Take(w) ==
  /\ main # "seeding"
  /\ worker[w].step = "idle" /\ queue # <<>>
  /\ queue' = Tail(queue)
  /\ worker' = [worker EXCEPT ![w] =
       IF Head(queue) = Stop THEN At("stopped", None, None)
       ELSE At("identify", Head(queue).ip, Head(queue).expected)]
  /\ UNCHANGED <<network, main, seeds, enqueuedIps, reserved, recordVars, links, seen, lookupVars,
                 cdpLinks, platformByIp, failures>>

Host(ip) == network.host[ip]
TaskDone(w) == worker' = [worker EXCEPT ![w] = Idle]
workerUnchanged == <<network, main, seeds, failures>>

(* The dict lookups' setdefault: the first value given stays.              *)
SetDefault(f, key, value) ==
  IF key = None \/ f[key] # None THEN f ELSE [f EXCEPT ![key] = value]

(* _record_unpollable_ip: no credential works there, or not the full GET.  *)
Untried(ip, expected) == IF expected # None THEN expected ELSE <<"ip", ip>>

Unreachable(id) ==
  IF status[id] = "online" THEN status ELSE [status EXCEPT ![id] = "unreachable"]

Unpollable(w) ==
  LET ip == worker[w].ip
      id == Untried(ip, worker[w].expected)
  IN  /\ worker[w].step = "identify" /\ Host(ip) = None
      /\ seen' = seen \cup {id}
      /\ cidByIp' = SetDefault(cidByIp, ip, id)
      /\ status' = Unreachable(id)
      /\ TaskDone(w)
      /\ UNCHANGED <<workerUnchanged, queueVars, accessPoints, links, cidByName, cdpLinks,
                     platformByIp>>

(* The id of the device that answered: its own chassis id, else the one    *)
(* expected there, else its base MAC, else the address.                    *)
ChassisId(ip, expected) ==
  LET d == Host(ip)
  IN  CASE network.gives[d] = "chassis" -> d
        [] network.gives[d] # "chassis" /\ expected # None -> expected
        [] network.gives[d] = "mac" /\ expected = None -> <<"mac", d>>
        [] OTHER -> <<"ip", ip>>

(* _record_polled_device, and what _identify makes of its answer: the same *)
(* device at another of its addresses is not polled again.                 *)
BugPolledAgain(id) == FALSE
AlreadyPolled(id) == status[id] = "online"

Identified(w, id) == [worker[w] EXCEPT !.step = "read", !.id = id]

Identify(w) ==
  LET ip == worker[w].ip
      id == ChassisId(ip, worker[w].expected)
  IN  /\ worker[w].step = "identify" /\ Host(ip) # None
      /\ seen' = seen \cup {id}
      /\ cidByIp' = SetDefault(cidByIp, ip, id)
      /\ \/ AlreadyPolled(id) /\ TaskDone(w) /\ UNCHANGED <<status, cidByName>>
         \/ /\ ~AlreadyPolled(id)
            /\ cidByName' = SetDefault(cidByName, network.name[Host(ip)], id)
            /\ status' = [status EXCEPT ![id] = "online"]
            /\ worker' = [worker EXCEPT ![w] = Identified(w, id)]
      /\ UNCHANGED <<workerUnchanged, queueVars, accessPoints, links, cdpLinks, platformByIp>>

-----------------------------------------------------------------------------
(* _same_neighbor: one of the device's LLDP entries describes this CDP     *)
(* neighbour already.                                                      *)
SameNeighbor(c, lldp) ==
  \E nb \in lldp : \/ c.port = nb.port
                   \/ c.ip # None /\ c.ip = nb.ip
                   \/ c.name # None /\ c.name = nb.name

(* Both neighbour tables are read, then what CDP said so far of this       *)
(* address, then the device's own association table.                       *)
TablesRead(w) ==
  LET d == Host(worker[w].ip)
  IN  [worker[w] EXCEPT !.step = "check", !.lldp = network.lldp[d],
         !.cdp = {c \in network.cdp[d] : ~SameNeighbor(c, network.lldp[d])},
         !.accessPoint = d \in network.wireless \/ platformByIp[worker[w].ip] = "access point"]

ReadNeighbors(w) ==
  /\ worker[w].step = "read"
  /\ worker' = [worker EXCEPT ![w] = TablesRead(w)]
  /\ UNCHANGED <<workerUnchanged, queueVars, recordVars, links, seen, lookupVars, cdpLinks,
                 platformByIp>>

MarkAccessPoint(w) ==
  /\ worker[w].step = "check"
  /\ worker' = [worker EXCEPT ![w] = Moved(w, "neighbors")]
  /\ accessPoints' = accessPoints \cup (IF worker[w].accessPoint THEN {worker[w].id} ELSE {})
  /\ UNCHANGED <<workerUnchanged, queueVars, status, links, seen, lookupVars, cdpLinks,
                 platformByIp>>

(* The id an LLDP neighbour goes by.                                       *)
LldpTarget(nb) ==
  CASE nb.chassis # None -> nb.chassis
    [] nb.chassis = None /\ nb.name # None -> <<"name", nb.name>>
    [] nb.chassis = None /\ nb.name = None /\ nb.ip # None -> <<"ip", nb.ip>>
    [] OTHER -> Unknown

Link(source, target, protocol) == [source |-> source, target |-> target, protocol |-> protocol]

Known(id) == status[id] # "none" \/ id \in seen

(* _handle_neighbor: the link, and the neighbour queued if it is new and   *)
(* has an address, else recorded as a device known from the table only.    *)
BugNeverQueued(nb) == FALSE
Followed(nb) == nb.ip # None /\ ~Known(LldpTarget(nb))

WithoutLldp(w, nb) == [worker[w] EXCEPT !.lldp = @ \ {nb}]

HandleNeighbor(w) ==
  /\ worker[w].step = "neighbors"
  /\ \E nb \in worker[w].lldp :
       /\ worker' = [worker EXCEPT ![w] = WithoutLldp(w, nb)]
       /\ links' = links \cup {Link(worker[w].id, LldpTarget(nb), "lldp")}
       /\ \/ Followed(nb) /\ Enqueue(nb.ip, LldpTarget(nb)) /\ UNCHANGED status
          \/ /\ ~Followed(nb) /\ status[LldpTarget(nb)] = "none"
             /\ status' = [status EXCEPT ![LldpTarget(nb)] = "discovered"]
             /\ seen' = seen \cup {LldpTarget(nb)}
             /\ UNCHANGED queueVars
          \/ /\ ~Followed(nb) /\ status[LldpTarget(nb)] # "none"
             /\ UNCHANGED <<queueVars, seen, status>>
  /\ UNCHANGED <<workerUnchanged, accessPoints, lookupVars, cdpLinks, platformByIp>>

(* _cdp_target: the device a CDP entry describes, by address, then name.   *)
CdpTarget(c) ==
  CASE c.ip # None /\ cidByIp[c.ip] # None -> cidByIp[c.ip]
    [] (c.ip = None \/ cidByIp[c.ip] = None) /\ c.name # None -> cidByName[c.name]
    [] OTHER -> None

(* _handle_cdp_neighbor: kept for the end, and queued if it is new.        *)
WithoutCdp(w, c) == [worker[w] EXCEPT !.cdp = @ \ {c}]

HandleCdpNeighbor(w) ==
  /\ worker[w].step = "neighbors" /\ worker[w].lldp = {}
  /\ \E c \in worker[w].cdp :
       /\ worker' = [worker EXCEPT ![w] = WithoutCdp(w, c)]
       /\ cdpLinks' = cdpLinks \cup {[source |-> worker[w].id, entry |-> c]}
       /\ platformByIp' = SetDefault(platformByIp, c.ip, c.platform)
       /\ IF CdpTarget(c) = None /\ c.ip # None THEN Enqueue(c.ip, None)
          ELSE UNCHANGED <<queueVars, seen>>
  /\ UNCHANGED <<workerUnchanged, recordVars, links, lookupVars>>

(* The long tables, which change nothing another worker reads; the item is *)
(* done, whether their reads succeed or raise.                             *)
ReadTables(w) ==
  /\ worker[w].step = "neighbors" /\ worker[w].lldp = {} /\ worker[w].cdp = {}
  /\ TaskDone(w)
  /\ UNCHANGED <<workerUnchanged, queueVars, recordVars, links, seen, lookupVars, cdpLinks,
                 platformByIp>>

(* An exception while a device is identified or its tables are read: the   *)
(* worker logs it and goes on with the next item.                          *)
Fails(w) ==
  /\ worker[w].step \in {"identify", "read", "check"}
  /\ failures' = failures \cup {worker[w].ip}
  /\ TaskDone(w)
  /\ UNCHANGED <<network, main, seeds, queueVars, recordVars, links, seen, lookupVars, cdpLinks,
                 platformByIp>>

-----------------------------------------------------------------------------
(* run() after join(): one stop per worker.  put_nowait raises when the    *)
(* queue is full (a bound of 0 is none), and the crawl's caller gives an   *)
(* empty document instead.                                                 *)
BugOneStop == <<Stop>>
Stops == [i \in 1 .. Cardinality(Workers) |-> Stop]
StopsFit == MaxNodes = 0 \/ Cardinality(Workers) <= MaxNodes

BugDoesNotJoin == queue = <<>>
Joined == queue = <<>> /\ \A w \in Workers : worker[w].step = "idle"

StopWorkers ==
  /\ main = "joining" /\ Joined
  /\ \/ StopsFit /\ queue' = Stops /\ main' = "stopping"
     \/ ~StopsFit /\ main' = "failed" /\ UNCHANGED queue
  /\ UNCHANGED <<network, seeds, enqueuedIps, reserved, worker, recordVars, links, seen,
                 lookupVars, cdpLinks, platformByIp, failures>>

(* _resolve_cdp_links: each kept entry becomes a link to the device it     *)
(* describes, or to one recorded from the entry alone; a pair LLDP links   *)
(* gets no second link.                                                    *)
ResolvedTarget(c) ==
  IF CdpTarget(c) # None THEN CdpTarget(c)
  ELSE <<"cdp", IF c.name # None THEN c.name ELSE c.ip>>

BugLinkedTwice(source, target) == FALSE
LldpLinked(source, target) ==
  \E l \in links : {l.source, l.target} = {source, target}

WithPlaceholders(targets) ==
  [i \in Ids |-> IF status[i] = "none" /\ i \in targets THEN "discovered" ELSE status[i]]

ResolveCdpLinks ==
  /\ main = "stopping" /\ \A w \in Workers : worker[w].step = "stopped"
  /\ main' = "done"
  /\ LET targets == {ResolvedTarget(k.entry) : k \in cdpLinks}
         named == {ResolvedTarget(k.entry) :
                     k \in {l \in cdpLinks : l.entry.platform = "access point"}}
     IN  /\ status' = WithPlaceholders(targets)
         /\ seen' = seen \cup {i \in targets : status[i] = "none"}
         /\ accessPoints' = accessPoints \cup {i \in named : status[i] # "online"}
  /\ links' = links \cup
       {Link(k.source, ResolvedTarget(k.entry), "cdp") : k \in
          {l \in cdpLinks : /\ ResolvedTarget(l.entry) # l.source
                            /\ ~LldpLinked(l.source, ResolvedTarget(l.entry))}}
  /\ UNCHANGED <<network, seeds, queueVars, worker, lookupVars, cdpLinks, platformByIp, failures>>

WorkerNext(w) ==
  \/ Take(w) \/ Unpollable(w) \/ Identify(w) \/ ReadNeighbors(w) \/ MarkAccessPoint(w)
  \/ HandleNeighbor(w) \/ HandleCdpNeighbor(w) \/ ReadTables(w)

MainNext == Seed \/ Start \/ StopWorkers \/ ResolveCdpLinks

Next == MainNext \/ \E w \in Workers : WorkerNext(w) \/ Fails(w)

Spec == Init /\ [][Next]_vars

(* Every SNMP request is answered or times out, and the event loop runs    *)
(* every task that can go on.                                              *)
FairSpec == Spec /\ WF_vars(MainNext) /\ \A w \in Workers : WF_vars(WorkerNext(w))
=============================================================================
