------------------------------ MODULE MCCrawl ------------------------------
(* Small networks for TLC's runs of the crawl.                             *)
EXTENDS CrawlProperties, TLC
CONSTANTS a, b, c, x1, x2, x3, x4, x5, n1, n2, w1, w2

L(chassis, ip, port) == [chassis |-> chassis, name |-> None, ip |-> ip, port |-> port]
C(name, ip, port, ap) == [name |-> name, ip |-> ip, port |-> port,
                         platform |-> IF ap THEN "access point" ELSE "other"]

Quiet == [host |-> (x1 :> a @@ x2 :> b @@ x3 :> c @@ x4 :> None @@ x5 :> None),
          gives |-> [d \in Cids |-> "chassis"],
          name |-> (a :> n1 @@ b :> n2 @@ c :> None),
          lldp |-> [d \in Cids |-> {}], cdp |-> [d \in Cids |-> {}],
          wireless |-> {}, seeds |-> <<x1>>, known |-> {}]

(* Every way a may tell of b and c, and these of each other: over LLDP     *)
(* with an address or without, over CDP with an address or a name only.    *)
Address == a :> x1 @@ b :> x2 @@ c :> x3
LldpTold(how, d, port) ==
  CASE how = "lldp" -> {L(d, Address[d], port)} [] how = "lldp name" -> {L(d, None, port)}
    [] OTHER -> {}
CdpTold(how, d, port) ==
  CASE how = "cdp" -> {C(None, Address[d], port, FALSE)}
    [] how = "cdp name" -> {C(IF d = b THEN n2 ELSE n1, None, port, FALSE)}
    [] OTHER -> {}
Ways == {"not", "lldp", "lldp name", "cdp", "cdp name"}
Webs == {[Quiet EXCEPT !.seeds = s, !.name[c] = n1, !.name[a] = None,
            !.lldp = (a :> (LldpTold(h[1], b, 1) \cup LldpTold(h[2], c, 2))
                      @@ b :> LldpTold(h[3], c, 1) @@ c :> LldpTold(h[4], b, 1)),
            !.cdp = (a :> (CdpTold(h[1], b, 1) \cup CdpTold(h[2], c, 2))
                     @@ b :> CdpTold(h[3], c, 1) @@ c :> CdpTold(h[4], b, 1))] :
          h \in {f \in [1 .. 4 -> Ways] : f[4] \in {"not", "lldp", "cdp"}}, s \in {<<x1>>, <<x1, x3>>}}
(* b answers at two addresses, known over LLDP at one, over CDP at both.   *)
TwoAddresses == [Quiet EXCEPT !.host = (x1 :> a @@ x2 :> b @@ x3 :> c @@ x4 :> b @@ x5 :> None),
                   !.lldp = (a :> {L(b, x2, 1)} @@ b :> {} @@ c :> {}),
                   !.cdp = (a :> {C(n2, x2, 1, FALSE), C(None, x3, 2, FALSE)}
                            @@ b :> {C(None, x3, 1, FALSE)} @@ c :> {C(n2, x4, 1, FALSE)})]
(* b is a seed, and c describes it at a dead address; only b knows x5.    *)
DeadToo == [Quiet EXCEPT !.host = (x1 :> b @@ x2 :> b @@ x3 :> c @@ x4 :> None @@ x5 :> None),
               !.lldp = (c :> {L(b, x4, 1)} @@ b :> {L(c, x3, 1)} @@ a :> {}),
               !.cdp = (b :> {C(None, x5, 2, FALSE)} @@ a :> {} @@ c :> {}),
               !.seeds = <<x3, x1>>]
(* A dead address named over LLDP and CDP; a neighbour with no address.    *)
Dead == [Quiet EXCEPT !.host[x3] = None,
           !.lldp = (a :> {L(b, x2, 1)} @@ b :> {L(c, x3, 1), L(None, None, 2)} @@ c :> {}),
           !.cdp = (a :> {C(None, x3, 2, FALSE), C(n2, None, 3, FALSE)} @@ b :> {} @@ c :> {})]
(* b gives no id of its own, c another one than its neighbours tell.       *)
Nameless == [Quiet EXCEPT !.gives[b] = "mac", !.gives[c] = "nothing",
               !.lldp = (a :> {L(b, x2, 1), L(b, x3, 2)} @@ b :> {L(a, x1, 1)} @@ c :> {}),
               !.cdp = (a :> {} @@ b :> {C(None, x3, 1, TRUE)} @@ c :> {C(None, x4, 1, TRUE)}),
               !.seeds = <<x2, x1>>]
(* More seeds than the cap allows.                                         *)
ManySeeds == [Quiet EXCEPT !.seeds = <<x1, x2, x3, x4, x5>>]
(* A crawl from c after an earlier one that knew a and b.                  *)
Later == [Quiet EXCEPT !.seeds = <<x3>>,
            !.lldp = (c :> {L(a, x1, 1), L(b, x4, 2)} @@ a :> {} @@ b :> {}),
            !.cdp = (c :> {C(n1, x1, 3, FALSE)} @@ a :> {} @@ b :> {}),
            !.known = {[id |-> a, ip |-> x1, name |-> n1], [id |-> b, ip |-> None, name |-> n2]}]

AllNetworks == Webs \cup {TwoAddresses, DeadToo, Dead, Nameless, ManySeeds, Later}

(* One device, for a crawl with fewer nodes allowed than workers.          *)
QuietOnly == {Quiet}
=============================================================================
