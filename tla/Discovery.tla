----------------------------- MODULE Discovery ------------------------------
(***************************************************************************)
(* discovery/subnet.rs, port_scan.rs, ipp.rs, snmp.rs, mdns.rs, mod.rs and  *)
(* local.rs: which addresses a scan asks, and how the answers of the port   *)
(* probe, IPP, SNMP, mDNS and the local queues become one list.             *)
(***************************************************************************)
EXTENDS Lists

CONSTANTS
    Bits,         \* the width of an address, 32 in the code
    MaxAttempts,  \* SNMP_MAX_ATTEMPTS
    Unknown       \* no address, no model, no name: Option::None

ASSUME BitsAssumption == Bits \in Nat \ {0, 1}

\* 2 to the power of k: 1u32 << k.
Pow2[k \in Nat] == IF k = 0 THEN 1 ELSE 2 * Pow2[k - 1]

Address == 0 .. Pow2[Bits] - 1

ASSUME UnknownAssumption == Unknown \notin [ip : Address, prefix : 0 .. Bits]

-----------------------------------------------------------------------------
(* subnet.rs.  A CIDR string is an address and a prefix length; one that    *)
(* does not parse is Unknown.                                               *)

\* decompose_cidr
Decomposes(cidr) == cidr # Unknown /\ cidr.prefix <= Bits

BlockSize(prefix) == Pow2[Bits - prefix]

Network(cidr) == cidr.ip - (cidr.ip % BlockSize(cidr.prefix))

Broadcast(cidr) == Network(cidr) + BlockSize(cidr.prefix) - 1

NormalizeCidr(cidr) == [ip |-> Network(cidr), prefix |-> cidr.prefix]

\* Variant: from the address that was typed instead of the network's.
HostsFromTyped(cidr) ==
    IF ~Decomposes(cidr) THEN {}
    ELSE IF cidr.prefix >= Bits - 1 THEN cidr.ip .. Broadcast(cidr)
         ELSE cidr.ip + 1 .. Broadcast(cidr) - 1

\* parse_cidr: the two widest prefixes have no network and broadcast address.
Hosts(cidr) ==
    IF ~Decomposes(cidr) THEN {}
    ELSE IF cidr.prefix >= Bits - 1 THEN Network(cidr) .. Broadcast(cidr)
         ELSE Network(cidr) + 1 .. Broadcast(cidr) - 1

-----------------------------------------------------------------------------
(* What is at an address, at == net[ip]:                                    *)
(*   ports        the ones of PRINTER_PORTS that are open                   *)
(*   ipp          per path of IPP_PATHS, the model and device id it names   *)
(*   descr, sys   the two SNMP objects a model is read from, each with the  *)
(*                text it has and how many requests are lost before one     *)
(*                comes through                                             *)

OrElse(a, b) == IF a # Unknown THEN a ELSE b

\* query_ipp_attributes: the first path that names anything is the last one asked.
QueryIpp(paths) ==
    LET useful == {k \in DOMAIN paths : paths[k].model # Unknown \/ paths[k].device # Unknown}
    IN  IF useful = {} THEN [model |-> Unknown, device |-> Unknown] ELSE paths[Min(useful)]

\* snmp_get_with_retry
SnmpGet(object) == IF object.lost < MaxAttempts THEN object.text ELSE Unknown

\* snmp.rs identify_printer: no model, no printer.
SnmpModel(at) == OrElse(SnmpGet(at.descr), SnmpGet(at.sys))

Probed(ip, ports, model, methods) ==
    [ip |-> ip, model |-> model, name |-> Unknown, ports |-> ports, methods |-> methods]

Prober(net, hosts) == InOrder({h \in hosts : net[h].ports # {}})

\* Variant: TCP 9100 only.
ScanRawPort(net, hosts) ==
    LET found == InOrder({h \in hosts : 9100 \in net[h].ports})
    IN  [k \in DOMAIN found |-> Probed(found[k], net[found[k]].ports, Unknown, {"port"})]

ScanPortOnly(net, hosts) ==
    LET found == Prober(net, hosts)
    IN  [k \in DOMAIN found |-> Probed(found[k], net[found[k]].ports, Unknown, {"port"})]

ScanSnmpOnly(net, hosts) ==
    LET found == InOrder({h \in hosts : SnmpModel(net[h]) # Unknown})
    IN  [k \in DOMAIN found |-> Probed(found[k], {}, SnmpModel(net[found[k]]), {"snmp"})]

\* One task of scan_all: IPP if its port is open, then SNMP for what is missing.
Identify(ip, at) ==
    LET ipp == IF 631 \in at.ports THEN QueryIpp(at.ipp).model ELSE Unknown
        snmp == SnmpModel(at)
    IN  Probed(ip, at.ports, OrElse(ipp, snmp),
               {"port"} \cup (IF ipp # Unknown THEN {"ipp"} ELSE {})
                        \cup (IF snmp # Unknown THEN {"snmp"} ELSE {}))

\* Variant: SNMP is asked of every host, with open ports or without.
ScanAllSnmp(net, hosts) ==
    LET found == InOrder({h \in hosts : net[h].ports # {} \/ SnmpModel(net[h]) # Unknown})
    IN  [k \in DOMAIN found |-> Identify(found[k], net[found[k]])]

ScanAll(net, hosts) ==
    LET found == Prober(net, hosts)
    IN  [k \in DOMAIN found |-> Identify(found[k], net[found[k]])]

-----------------------------------------------------------------------------
(* mDNS.  An announcement is an address, the service, its port and what the *)
(* TXT record says of the model.                                            *)

ServicePriority == [ipp |-> 4, ipps |-> 3, pdl |-> 2, printer |-> 1, other |-> 0]

CanonicalPort(m) ==
    CASE m.service \in {"ipp", "ipps"} -> 631
      [] m.service = "pdl" -> 9100
      [] m.service = "printer" -> 515
      [] OTHER -> m.port

\* merge_by_ip: the service of the highest priority with the first model named.
Collapse(heard, ip) ==
    LET own == {k \in DOMAIN heard : heard[k].ip = ip}
        named == {k \in own : heard[k].model # Unknown}
        top == Max({ServicePriority[heard[k].service] : k \in own})
        best == {k \in own : ServicePriority[heard[k].service] = top}
    IN  [ip |-> ip, model |-> IF named = {} THEN Unknown ELSE heard[Min(named)].model,
         name |-> heard[Min(own)].host, ports |-> {CanonicalPort(heard[Min(best)])},
         methods |-> {"mdns"}]

\* discover: what was heard before the deadline, one printer per address.
Discover(heard) ==
    LET ips == InOrder({m.ip : m \in Range(heard)})
    IN  [k \in DOMAIN ips |-> Collapse(heard, ips[k])]

\* merge_mdns_results, one announcement at a time.
Backfill(p, m) ==
    [p EXCEPT !.methods = @ \cup {"mdns"}, !.model = OrElse(@, m.model),
              !.name = OrElse(@, m.name), !.ports = @ \cup m.ports]

\* Variant: announcements are added to the list as they are.
MergeUnseen(list, m) == Append(list, m)

MergeOne(list, m) ==
    LET known == {i \in DOMAIN list : list[i].ip = m.ip}
    IN  IF known = {} THEN Append(list, m)
        ELSE [list EXCEPT ![Min(known)] = Backfill(@, m)]

MergeMdns(list, mdns) == FoldLeft(MergeOne, list, mdns)

ByAddress(list) ==
    LET before(i, j) == list[i].ip < list[j].ip \/ (list[i].ip = list[j].ip /\ i < j)
        order == Sorted(DOMAIN list,
                        [i \in DOMAIN list |-> {j \in DOMAIN list : before(j, i)}])
    IN  [k \in DOMAIN list |-> list[order[k]]]

ScanSubnet(net, hosts, method, heard) ==
    LET probed == CASE method = "snmp" -> ScanSnmpOnly(net, hosts)
                    [] method = "port" -> ScanPortOnly(net, hosts)
                    [] method = "mdns" -> <<>>
                    [] method = "all" -> ScanAll(net, hosts)
    IN  ByAddress(IF method \in {"all", "mdns"} THEN MergeMdns(probed, Discover(heard)) ELSE probed)

\* deduplicate: a queue of an address that the scan found is not listed again.
Deduplicate(local, network) ==
    Keep(local, {k \in DOMAIN local :
                    \/ local[k].ip = Unknown
                    \/ \A i \in DOMAIN network : network[i].ip # local[k].ip})

FullDiscovery(net, hosts, method, heard, local) ==
    LET network == ScanSubnet(net, hosts, method, heard)
    IN  network \o Deduplicate(local, network)

-----------------------------------------------------------------------------
(* Properties.                                                             *)

\* A scan asks exactly the addresses that share the prefix and are neither the
\* network's own nor its broadcast, whichever address of it the user typed.
HostsAreTheNetwork(cidr, hosts) ==
    LET inside(a) == a \div Pow2[Bits - cidr.prefix] = cidr.ip \div Pow2[Bits - cidr.prefix]
        last(a) == ~inside(a + 1) \/ a = Pow2[Bits] - 1
        first(a) == a = 0 \/ ~inside(a - 1)
    IN  IF ~Decomposes(cidr) THEN hosts = {}
        ELSE
          /\ \A a \in Address :
             a \in hosts <=> inside(a) /\ (cidr.prefix < Bits - 1 => ~first(a) /\ ~last(a))
          /\ Hosts(NormalizeCidr(cidr)) = hosts

\* Every address that answered a port probe or announced itself is listed once,
\* with the ports it was probed on and with a model if anything that was asked
\* named one; a local queue is listed unless its address is.  With "all" a host
\* is asked by IPP and SNMP only if it has an open port: one that would answer to
\* SNMP alone is not listed (README.md:122 and discovery/mod.rs:18-20 and 38 have
\* every host asked by all three).  With "port" any of the three printer ports
\* will do (README.md:131 has 9100 only).
EveryAnswerIsListed(net, hosts, method, heard, local, list) ==
    LET announced(ip) ==
            {m \in Range(heard) : m.ip = ip /\ method \in {"all", "mdns"}}
        open(ip) == IF ip \in hosts /\ method \in {"all", "port"} THEN net[ip].ports ELSE {}
        snmp(ip) == \E o \in {net[ip].descr, net[ip].sys} :
                       o.text # Unknown /\ o.lost < MaxAttempts
        asked(ip) == ip \in hosts /\ method = "snmp" /\ snmp(ip)
        answers(ip) == asked(ip) \/ open(ip) # {} \/ announced(ip) # {}
        named(ip) ==
            \/ asked(ip)
            \/ method = "all" /\ open(ip) # {} /\ snmp(ip)
            \/ method = "all" /\ 631 \in open(ip) /\ QueryIpp(net[ip].ipp).model # Unknown
            \/ \E m \in announced(ip) : m.model # Unknown
        rows(ip) == {i \in DOMAIN list : list[i].ip = ip /\ list[i].methods # {"local"}}
    IN  /\ \A ip \in Address :
             /\ Cardinality(rows(ip)) = IF answers(ip) THEN 1 ELSE 0
             /\ \A i \in rows(ip) :
                  /\ list[i].model # Unknown <=> named(ip)
                  /\ open(ip) \subseteq list[i].ports
        /\ \A q \in Range(local) :
             q \in Range(list) <=> (q.ip = Unknown \/ ~answers(q.ip))

=============================================================================
