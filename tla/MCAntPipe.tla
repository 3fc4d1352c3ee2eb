----------------------------- MODULE MCAntPipe ------------------------------
EXTENDS AntPipe

\* One rule per action of the flow table.
MCTable == [i \in 0 .. 4 |->
  CASE i = 0 -> [op |-> "none", arg |-> 0]
    [] i = 1 -> [op |-> "user", arg |-> 3]
    [] i = 2 -> [op |-> "poll", arg |-> 0]
    [] i = 3 -> [op |-> "port", arg |-> 2]
    [] i = 4 -> [op |-> "mid",  arg |-> 9]]

P(dmid, eth, proto, len, good, idx) ==
  [dmid |-> dmid, eth |-> eth, proto |-> proto, len |-> len, good |-> good,
   idx |-> idx]

Tcp == P(1, "ip", "tcp", 6, TRUE, 1)
Udp == P(1, "ip", "udp", 7, TRUE, 2)
Arp == P(1, "arp", "other", 6, TRUE, 3)
Vlan == P(1, "vlan", "other", 6, TRUE, 3)
Lldp == P(1, "other", "other", 6, TRUE, 3)
Bad == P(1, "ip", "udp", 6, FALSE, 4)
NotOurs == P(2, "ip", "tcp", 6, TRUE, 1)
ToPgm == P(6, "other", "other", 6, TRUE, 0)
ToScm == P(7, "other", "other", 7, TRUE, 4)

Mixed == {Tcp, Udp, Bad, NotOurs, ToPgm}
Second == {Tcp, Lldp, ToScm}

\* Which kinds may arrive at each place.
MixedKinds == << Mixed, (Mixed \ {NotOurs}) \cup {Lldp}, Mixed >>
FullKinds == << {Tcp}, Second, {Tcp}, {Arp}, {Vlan} >>
=============================================================================
