-------------------------------- MODULE Gke ---------------------------------
(***************************************************************************)
(* gke.v: the generic key extractor.  The metadata go through two          *)
(* registers; beside them the header fields are taken out of the PHV and   *)
(* packed into a key, so that key and metadata reach gme in one clock.     *)
(***************************************************************************)
EXTENDS FastMd

VARIABLES
  gkeMdDly,   \* in_gke_md_dly, in_gke_md_wr_dly
  gkeFields,  \* DMAC ... INPORT: the packet they were taken from
  gkeSwitch,  \* pst_switch: no key, an empty key, or the fields
  gkeKeyOut,  \* out_gke_key, out_gke_key_wr
  gkeMdOut    \* out_gke_md, out_gke_md_wr

gkeVars == <<gkeMdDly, gkeFields, gkeSwitch, gkeKeyOut, gkeMdOut>>

\* A key is the packet its fields come from, 0 for the all-zero key.
KeyBus == [wr : BOOLEAN, pkt : Nat]
NoKey == [wr |-> FALSE, pkt |-> 0]

GkeTypeOK ==
  /\ gkeMdDly \in Md
  /\ gkeFields \in Nat
  /\ gkeSwitch \in {"off", "zero", "fields"}
  /\ gkeKeyOut \in KeyBus
  /\ gkeMdOut \in Md

GkeInit ==
  /\ gkeMdDly = NoMd
  /\ gkeFields = 0
  /\ gkeSwitch = "off"
  /\ gkeKeyOut = NoKey
  /\ gkeMdOut = NoMd
-----------------------------------------------------------------------------
\* Only these have a key layout.
KnownPst(m) == m.pst \in {"ip", "tcp", "udp", "arp"}

GkeMetadata(m) ==
  /\ gkeMdDly' = m
  /\ gkeMdOut' = IF gkeMdDly.wr
                 THEN IF gkeMdDly.dmid = 2 THEN [gkeMdDly EXCEPT !.dmid = 3]
                                           ELSE gkeMdDly
                 ELSE NoMd

GkeFetchKnown(m) ==
  \/ /\ m.wr /\ m.dmid = 2 /\ KnownPst(m)
     /\ gkeFields' = m.pkt /\ gkeSwitch' = "fields"
  \/ /\ ~(m.wr /\ m.dmid = 2 /\ KnownPst(m))
     /\ gkeSwitch' = "off" /\ UNCHANGED gkeFields
GkeFetch(m) ==
  \/ /\ m.wr /\ m.dmid = 2 /\ KnownPst(m)
     /\ gkeFields' = m.pkt /\ gkeSwitch' = "fields"
  \/ /\ m.wr /\ m.dmid = 2 /\ ~KnownPst(m)
     /\ gkeSwitch' = "zero" /\ UNCHANGED gkeFields
  \/ /\ ~(m.wr /\ m.dmid = 2)
     /\ gkeSwitch' = "off" /\ UNCHANGED gkeFields

GkeKey ==
  gkeKeyOut' = CASE gkeSwitch = "fields" -> [wr |-> TRUE, pkt |-> gkeFields]
                 [] gkeSwitch = "zero"   -> [wr |-> TRUE, pkt |-> 0]
                 [] OTHER                -> NoKey

GkeClock(m) == GkeMetadata(m) /\ GkeFetch(m) /\ GkeKey
=============================================================================
