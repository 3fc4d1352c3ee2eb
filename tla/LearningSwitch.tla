--------------------------- MODULE LearningSwitch ---------------------------
(***************************************************************************)
(* What a self-learning Ethernet switch promises: while it handles a frame *)
(* it takes the sender to be behind the port the frame came from, or knows *)
(* nothing of the sender; it may forget an address at any time; and it     *)
(* sends the frame to the port where the receiver is known to be, or to    *)
(* all ports, and never back where it came from.  L2Switch implements it.  *)
(***************************************************************************)
CONSTANTS Macs, Receivers, Ports, NoPort

Frame == [smac : Macs, dmac : Receivers, inport : Ports]

VARIABLES known,   \* address -> the port it is behind, or NoPort
          stage,   \* "idle", "learn" or "forward"
          frame,   \* the frame being handled
          out      \* the ports the last frame was sent to

avars == <<known, stage, frame, out>>

AInit == /\ known = [m \in Macs |-> NoPort]
         /\ stage = "idle"
         /\ frame \in Frame
         /\ out = {}

Arrive(f) == /\ stage = "idle"
             /\ stage' = "learn"
             /\ frame' = f
             /\ out' = {}
             /\ UNCHANGED known

\* A full table, or an entry aged at this moment, leaves the sender unknown:
\* a wrong port is never kept.
Learn == /\ stage = "learn"
         /\ stage' = "forward"
         /\ \/ known' = [known EXCEPT ![frame.smac] = frame.inport]
            \/ known[frame.smac] = NoPort /\ UNCHANGED known
         /\ UNCHANGED <<frame, out>>

Forget(m) == /\ known' = [known EXCEPT ![m] = NoPort]
             /\ UNCHANGED <<stage, frame, out>>

Forward == /\ stage = "forward"
           /\ stage' = "idle"
           /\ out' = IF known[frame.dmac] \in {NoPort, frame.inport}
                     THEN Ports \ {frame.inport} ELSE {known[frame.dmac]}
           /\ UNCHANGED <<known, frame>>

ANext == \/ \E f \in Frame : Arrive(f)
         \/ \E m \in Macs : Forget(m)
         \/ Learn \/ Forward

ASpec == AInit /\ [][ANext]_avars
=============================================================================
