---------------------------- MODULE NnAdmission -----------------------------
(***************************************************************************)
(* What the service promises to the programs that connect to it, with the  *)
(* streams, the accept loop, the pool and every packet taken away: a roll  *)
(* of the peers that were admitted.                                        *)
(*                                                                         *)
(* A peer's id is its place on the roll.  Only a peer that has asked is    *)
(* entered, only while the broker runs and once; the roll is never         *)
(* rewritten, so an id is nobody else's, even after its peer has left.  A  *)
(* peer may learn its own id and no other.  Who is turned away is never    *)
(* entered afterwards, and nobody on the roll is turned away.              *)
(*                                                                         *)
(* NnHandshake implements this specification.                              *)
(***************************************************************************)
EXTENDS Naturals, Sequences

CONSTANT Peers

VARIABLES
  broker,   \* "running" or "exited"
  asked,    \* the peers that have sent a RemoteNnHello
  roll,     \* Seq(Peers)  the admitted, in the order of their ids
  refused,  \* the peers that were turned away
  knows     \* [Peers -> Nat]  the id a peer was told, 0 before

vars == <<broker, asked, roll, refused, knows>>

Enrolled == {roll[i] : i \in DOMAIN roll}

Init ==
  /\ broker = "running"
  /\ asked = {}
  /\ roll = <<>>
  /\ refused = {}
  /\ knows = [p \in Peers |-> 0]

Ask(p) ==
  /\ asked' = asked \cup {p}
  /\ UNCHANGED <<broker, roll, refused, knows>>

Admit(p) ==
  /\ broker = "running"
  /\ p \in asked \ (refused \cup Enrolled)
  /\ roll' = Append(roll, p)
  /\ UNCHANGED <<broker, asked, refused, knows>>

Learn(p) ==
  /\ knows[p] = 0
  /\ \E i \in DOMAIN roll : roll[i] = p /\ knows' = [knows EXCEPT ![p] = i]
  /\ UNCHANGED <<broker, asked, roll, refused>>

\* Several at once when the accept loop panics.
TurnAway(some) ==
  /\ some \cap (refused \cup Enrolled) = {}
  /\ refused' = refused \cup some
  /\ UNCHANGED <<broker, asked, roll, knows>>

Close ==
  /\ broker' = "exited"
  /\ UNCHANGED <<asked, roll, refused, knows>>

Next ==
  \/ \E p \in Peers : Ask(p) \/ Admit(p) \/ Learn(p)
  \/ \E some \in SUBSET Peers : TurnAway(some)
  \/ Close

Spec == Init /\ [][Next]_vars
=============================================================================
