------------------------------- MODULE MCSim --------------------------------
(* Model-checking instances of the simulator: the constants of lib.rs and   *)
(* simulator/src/main.rs, a few rng outputs, and a horizon on simulated     *)
(* time (run() stops after its number of minutes).                          *)
EXTENDS Sim

\* rng.next_u32() outputs: 0 and one value whose residues are all distinct
MCRand == {0, 123457}

\* the simulated time run() covers, and the time its test assertion is checked at
CONSTANTS Horizon, Deadline

TimeBound == time <= Horizon

\* basic: two nodes that see each other; chain3: 0 - 1 - 2
VisibleAll == {<<a, b>> : a, b \in Nodes}
VisibleChain == {<<0, 1>>, <<1, 2>>}
\* two sinks out of each other's range, each with one node in range of it alone
VisiblePairs == {<<0, 2>>, <<1, 3>>}
(* Bounded delivery, the assertion of the simulator tests basic and chain3: *)
(* by Deadline every node that is not a sink appears as the source of some  *)
(* NodeData in the uplink batches the sinks return from progress.           *)
AllUplinkedByDeadline == time >= Deadline => Nodes \ Sinks \subseteq uplinked
=============================================================================
