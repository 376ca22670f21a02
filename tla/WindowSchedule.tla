--------------------------- MODULE WindowSchedule ---------------------------
(***************************************************************************)
(* What the window scheduler of a Lightning node (window.rs, Windows)      *)
(* promises its caller, without the resolution loop that keeps the promise: *)
(* the schedule is the set of windows the node will act on, and            *)
(*   - push places a Beacon or Parent window at or after the start asked    *)
(*     for, and places a Child window there or drops it;                   *)
(*   - push moves no window but a Beacon, and moves it only later;         *)
(*   - push removes a Child window only to make room for a Parent;         *)
(*   - pop takes the earliest window, pop_kind the window of that kind.    *)
(* Windows.tla is the detailed scheduler; MCWindows maps its queue onto    *)
(* sched and checks that it implements Spec.                               *)
(***************************************************************************)
EXTENDS Naturals, FiniteSets

CONSTANTS
  Kinds,    \* the window kinds: "Beacon", "Child", "Parent"
  Starts    \* the start times a caller may ask for

VARIABLE sched   \* the set of scheduled windows, [kind, start] records

Windows == [kind : Kinds, start : Nat]

TypeOK == sched \subseteq Windows

Init == sched = {}

\* the windows a push of a window of kind k may take out of the schedule
Displaceable(k) == {w \in sched : w.kind = "Beacon" \/ (k = "Parent" /\ w.kind = "Child")}

\* Windows::push(Window { kind: k, start: s })
Push(k, s) ==
  LET removed == sched \ sched'
      added == sched' \ sched
      Moved(w) == \E b \in removed : b.kind = "Beacon" /\ w.kind = "Beacon" /\ b.start < w.start
      Placed(w) == w.kind = k /\ w.start >= s
  IN /\ removed \subseteq Displaceable(k)
     /\ \A w \in added : Placed(w) \/ Moved(w)
     /\ Cardinality({w \in added : Placed(w)}) <= 1
     /\ k # "Child" => \E w \in added : Placed(w)

\* Windows::pop: the window with the earliest start leaves the schedule
Pop ==
  \E w \in sched : /\ \A v \in sched : w.start <= v.start
                   /\ sched' = sched \ {w}

\* Windows::pop_kind(k)
PopKind(k) ==
  \E w \in sched : w.kind = k /\ sched' = sched \ {w}

Next == \/ \E k \in Kinds, s \in Starts : Push(k, s)
        \/ Pop
        \/ \E k \in Kinds : PopKind(k)

Spec == Init /\ [][Next]_sched
=============================================================================
