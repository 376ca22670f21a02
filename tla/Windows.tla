------------------------------- MODULE Windows -------------------------------
(***************************************************************************)
(* The window scheduler of a Lightning node (lightning/src/window.rs).     *)
(*                                                                         *)
(* A window is a record [kind, start]; the queue is a sequence of windows  *)
(* kept sorted by start, as heapless::SortedLinkedList<_, Min> keeps it.   *)
(* This module has no variables: every operation of Windows is an operator *)
(* from a queue (and arguments) to a result, so that the node model and    *)
(* the stand-alone scheduler model use the same definitions.  A panic of   *)
(* the code (unreachable!() or a failed .unwrap() on a full queue) is      *)
(* returned as the "fault" field of the result of Push.                    *)
(***************************************************************************)
EXTENDS Naturals, Sequences, SequencesExt

CONSTANTS
  BeaconDuration,   \* WindowKind::Beacon.duration()
  ChildDuration,    \* WindowKind::Child.duration()
  ParentDuration,   \* WindowKind::Parent.duration()
  Clearance,        \* Windows.clearance (MIN_WINDOW_CLEARANCE)
  MsPerMin,         \* MS_PER_MIN, the step of WindowDelayIncrement::Minutes
  MaxWindows,       \* capacity of the queue (MAX_WINDOWS)
  MaxChildren       \* MAX_CHILDREN, the count that makes is_full() true

ASSUME /\ {BeaconDuration, ChildDuration, ParentDuration, Clearance} \subseteq Nat
       /\ MsPerMin \in Nat \ {0}
       /\ MaxChildren \in Nat /\ MaxWindows \in Nat

Kinds == {"Beacon", "Child", "Parent"}
Faults == {"none", "unreachable", "full"}

\* WindowKind::duration
Duration(k) ==
  [Beacon |-> BeaconDuration, Child |-> ChildDuration, Parent |-> ParentDuration][k]

\* Window::end
End(w) == w.start + Duration(w.kind)

\* WindowDelayIncrement::as_ms
Step(increment) == IF increment = "Minutes" THEN MsPerMin ELSE 1

\* u64::div_ceil and u64::saturating_sub
CeilDiv(a, b) == (a + b - 1) \div b
SatSub(a, b) == IF a > b THEN a - b ELSE 0

\* mutant: the window may stay where it is when it merely ends before the
\* first queued window, without the clearance
DelayWithoutLeadingClearance(w, q, increment) ==
  LET step == Step(increment)
      DelayTo(t) == w.start + step * CeilDiv(SatSub(t, w.start), step)
      GapLo(i) == End(q[i - 1]) + Clearance
      GapHi(i) == q[i].start - Clearance
      InGap(i, t) == GapLo(i) <= t /\ t <= GapHi(i)
      Fits(i) == /\ InGap(i, DelayTo(GapLo(i)))
                 /\ InGap(i, DelayTo(GapLo(i)) + Duration(w.kind))
      fitting == {i \in 2..Len(q) : Fits(i)}
  IN IF q = <<>> \/ End(w) <= q[1].start THEN w
     ELSE IF fitting # {} THEN [w EXCEPT !.start = DelayTo(GapLo(Min(fitting)))]
     ELSE [w EXCEPT !.start = DelayTo(End(q[Len(q)]) + Clearance)]

(***************************************************************************)
(* Window::delay: move w later by a multiple of the increment so that it   *)
(* fits before the first window, in the first gap between two windows     *)
(* that can hold it, or else after the last window.                        *)
(***************************************************************************)
Delay(w, q, increment) ==
  LET step == Step(increment)
      DelayTo(t) == w.start + step * CeilDiv(SatSub(t, w.start), step)
      GapLo(i) == End(q[i - 1]) + Clearance
      GapHi(i) == q[i].start - Clearance
      InGap(i, t) == GapLo(i) <= t /\ t <= GapHi(i)
      Fits(i) == /\ InGap(i, DelayTo(GapLo(i)))
                 /\ InGap(i, DelayTo(GapLo(i)) + Duration(w.kind))
      fitting == {i \in 2..Len(q) : Fits(i)}
  IN IF q = <<>> \/ End(w) + Clearance <= q[1].start THEN w
     ELSE IF fitting # {} THEN [w EXCEPT !.start = DelayTo(GapLo(Min(fitting)))]
     ELSE [w EXCEPT !.start = DelayTo(End(q[Len(q)]) + Clearance)]

\* SortedLinkedList<_, Min>::push: before the first window that starts no
\* earlier than w (heapless inserts before equal keys)
Insert(q, w) ==
  LET later == {i \in 1..Len(q) : q[i].start >= w.start}
  IN IF later = {} THEN Append(q, w) ELSE InsertAt(q, Min(later), w)

\* mutant: overlap tested without the clearance margin
OverlappingWithoutClearance(new, w) ==
  ~(End(new) <= w.start \/ new.start >= End(w))

\* the predicate of Windows::pop_overlapping_window
Overlapping(new, w) ==
  ~(End(new) + Clearance <= w.start \/ new.start >= End(w) + Clearance)

\* the final self.queue.push(..).unwrap() of an iteration of Windows::push
Enqueue(q, w) ==
  IF Len(q) = MaxWindows THEN [queue |-> q, fault |-> "full"]
  ELSE [queue |-> Insert(q, w), fault |-> "none"]

\* mutant: a Child window that conflicts with a pushed Parent window is
\* delayed like a Beacon instead of dropped
RECURSIVE PushLoopDelayChild(_, _)
PushLoopDelayChild(q, new) ==
  LET i == SelectInSeq(q, LAMBDA x : Overlapping(new, x))
      ov == q[i]
      rest == RemoveAt(q, i)
      moved == [ov EXCEPT !.start = End(new) + Clearance]
  IN IF i = 0 THEN Enqueue(q, new)
     ELSE CASE ov.kind = "Beacon" ->
                 PushLoopDelayChild(Insert(rest, Delay(moved, rest, "Milliseconds")), new)
            [] new.kind = "Beacon" ->
                 Enqueue(Insert(rest, ov), Delay(new, Insert(rest, ov), "Milliseconds"))
            [] new.kind = "Child" /\ ov.kind = "Parent" ->
                 [queue |-> Insert(rest, ov), fault |-> "none"]
            [] new.kind = "Parent" /\ ov.kind = "Child" ->
                 PushLoopDelayChild(Insert(rest, Delay(moved, rest, "Milliseconds")), new)
            [] OTHER -> [queue |-> q, fault |-> "unreachable"]

(***************************************************************************)
(* Windows::push: the loop that resolves the overlaps of the new window    *)
(* with the queue, one overlapping window at a time, by kind priority.     *)
(***************************************************************************)
RECURSIVE PushLoop(_, _)
PushLoop(q, new) ==
  LET i == SelectInSeq(q, LAMBDA x : Overlapping(new, x))
      ov == q[i]
      rest == RemoveAt(q, i)
      moved == [ov EXCEPT !.start = End(new) + Clearance]
  IN IF i = 0 THEN Enqueue(q, new)
     ELSE CASE ov.kind = "Beacon" ->
                 PushLoop(Insert(rest, Delay(moved, rest, "Milliseconds")), new)
            [] new.kind = "Beacon" ->
                 Enqueue(Insert(rest, ov), Delay(new, Insert(rest, ov), "Milliseconds"))
            [] new.kind = "Child" /\ ov.kind = "Parent" ->
                 [queue |-> Insert(rest, ov), fault |-> "none"]
            [] new.kind = "Parent" /\ ov.kind = "Child" ->
                 PushLoop(rest, new)
            [] OTHER -> [queue |-> q, fault |-> "unreachable"]

Push(q, w) == PushLoop(q, w)

\* Windows::pop_kind
PopKind(q, k) ==
  LET i == SelectInSeq(q, LAMBDA x : x.kind = k)
  IN IF i = 0 THEN q ELSE RemoveAt(q, i)

\* Windows::is_full
IsFull(q) == Cardinality({i \in DOMAIN q : q[i].kind = "Child"}) = MaxChildren

\* Window::get_offset_min (the assert_eq! of a whole number of minutes is
\* the caller's obligation, see OffsetIsWholeMinutes)
OffsetMin(w, time) == (w.start - time) \div MsPerMin
OffsetIsWholeMinutes(w, time) == (w.start - time) % MsPerMin = 0

-----------------------------------------------------------------------------
(***************************************************************************)
(* Reference definitions, stated from what the doc comments of window.rs   *)
(* promise rather than from how the loop computes it.                      *)
(***************************************************************************)

\* Adjacent windows keep a distance of Clearance (the doc comment of delay).
Separated(q) ==
  \A i \in 1..Len(q) - 1 : End(q[i]) + Clearance <= q[i + 1].start

\* A window starting at s of kind k keeps Clearance to every window of q,
\* on whichever side of it that window lies.
FreeAt(q, k, s) ==
  \A i \in DOMAIN q : \/ s + Duration(k) + Clearance <= q[i].start
                     \/ End(q[i]) + Clearance <= s

\* The earliest start w.start + n * step, n >= 0, at which w overlaps nothing.
EarliestFit(w, q, increment) ==
  LET step == Step(increment)
      last == IF q = <<>> THEN w.start ELSE End(q[Len(q)]) + Clearance
      n == Min({j \in 0..CeilDiv(SatSub(last, w.start), step) :
                  FreeAt(q, w.kind, w.start + j * step)})
  IN [w EXCEPT !.start = w.start + n * step]
=============================================================================
