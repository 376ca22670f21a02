------------------------------ MODULE MCWindows ------------------------------
(***************************************************************************)
(* The window scheduler on its own: any sequence of the push, pop and      *)
(* pop_kind calls the state machine makes, under the obligations its       *)
(* callers are documented to keep (one Beacon, one Parent, Child windows   *)
(* that do not overlap each other, at most MaxChildren of them).           *)
(***************************************************************************)
EXTENDS Windows

CONSTANT Starts   \* the start times offered to push

VARIABLES
  queue,   \* Windows.queue
  fault    \* "none", or the panic a call of push ended in

vars == <<queue, fault>>

Window(k, s) == [kind |-> k, start |-> s]
Count(k) == Cardinality({i \in DOMAIN queue : queue[i].kind = k})

TypeOK ==
  /\ queue \in Seq([kind : Kinds, start : Nat])
  /\ Len(queue) <= MaxWindows
  /\ fault \in Faults

Init == queue = <<>> /\ fault = "none"

Apply(result) == queue' = result.queue /\ fault' = result.fault

\* Windows::push of a Beacon window while none is queued
PushBeacon ==
  /\ fault = "none"
  /\ Count("Beacon") = 0
  /\ \E s \in Starts : Apply(Push(queue, Window("Beacon", s)))

\* Windows::push of a Parent window while none is queued
PushParent ==
  /\ fault = "none"
  /\ Count("Parent") = 0
  /\ \E s \in Starts : Apply(Push(queue, Window("Parent", s)))

\* Windows::push of a Child window that overlaps no queued Child window
PushChild ==
  /\ fault = "none"
  /\ ~IsFull(queue)
  /\ \E s \in Starts :
       /\ \A i \in DOMAIN queue :
            queue[i].kind = "Child" => ~Overlapping(Window("Child", s), queue[i])
       /\ Apply(Push(queue, Window("Child", s)))

\* Windows::pop
Pop ==
  /\ fault = "none"
  /\ queue # <<>>
  /\ queue' = Tail(queue)
  /\ UNCHANGED fault

\* Windows::pop_kind(Beacon)
PopBeacon ==
  /\ fault = "none"
  /\ Count("Beacon") = 1
  /\ queue' = PopKind(queue, "Beacon")
  /\ UNCHANGED fault

Next == PushBeacon \/ PushParent \/ PushChild \/ Pop \/ PopBeacon

Spec == Init /\ [][Next]_vars

-----------------------------------------------------------------------------
\* Every push and pop leaves the queue sorted with Clearance between adjacent
\* windows, and push never reaches unreachable!() or a full queue, when the
\* callers keep their obligations (Windows::push, the resolution loop).
QueueSeparated == fault = "none" /\ Separated(queue)

\* Window::delay moves a window to the earliest multiple of the increment at
\* which it overlaps no queued window, for every kind, start and increment.
DelayIsEarliestFit ==
  \A k \in Kinds, s \in Starts, inc \in {"Milliseconds", "Minutes"} :
    Delay(Window(k, s), queue, inc) = EarliestFit(Window(k, s), queue, inc)

\* the schedule the queue stands for: the set of its windows
Abs == INSTANCE WindowSchedule WITH sched <- Range(queue)

\* Every push, pop and pop_kind of Windows keeps the promises of the
\* scheduler (WindowSchedule): the resolution loop of push moves only Beacon
\* windows and only later, drops a Child window only for a Parent, places
\* every Beacon and Parent window no earlier than asked, and pop takes the
\* earliest window.
ImplementsSchedule == Abs!Spec
=============================================================================
