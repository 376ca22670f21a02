-------------------------------- MODULE Sim ---------------------------------
(***************************************************************************)
(* The discrete-event simulator (simulator/src/main.rs run, sim.rs) driving *)
(* the Lightning nodes of Lightning.tla.                                   *)
(*                                                                         *)
(* events is the simulator's SortedLinkedList<Event>: a sequence of        *)
(* [time, node, msg] sorted by time, where a new event goes after the      *)
(* events of equal time.  msg is None (the node's next progress call), a   *)
(* Transmit (the node's message is about to leave) or a Receive (a message *)
(* arrives, possibly corrupted by a collision).  receiving[n] is           *)
(* ProtocolWrapper.receiving_channel.  One step of the model is one        *)
(* iteration of the loop of run().                                         *)
(***************************************************************************)
EXTENDS Lightning

CONSTANTS
  Visible,                 \* the pairs of the VisibilitytMap (order ignored)
  TIME_ON_AIR,
  STARTUP_DELAY_RANGE_MS,
  Lossy                    \* PACKET_ERROR_RATE_PPT is Some(_): any recipient may lose a message

VARIABLES
  time,        \* the simulated time of run()
  events,      \* the event queue
  receiving,   \* receiving[n]: the channel n listens on, or None
  simFault     \* "none", or the panic of the simulator loop

simVars == <<time, events, receiving, simFault>>
vars == <<nodeVars, simVars>>

\* VisibilitytMap::get: the map is symmetric
Vis(a, b) == <<a, b>> \in Visible \/ <<b, a>> \in Visible

Event(t, n, msg) == [time |-> t, node |-> n, msg |-> msg]
IsKind(msg, k) == msg # None /\ msg.kind = k

\* sorted_linked_list::SortedLinkedList::push: before the first greater event
EventPush(q, e) ==
  LET later == {i \in 1..Len(q) : q[i].time > e.time}
  IN IF later = {} THEN Append(q, e) ELSE InsertAt(q, Min(later), e)

\* SortedLinkedList::pop: the first event and the rest of the queue
EventPop(q) == [event |-> Head(q), rest |-> Tail(q)]

\* SortedLinkedList::retain with the closure of forward_message: the events
\* of nodes outside gone, in order
EventRetain(q, gone) == SelectSeq(q, LAMBDA e : e.node \notin gone)

\* mutant: recipients taken from every listening node, whatever its channel
RecipientsAnyChannel(sender, ch) ==
  SetToSortSeq({r \in Nodes : receiving[r] # None /\ Vis(sender, r) /\ r # sender}, <)

\* get_recipients, in node order
Recipients(sender, ch) ==
  SetToSortSeq({r \in Nodes : receiving[r] = ch /\ Vis(sender, r) /\ r # sender}, <)

(***************************************************************************)
(* The collision loop of forward_message: walk the queue from its head     *)
(* until an event that cannot overlap; a pending reception on the same     *)
(* channel is marked corrupt and the recipients visible to the sender are  *)
(* struck out.  event.time - TIME_ON_AIR is u64 arithmetic, which panics   *)
(* in a debug build when the event is earlier than TIME_ON_AIR.            *)
(***************************************************************************)
\* mutant: a pending reception is marked corrupt, but the recipients it
\* collides with still get the new message
RECURSIVE CollideKeepRecipients(_, _, _, _, _, _)
CollideKeepRecipients(q, i, dep, sender, ch, rs) ==
  IF i > Len(q) THEN [queue |-> q, recipients |-> rs, underflow |-> FALSE]
  ELSE LET e == q[i]
           hit == {r \in Range(rs) : Vis(sender, r)}
       IN IF dep >= e.time THEN [queue |-> q, recipients |-> rs, underflow |-> FALSE]
          ELSE IF e.time < TIME_ON_AIR THEN [queue |-> q, recipients |-> rs, underflow |-> TRUE]
          ELSE IF dep + TIME_ON_AIR <= e.time - TIME_ON_AIR
               THEN [queue |-> q, recipients |-> rs, underflow |-> FALSE]
          ELSE IF ~IsKind(e.msg, "Receive") \/ e.msg.channel # ch
               THEN CollideKeepRecipients(q, i + 1, dep, sender, ch, rs)
          ELSE CollideKeepRecipients(IF hit # {} THEN [q EXCEPT ![i].msg.corrupt = TRUE] ELSE q,
                                     i + 1, dep, sender, ch, rs)

RECURSIVE Collide(_, _, _, _, _, _)
Collide(q, i, dep, sender, ch, rs) ==
  IF i > Len(q) THEN [queue |-> q, recipients |-> rs, underflow |-> FALSE]
  ELSE LET e == q[i]
           hit == {r \in Range(rs) : Vis(sender, r)}
       IN IF dep >= e.time THEN [queue |-> q, recipients |-> rs, underflow |-> FALSE]
          ELSE IF e.time < TIME_ON_AIR THEN [queue |-> q, recipients |-> rs, underflow |-> TRUE]
          ELSE IF dep + TIME_ON_AIR <= e.time - TIME_ON_AIR
               THEN [queue |-> q, recipients |-> rs, underflow |-> FALSE]
          ELSE IF ~IsKind(e.msg, "Receive") \/ e.msg.channel # ch
               THEN Collide(q, i + 1, dep, sender, ch, rs)
          ELSE Collide(IF hit # {} THEN [q EXCEPT ![i].msg.corrupt = TRUE] ELSE q,
                       i + 1, dep, sender, ch, SelectSeq(rs, LAMBDA r : r \notin hit))

\* mutant: the receptions are queued but the recipients' events are kept
DeliverWithoutCancel(q, rs, dep, ch, message) ==
  FoldLeft(LAMBDA acc, r : EventPush(acc, Event(dep + TIME_ON_AIR, r,
                     [kind |-> "Receive", channel |-> ch, message |-> message,
                      corrupt |-> FALSE])), q, rs)

\* cancel the recipients' events and queue the receptions
Deliver(q, rs, dep, ch, message) ==
  FoldLeft(LAMBDA acc, r : EventPush(acc, Event(dep + TIME_ON_AIR, r,
                     [kind |-> "Receive", channel |-> ch, message |-> message,
                      corrupt |-> FALSE])),
           EventRetain(q, Range(rs)), rs)

\* the recipients left after the packet-error simulation
Lost(rs) == IF Lossy THEN SUBSET Range(rs) ELSE {{}}

\* ProtocolWrapper::progress: the receiving channel of the returned action
ListeningOn(a) == IF a.kind = "Receive" THEN a.channel ELSE None

-----------------------------------------------------------------------------
Init ==
  /\ NodeInit
  /\ time = 0
  /\ receiving = [n \in Nodes |-> None]
  /\ simFault = "none"
  /\ \E d \in [Nodes -> Rand] :
       events = FoldLeft(LAMBDA q, n : EventPush(q, Event(d[n] % STARTUP_DELAY_RANGE_MS, n, None)),
                         <<>>, SetToSortSeq(Nodes, <))

Running == fault = "none" /\ simFault = "none"

\* the assertions at the top of the loop of run(): one event per node in
\* the queue, and the popped event is not earlier than the current time
LoopChecks(e) == Len(events) = Cardinality(Nodes) /\ e.time >= time

\* a Transmit event: forward_message, then the sender's next progress call
\* one TIME_ON_AIR later
Transmit ==
  LET e == EventPop(events).event
      c == Collide(EventPop(events).rest, 1, e.time, e.node, e.msg.channel,
                   Recipients(e.node, e.msg.channel))
  IN /\ Running /\ IsKind(e.msg, "Transmit")
     /\ time' = e.time
     /\ IF ~LoopChecks(e) \/ c.underflow
        THEN /\ simFault' = IF LoopChecks(e) THEN "time_underflow" ELSE "loop_assert"
             /\ UNCHANGED <<events, receiving>>
        ELSE \E lost \in Lost(c.recipients) :
               LET rs == SelectSeq(c.recipients, LAMBDA r : r \notin lost)
                   q == IF c.recipients = <<>> THEN c.queue
                        ELSE Deliver(c.queue, rs, e.time, e.msg.channel, e.msg.message)
               IN /\ events' = EventPush(q, Event(e.time + TIME_ON_AIR, e.node, None))
                  /\ UNCHANGED <<receiving, simFault>>
     /\ UNCHANGED nodeVars

\* any other event: ProtocolWrapper::progress with the received message
\* (None when corrupt), the end-in-the-past check, and the next event of the
\* node as its action asks
Step ==
  LET e == EventPop(events).event
      n == e.node
      m == IF IsKind(e.msg, "Receive") /\ ~e.msg.corrupt THEN e.msg.message ELSE None
      a == GetAction(state'[n])
  IN /\ Running /\ ~IsKind(e.msg, "Transmit")
     /\ time' = e.time
     /\ Progress(n, e.time, m)
     /\ receiving' = [receiving EXCEPT ![n] = ListeningOn(a)]
     /\ simFault' = IF ~LoopChecks(e) THEN "loop_assert"
                    ELSE IF a.kind \in {"Wait", "Receive"} /\ a.end < e.time
                    THEN "end_in_past" ELSE "none"
     /\ events' = EventPush(EventPop(events).rest,
                    CASE a.kind \in {"Wait", "Receive"} -> Event(a.end, n, None)
                      [] a.kind = "Transmit" ->
                           Event(e.time + a.delay, n, [kind |-> "Transmit", channel |-> a.channel,
                                                       message |-> a.message, corrupt |-> FALSE])
                      [] a.kind = "None" -> Event(e.time, n, None))

Next == Transmit \/ Step

Spec == Init /\ [][Next]_vars

-----------------------------------------------------------------------------
StateNames == {"Reset", "SendConnect", "SendBeacon", "SendConnectAck", "SendData",
               "SendDataAck"} \cup WaitStates \cup ReceiveStates
Channels == 0..NUM_CHANNELS - 1

TypeOK ==
  /\ \A n \in Nodes : state[n].name \in StateNames
  /\ \A n \in Nodes : ctx[n].hops \in 0..MAX_HOPS \cup {None}
                   /\ Len(ctx[n].child_data) <= MAX_DESCENDANTS
                   /\ Len(ctx[n].windows) <= MAX_WINDOWS
  /\ uplinked \subseteq Nodes
  /\ time \in Nat
  /\ receiving \in [Nodes -> Channels \cup {None}]
  /\ \A i \in DOMAIN events :
       /\ events[i].node \in Nodes /\ events[i].time \in Nat
       /\ events[i].msg = None \/ events[i].msg.channel \in Channels

(* No node and no part of the simulator panics: no unreachable!() of        *)
(* Windows::push, no unwrap of a full or empty window queue, no overflow of *)
(* the beacon list, the child data or the hop count, no failed assertion of *)
(* Idle or get_offset_min, no action that ends in the past and no failed   *)
(* assertion of the loop of run() (main.rs), and no u64 underflow in the    *)
(* collision check of forward_message.                                      *)
NoPanic == fault = "none" /\ simFault = "none"

(* The loop of run() asserts that the queue holds one event per node; the  *)
(* stronger statement holds: every node has exactly one pending event,     *)
(* however forward_message cancels and queues receptions.                  *)
OneEventPerNode ==
  \A n \in Nodes : Cardinality({i \in DOMAIN events : events[i].node = n}) = 1

(* A pending reception is only ever for a node in a listening state, on    *)
(* the channel it listens on: the arms of Lightning::next that call        *)
(* unreachable!() for a message in a send or wait state are never taken.   *)
ReceptionsTargetListeners ==
  \A i \in DOMAIN events :
    IsKind(events[i].msg, "Receive") =>
      /\ state[events[i].node].name \in ReceiveStates
      /\ receiving[events[i].node] = events[i].msg.channel

\* the pending event of node x in the queue q (one per node: OneEventPerNode)
EventOf(q, x) == q[CHOOSE i \in DOMAIN q : q[i].node = x]

\* a reception pending at x on channel ch whose air interval overlaps a
\* transmission departing at dep: it arrives after dep, departed TIME_ON_AIR
\* before
OverlapsOnAir(ev, ch, dep) ==
  IsKind(ev.msg, "Receive") /\ ev.msg.channel = ch /\ ev.time > dep

(* The collision rule of forward_message as spec.md states it: when a      *)
(* message departs on channel ch, every reception pending on ch whose air  *)
(* interval overlaps it, at a node the sender reaches, is marked corrupt   *)
(* and that node gets no copy of the new message; a pending reception at a *)
(* node the sender does not reach is left as it is; and, without packet   *)
(* errors, every other node the sender reaches that listens on ch gets the *)
(* message intact one TIME_ON_AIR later.                                   *)
CollisionRule ==
  [][LET e == Head(events)
         ch == e.msg.channel
     IN Running /\ IsKind(e.msg, "Transmit") /\ simFault' = "none" =>
        \A x \in Nodes \ {e.node} :
          LET old == EventOf(Tail(events), x)
              new == EventOf(events', x)
          IN /\ OverlapsOnAir(old, ch, e.time) =>
                  new = [old EXCEPT !.msg.corrupt = old.msg.corrupt \/ Vis(e.node, x)]
             /\ ~OverlapsOnAir(old, ch, e.time) /\ ~Lossy
                /\ Vis(e.node, x) /\ receiving[x] = ch =>
                  new = Event(e.time + TIME_ON_AIR, x,
                              [kind |-> "Receive", channel |-> ch,
                               message |-> e.msg.message, corrupt |-> FALSE])]_vars
(* A Data message leaves while a node in range listens for child data on   *)
(* its channel: the parent's Child window, computed by DelayConnectAck and *)
(* re-anchored by SendConnectAck, and renewed by every DataAck, is open    *)
(* when the child's Parent window, computed from the announced minutes, has *)
(* it send.                                                                 *)
DataMeetsListeningParent ==
  LET e == Head(events)
  IN Running /\ IsKind(e.msg, "Transmit") /\ e.msg.message.type = "Data" =>
       \E p \in Nodes : /\ Vis(e.node, p) /\ state[p].name = "ListenForData"
                        /\ receiving[p] = e.msg.channel
=============================================================================
