------------------------------ MODULE Lightning ------------------------------
(***************************************************************************)
(* The Lightning protocol state machine of every node (lightning/src/      *)
(* state_machine.rs, lightning.rs, states.rs, context.rs, channel.rs).     *)
(*                                                                         *)
(* Each arm of the match in Lightning::next is one action Handler(n, t, m) *)
(* for node n called at time t with the received message m (None when no  *)
(* message arrived).  Every action ends in Become, which is the rest of    *)
(* Lightning::progress: store the next state and, on a sink, drain the     *)
(* collected child data into an uplink batch.  The driver that decides    *)
(* when progress is called and which message it receives is the           *)
(* simulator, modelled in Sim.tla.                                         *)
(*                                                                         *)
(* Data abstraction: a NodeData is its source; the payload is dropped      *)
(* because the simulator gives every node the same dummy payload again     *)
(* after every progress call (sim.rs:75-78), so a node always has one.     *)
(* rng.next_u32() is a value of the constant set Rand, reduced exactly as  *)
(* the code reduces it.  A panic (unwrap, expect, assert, unreachable!) is *)
(* recorded in the variable fault and stops the program.                  *)
(***************************************************************************)
EXTENDS Naturals, Sequences, SequencesExt

CONSTANTS
  Nodes,                        \* NodeIds, the simulator's vector indices
  Sinks,                        \* the nodes with is_sink set
  None,                         \* Option::None for messages, channels, hops
  Rand,                         \* values rng.next_u32() may return
  BEACON_INTERVAL_MS,
  CHILD_DATA_INTERVAL_MIN,
  NUM_CHANNELS,
  MAX_CHILDREN,
  MAX_DESCENDANTS,
  MAX_BEACONS_TO_COLLECT,
  RESPONSE_LISTEN_DURATION_MS,
  MIN_WINDOW_CLEARANCE,
  DATA_RECEIVE_WINDOW,
  RANDOM_CONNECT_RANGE_MS,
  CONNECT_RESPONSE_DELAY_MS,
  CLOCK_DRIFT_PPM,
  SEND_DELAY,
  MS_PER_MIN,
  MAX_HOPS                      \* u8::MAX, the bound of Hops

ASSUME /\ Sinks \subseteq Nodes /\ Nodes \subseteq Nat
       /\ Rand \subseteq Nat /\ Rand # {}
       /\ RANDOM_CONNECT_RANGE_MS > CONNECT_RESPONSE_DELAY_MS

MAX_WINDOWS == MAX_CHILDREN + 2
BEST_BEACON_LISTEN_TIME == MIN_WINDOW_CLEARANCE * 3
PUBLIC == 0                     \* Channels::default().public

W == INSTANCE Windows WITH
       BeaconDuration <- RANDOM_CONNECT_RANGE_MS + CONNECT_RESPONSE_DELAY_MS
                           + RESPONSE_LISTEN_DURATION_MS + 2 * SEND_DELAY,
       ChildDuration <- DATA_RECEIVE_WINDOW + SEND_DELAY,
       ParentDuration <- RESPONSE_LISTEN_DURATION_MS + SEND_DELAY,
       Clearance <- MIN_WINDOW_CLEARANCE,
       MsPerMin <- MS_PER_MIN,
       MaxWindows <- MAX_WINDOWS,
       MaxChildren <- MAX_CHILDREN

VARIABLES
  state,      \* state[n]: Lightning.state, a record whose name is the variant
  ctx,        \* ctx[n]: Lightning.context
  uplinked,   \* the sources of all NodeData returned in uplink batches
  fault       \* "none", or the panic that stopped the program

nodeVars == <<state, ctx, uplinked, fault>>

-----------------------------------------------------------------------------
(* Clock-drift compensation (lib.rs).  d * (10^6 +- ppm) / 10^6 is written *)
(* in the equal form below, which keeps TLC's integers small.              *)
adjust_for_clock_inaccuracies(d) == d + (d * CLOCK_DRIFT_PPM) \div 1000000
adjust_for_clock_inaccuracies_sub(d) == d - W!CeilDiv(d * CLOCK_DRIFT_PPM, 1000000)

\* Context::default
DefaultContext ==
  [parent |-> None, children |-> None, parents_parent |-> None,
   windows |-> <<>>, hops |-> None, child_data |-> <<>>, beacons |-> <<>>]

\* Channels::set_random_children_channel: the (r mod k)-th free channel
set_random_children_channel(c, r) ==
  LET free == {ch \in 0..NUM_CHANNELS - 1 : ch \notin {PUBLIC, c.parent, c.parents_parent}}
      rank(ch) == Cardinality({x \in free : x < ch})
  IN [c EXCEPT !.children = CHOOSE ch \in free : rank(ch) = r % Cardinality(free)]

Window(k, s) == [kind |-> k, start |-> s]
Is(m, type) == m # None /\ m.type = type

-----------------------------------------------------------------------------
(* The end of Lightning::progress: store the next state; a sink with child *)
(* data returns it, followed by its own NodeData, as the uplink batch.     *)
Become(n, s, c) ==
  LET drain == n \in Sinks /\ c.child_data # <<>>
  IN /\ state' = [state EXCEPT ![n] = s]
     /\ ctx' = [ctx EXCEPT ![n] = IF drain THEN [c EXCEPT !.child_data = <<>>] ELSE c]
     /\ uplinked' = IF drain THEN uplinked \cup Range(c.child_data) \cup {n}
                    ELSE uplinked
     /\ UNCHANGED fault

Fail(reason) == fault' = reason /\ UNCHANGED <<state, ctx, uplinked>>

\* State::Idle { end: windows.next() }; next() unwraps the queue's head
BecomeIdle(n, c) ==
  IF c.windows = <<>> THEN Fail("empty_window_queue")
  ELSE Become(n, [name |-> "Idle", end |-> c.windows[1].start], c)

\* Windows::push on the context's queue: the new context and the panic, if any
PushWindow(c, w) ==
  LET r == W!Push(c.windows, w)
  IN [ctx |-> [c EXCEPT !.windows = r.queue], fault |-> r.fault]

\* a push that panicked stops the program; otherwise the handler goes on
PushThen(p, Then) == IF p.fault # "none" THEN Fail(p.fault) ELSE Then

-----------------------------------------------------------------------------
(* Joining the tree.                                                       *)

\* mutant: a sink that forgets to queue its first Beacon window
ResetWithoutBeacon(n, t, m) ==
  /\ state[n].name = "Reset" /\ m = None
  /\ \E r \in Rand :
       IF n \in Sinks
       THEN BecomeIdle(n, set_random_children_channel([DefaultContext EXCEPT !.hops = 0], r))
       ELSE Become(n, [name |-> "WaitBeforeFindingParent",
                       end |-> t + (r % BEACON_INTERVAL_MS)], DefaultContext)

Reset(n, t, m) ==
  /\ state[n].name = "Reset" /\ m = None
  /\ \E r1, r2 \in Rand :
       IF n \in Sinks
       THEN LET p == PushWindow(set_random_children_channel([DefaultContext EXCEPT !.hops = 0], r1),
                                Window("Beacon", t + (r2 % BEACON_INTERVAL_MS)))
            IN PushThen(p, BecomeIdle(n, p.ctx))
       ELSE Become(n, [name |-> "WaitBeforeFindingParent",
                       end |-> t + (r1 % BEACON_INTERVAL_MS)], DefaultContext)

WaitBeforeFindingParent(n, t, m) ==
  /\ state[n].name = "WaitBeforeFindingParent" /\ m = None
  /\ Become(n, [name |-> "ListenForBeacons", channel |-> PUBLIC,
                end |-> t + BEACON_INTERVAL_MS], ctx[n])

ListenForBeaconsBeacon(n, t, m) ==
  /\ state[n].name = "ListenForBeacons" /\ Is(m, "Beacon")
  /\ IF m.hops = 0
     THEN Become(n, [name |-> "WaitForBestBeacon", best_beacon_hops |-> 0,
                     end |-> t + adjust_for_clock_inaccuracies_sub(BEACON_INTERVAL_MS)],
                 ctx[n])
     ELSE IF Len(ctx[n].beacons) = MAX_BEACONS_TO_COLLECT THEN Fail("beacons_full")
     ELSE Become(n, state[n], [ctx[n] EXCEPT !.beacons =
                                 Append(@, [hops |-> m.hops, time_seen |-> t])])

\* the first beacon with the fewest hops (Iterator::reduce keeps the first)
BestBeacon(bs) ==
  bs[Min({i \in DOMAIN bs : \A j \in DOMAIN bs : bs[i].hops <= bs[j].hops})]

ListenForBeaconsTimeout(n, t, m) ==
  /\ state[n].name = "ListenForBeacons" /\ m = None
  /\ IF ctx[n].beacons = <<>>
     THEN \E r \in Rand :
            Become(n, [name |-> "WaitBeforeFindingParent",
                       end |-> t + BEACON_INTERVAL_MS \div 2 + (r % BEACON_INTERVAL_MS)], ctx[n])
     ELSE LET best == BestBeacon(ctx[n].beacons)
          IN Become(n, [name |-> "WaitForBestBeacon", best_beacon_hops |-> best.hops,
                        end |-> best.time_seen
                                + adjust_for_clock_inaccuracies_sub(BEACON_INTERVAL_MS)],
                    ctx[n])

\* a message that is not a beacon is ignored
ListenForBeaconsOther(n, t, m) ==
  /\ state[n].name = "ListenForBeacons" /\ m # None /\ ~Is(m, "Beacon")
  /\ Become(n, state[n], ctx[n])

WaitForBestBeacon(n, t, m) ==
  /\ state[n].name = "WaitForBestBeacon" /\ m = None
  /\ Become(n, [name |-> "ListenForBestBeacon", channel |-> PUBLIC,
                best_beacon_hops |-> state[n].best_beacon_hops,
                end |-> t + BEST_BEACON_LISTEN_TIME], ctx[n])

\* the awaited beacon: adopt its sender as parent (hops.checked_add(1))
ListenForBestBeaconBeacon(n, t, m) ==
  /\ state[n].name = "ListenForBestBeacon"
  /\ Is(m, "Beacon") /\ m.hops = state[n].best_beacon_hops
  /\ IF m.hops = MAX_HOPS THEN Fail("hop_overflow")
     ELSE \E r \in Rand :
            Become(n, [name |-> "DelayConnect",
                       end |-> t + (r % RANDOM_CONNECT_RANGE_MS),
                       connect_ack_listen_time |->
                         t + RANDOM_CONNECT_RANGE_MS + CONNECT_RESPONSE_DELAY_MS],
                   [ctx[n] EXCEPT !.hops = m.hops + 1, !.parent = m.children_channel,
                                  !.parents_parent = m.parent_channel])

\* a beacon with other hops ("wrong beacon") or any other message is ignored
ListenForBestBeaconOther(n, t, m) ==
  /\ state[n].name = "ListenForBestBeacon" /\ m # None
  /\ ~(Is(m, "Beacon") /\ m.hops = state[n].best_beacon_hops)
  /\ Become(n, state[n], ctx[n])

ListenForBestBeaconTimeout(n, t, m) ==
  /\ state[n].name = "ListenForBestBeacon" /\ m = None
  /\ \E r \in Rand :
       Become(n, [name |-> "WaitBeforeFindingParent",
                  end |-> t + BEACON_INTERVAL_MS \div 2 + (r % BEACON_INTERVAL_MS)],
              [ctx[n] EXCEPT !.beacons = <<>>])

\* mutant: the Connect goes out on the node's own children channel
DelayConnectOnChildrenChannel(n, t, m) ==
  /\ state[n].name = "DelayConnect" /\ m = None
  /\ Become(n, [name |-> "SendConnect", channel |-> ctx[n].children, id |-> n,
                connect_ack_listen_time |-> state[n].connect_ack_listen_time], ctx[n])

DelayConnect(n, t, m) ==
  /\ state[n].name = "DelayConnect" /\ m = None
  /\ Become(n, [name |-> "SendConnect", channel |-> ctx[n].parent, id |-> n,
                connect_ack_listen_time |-> state[n].connect_ack_listen_time], ctx[n])

SendConnect(n, t, m) ==
  /\ state[n].name = "SendConnect" /\ m = None
  /\ Become(n, [name |-> "WaitForConnectAck", id |-> state[n].id,
                end |-> state[n].connect_ack_listen_time], ctx[n])

WaitForConnectAck(n, t, m) ==
  /\ state[n].name = "WaitForConnectAck" /\ m = None
  /\ Become(n, [name |-> "ListenForConnectAck", channel |-> ctx[n].parent,
                id |-> state[n].id, end |-> t + RESPONSE_LISTEN_DURATION_MS], ctx[n])

\* joined: schedule the first Parent window and the first own Beacon window
ListenForConnectAckAck(n, t, m) ==
  /\ state[n].name = "ListenForConnectAck"
  /\ Is(m, "ConnectAck") /\ m.id = state[n].id
  /\ \E r1, r2 \in Rand :
       LET p1 == PushWindow(set_random_children_channel(ctx[n], r1),
                   Window("Parent", t + adjust_for_clock_inaccuracies(m.next_window_min * MS_PER_MIN)))
           p2 == PushWindow(p1.ctx,
                   Window("Beacon", t + BEACON_INTERVAL_MS + (r2 % BEACON_INTERVAL_MS)))
       IN PushThen(p1, PushThen(p2, BecomeIdle(n, p2.ctx)))

ListenForConnectAckOther(n, t, m) ==
  /\ state[n].name = "ListenForConnectAck"
  /\ ~(Is(m, "ConnectAck") /\ m.id = state[n].id)
  /\ Become(n, [name |-> "Reset"], ctx[n])

-----------------------------------------------------------------------------
(* Serving the scheduled windows.                                          *)

\* mutant: the Data message carries the child data but not the node's own
DataBatchWithoutOwn(c, n) == c.child_data

\* the Data of a Parent window: the collected child data, then the node's own
DataBatch(c, n) == Append(c.child_data, n)

\* pop the next window (assert_eq!(start, time)) and act on its kind
Idle(n, t, m) ==
  /\ state[n].name = "Idle" /\ m = None
  /\ LET c == ctx[n]
         w == c.windows[1]
         rest == [c EXCEPT !.windows = Tail(@)]
     IN IF c.windows = <<>> THEN Fail("empty_window_queue")
        ELSE IF w.start # t THEN Fail("idle_window_start")
        ELSE CASE w.kind = "Beacon" ->
                    Become(n, [name |-> "SendBeacon", channel |-> PUBLIC,
                               hops |-> c.hops, children_channel |-> c.children,
                               parent_channel |-> c.parent], rest)
               [] w.kind = "Child" ->
                    Become(n, [name |-> "ListenForData", channel |-> c.children,
                               end |-> t + DATA_RECEIVE_WINDOW], rest)
               [] w.kind = "Parent" ->
                    Become(n, [name |-> "SendData", channel |-> c.parent,
                               data |-> DataBatch(c, n)],
                           [rest EXCEPT !.child_data = <<>>])

SendBeacon(n, t, m) ==
  /\ state[n].name = "SendBeacon" /\ m = None
  /\ LET p == PushWindow(ctx[n], Window("Beacon", t + BEACON_INTERVAL_MS))
     IN PushThen(p, Become(n, [name |-> "ListenForConnect", channel |-> p.ctx.children,
                     end |-> t + adjust_for_clock_inaccuracies(RANDOM_CONNECT_RANGE_MS
                                                               + SEND_DELAY)], p.ctx))

ListenForConnectConnect(n, t, m) ==
  /\ state[n].name = "ListenForConnect" /\ Is(m, "Connect")
  /\ Become(n, [name |-> "DelayConnectAck", id |-> m.id,
                end |-> state[n].end
                        + adjust_for_clock_inaccuracies(CONNECT_RESPONSE_DELAY_MS)], ctx[n])

ListenForConnectTimeout(n, t, m) ==
  /\ state[n].name = "ListenForConnect" /\ m = None
  /\ BecomeIdle(n, ctx[n])

ListenForConnectOther(n, t, m) ==
  /\ state[n].name = "ListenForConnect" /\ m # None /\ ~Is(m, "Connect")
  /\ IF state[n].end > t THEN Become(n, state[n], ctx[n]) ELSE BecomeIdle(n, ctx[n])

\* a Child window CHILD_DATA_INTERVAL_MIN minutes on, delayed in whole
\* minutes until it fits the queue, and its offset as the u8 of the ack
ChildWindowFrom(c, t) ==
  W!Delay(Window("Child", t + CHILD_DATA_INTERVAL_MIN * MS_PER_MIN), c.windows, "Minutes")

DelayConnectAck(n, t, m) ==
  /\ state[n].name = "DelayConnectAck" /\ m = None
  /\ LET w == ChildWindowFrom(ctx[n], t)
     IN IF ~W!OffsetIsWholeMinutes(w, t) THEN Fail("offset_not_whole_minutes")
        ELSE Become(n, [name |-> "SendConnectAck", child_window |-> w,
                   channel |-> ctx[n].children, id |-> state[n].id,
                   next_child_window_min |-> W!OffsetMin(w, t) % 256], ctx[n])

\* mutant: the next Parent window shortened for clock drift instead of
\* extended (adjust_for_clock_inaccuracies_sub)
ListenForDataAckAckEarly(n, t, m) ==
  /\ state[n].name = "ListenForDataAck" /\ Is(m, "DataAck")
  /\ LET p == PushWindow(ctx[n],
                Window("Parent", t + adjust_for_clock_inaccuracies_sub(m.next_window_min * MS_PER_MIN)))
     IN PushThen(p, BecomeIdle(n, p.ctx))

\* re-anchor the Child window at the time the ack left, queue it, and stop
\* beaconing when the node has MAX_CHILDREN Child windows
SendConnectAck(n, t, m) ==
  /\ state[n].name = "SendConnectAck" /\ m = None
  /\ LET p == PushWindow(ctx[n], [state[n].child_window EXCEPT
                                    !.start = t + state[n].next_child_window_min * MS_PER_MIN])
     IN PushThen(p, BecomeIdle(n, IF W!IsFull(p.ctx.windows)
                                  THEN [p.ctx EXCEPT !.windows = W!PopKind(@, "Beacon")]
                                  ELSE p.ctx))

SendData(n, t, m) ==
  /\ state[n].name = "SendData" /\ m = None
  /\ Become(n, [name |-> "ListenForDataAck", channel |-> ctx[n].parent,
                end |-> t + RESPONSE_LISTEN_DURATION_MS], ctx[n])

ListenForDataAckAck(n, t, m) ==
  /\ state[n].name = "ListenForDataAck" /\ Is(m, "DataAck")
  /\ LET p == PushWindow(ctx[n],
                Window("Parent", t + adjust_for_clock_inaccuracies(m.next_window_min * MS_PER_MIN)))
     IN PushThen(p, BecomeIdle(n, p.ctx))

ListenForDataAckOther(n, t, m) ==
  /\ state[n].name = "ListenForDataAck" /\ ~Is(m, "DataAck")
  /\ Become(n, [name |-> "Reset"], ctx[n])

\* child data arrived: keep it (expect on capacity) and answer with the next
\* Child window in whole minutes
ListenForDataData(n, t, m) ==
  /\ state[n].name = "ListenForData" /\ Is(m, "Data")
  /\ IF Len(ctx[n].child_data) + Len(m.data) > MAX_DESCENDANTS THEN Fail("child_data_full")
     ELSE LET c == [ctx[n] EXCEPT !.child_data = @ \o m.data]
              w == ChildWindowFrom(c, t)
          IN IF ~W!OffsetIsWholeMinutes(w, t) THEN Fail("offset_not_whole_minutes")
             ELSE Become(n, [name |-> "SendDataAck", child_window |-> w,
                        channel |-> c.children,
                        next_child_window_min |-> W!OffsetMin(w, t) % 256], c)

\* no data from the child: its window is not renewed ("child gone")
ListenForDataOther(n, t, m) ==
  /\ state[n].name = "ListenForData" /\ ~Is(m, "Data")
  /\ BecomeIdle(n, ctx[n])

SendDataAck(n, t, m) ==
  /\ state[n].name = "SendDataAck" /\ m = None
  /\ LET p == PushWindow(ctx[n], [state[n].child_window EXCEPT
                                    !.start = t + state[n].next_child_window_min * MS_PER_MIN])
     IN PushThen(p, BecomeIdle(n, p.ctx))

-----------------------------------------------------------------------------
(* Lightning::progress for node n at time t with message m.                *)
Progress(n, t, m) ==
  \/ Reset(n, t, m)
  \/ WaitBeforeFindingParent(n, t, m)
  \/ ListenForBeaconsBeacon(n, t, m)
  \/ ListenForBeaconsTimeout(n, t, m)
  \/ ListenForBeaconsOther(n, t, m)
  \/ WaitForBestBeacon(n, t, m)
  \/ ListenForBestBeaconBeacon(n, t, m)
  \/ ListenForBestBeaconOther(n, t, m)
  \/ ListenForBestBeaconTimeout(n, t, m)
  \/ DelayConnect(n, t, m)
  \/ SendConnect(n, t, m)
  \/ WaitForConnectAck(n, t, m)
  \/ ListenForConnectAckAck(n, t, m)
  \/ ListenForConnectAckOther(n, t, m)
  \/ Idle(n, t, m)
  \/ SendBeacon(n, t, m)
  \/ ListenForConnectConnect(n, t, m)
  \/ ListenForConnectTimeout(n, t, m)
  \/ ListenForConnectOther(n, t, m)
  \/ DelayConnectAck(n, t, m)
  \/ SendConnectAck(n, t, m)
  \/ SendData(n, t, m)
  \/ ListenForDataAckAck(n, t, m)
  \/ ListenForDataAckOther(n, t, m)
  \/ ListenForDataData(n, t, m)
  \/ ListenForDataOther(n, t, m)
  \/ SendDataAck(n, t, m)

WaitStates == {"WaitBeforeFindingParent", "WaitForBestBeacon", "DelayConnect",
               "WaitForConnectAck", "Idle", "DelayConnectAck"}
ReceiveStates == {"ListenForBeacons", "ListenForBestBeacon", "ListenForConnectAck",
                  "ListenForConnect", "ListenForData", "ListenForDataAck"}

\* the message a send state transmits (State::get_action)
Outgoing(s) ==
  CASE s.name = "SendConnect" -> [type |-> "Connect", id |-> s.id]
    [] s.name = "SendBeacon" -> [type |-> "Beacon", hops |-> s.hops,
                                 children_channel |-> s.children_channel,
                                 parent_channel |-> s.parent_channel]
    [] s.name = "SendConnectAck" -> [type |-> "ConnectAck", id |-> s.id,
                                     next_window_min |-> s.next_child_window_min]
    [] s.name = "SendData" -> [type |-> "Data", data |-> s.data]
    [] s.name = "SendDataAck" -> [type |-> "DataAck",
                                  next_window_min |-> s.next_child_window_min]

\* State::get_action
GetAction(s) ==
  CASE s.name = "Reset" -> [kind |-> "None"]
    [] s.name \in WaitStates -> [kind |-> "Wait", end |-> s.end]
    [] s.name \in ReceiveStates -> [kind |-> "Receive", end |-> s.end, channel |-> s.channel]
    [] OTHER -> [kind |-> "Transmit", channel |-> s.channel, message |-> Outgoing(s),
                 delay |-> SEND_DELAY]

NodeInit ==
  /\ state = [n \in Nodes |-> [name |-> "Reset"]]
  /\ ctx = [n \in Nodes |-> DefaultContext]
  /\ uplinked = {}
  /\ fault = "none"
=============================================================================
