----------------------------- MODULE MCFirmware ------------------------------
(* One node running the firmware, with a 32-bit device number as its id   *)
(* (five bytes as a varint, as every DEVNUM of 2^28 or more), and the      *)
(* messages its neighbours in a Lightning network send.  Also Postcard's   *)
(* varint, checked against its definition for every value up to 300 and    *)
(* the values at each byte boundary of a u32 that TLC's integers hold (a   *)
(* u32 above 2^31 - 1 takes five bytes, as 2^31 - 1 does).                 *)
EXTENDS Firmware

\* the node's DEVNUM, and those of its parent's and its children's subtrees
SelfId == 305419896
Others == <<268435457, 268435458, 268435459, 268435460>>

MCNodes == {SelfId}
MCRand == {0, 123457}

\* the simulated time the runs cover
CONSTANT Horizon
TimeBound == now <= Horizon

\* what a parent sends a joining or joined node: its beacon, acks for this
\* node and for another joining node, giving the minute nwm of the first or
\* next Parent window (a sink whose children channel is 3, on the public
\* channel and on 3)
ParentChannel == 3
ParentBeacon ==
  <<PUBLIC, [type |-> "Beacon", hops |-> 0, children_channel |-> ParentChannel,
             parent_channel |-> None]>>
ConnectAckFor(id, nwm) ==
  <<ParentChannel, [type |-> "ConnectAck", id |-> id, next_window_min |-> nwm]>>
DataAckIn(nwm) == <<ParentChannel, [type |-> "DataAck", next_window_min |-> nwm]>>

ParentMessages ==
  { ParentBeacon, ConnectAckFor(SelfId, CHILD_DATA_INTERVAL_MIN),
    ConnectAckFor(Others[1], CHILD_DATA_INTERVAL_MIN), DataAckIn(CHILD_DATA_INTERVAL_MIN) }

\* what a child sends on any channel this node may pick for its children:
\* its Connect, and the Data of its subtree sub
ChildMessages(sub) ==
  UNION { { <<ch, [type |-> "Connect", id |-> sub[1]]>>,
            <<ch, [type |-> "Data", data |-> sub]>> } : ch \in 1..NUM_CHANNELS - 1 \ {ParentChannel} }

\* a child with one child of its own, and a child with a subtree of four
RelayMessages == ParentMessages \cup ChildMessages(<<Others[1], Others[2]>>)
\* a parent whose queue put this node's first Parent window 7 minutes out,
\* after the Child window of a child with a subtree of four
DeepRelayMessages ==
  {ParentBeacon, ConnectAckFor(SelfId, 7)} \cup ChildMessages(Others)

LeafMessages == ParentMessages

=============================================================================
