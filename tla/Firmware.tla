------------------------------- MODULE Firmware -------------------------------
(***************************************************************************)
(* The main task of the node firmware (firmware/src/main.rs): one loop     *)
(* that gives the node a fresh payload when it has none, calls             *)
(* Lightning::progress with the clock's time and the last received message *)
(* and performs the returned action on the LoRa radio.  One step of the    *)
(* model is one iteration of that loop; the node is the only member of     *)
(* Nodes, the rest of the network is the radio, which delivers any message *)
(* of RadioMessages it can decode.                                         *)
(*                                                                         *)
(* Payload counter.  n is a u16 incremented for every payload; its value   *)
(* matters only through the length of its varint on the wire (1, 2 or 3   *)
(* bytes) and its overflow after 65535.  n therefore ranges over the       *)
(* first value of each length and 65535, and an increment either stays in *)
(* its length class or moves to the next: every sequence of lengths the   *)
(* real counter goes through is a behaviour of the model.  A run may       *)
(* restrict n to the classes in CounterClasses (e.g. {0}: the first 128    *)
(* payloads).                                                              *)
(***************************************************************************)
EXTENDS Lightning

CONSTANTS
  RadioMessages,      \* <<channel, message>>: what the network sends on which channel
  MAX_MESSAGE_SIZE,   \* firmware main.rs: the radio buffers' length, 32
  AIR_TIME,           \* ms a packet is on the air: the earliest it can arrive
  TX_TIME,            \* ms lora_transmit takes
  ChildPayload,       \* the payload written for NodeData of other nodes
  CounterClasses,     \* the classes of n a run explores (see above)
  RadioErrors,        \* TRUE when lora_receive may fail with RadioError
  MaxRadioEvents      \* bound on the packets and errors the radio delivers

VARIABLES
  now,        \* Instant::now().as_millis() at the top of the loop
  rx,         \* rx_msg: the message handed to the next progress call
  payload,    \* Lightning.payload: None or the value set by set_payload
  n,          \* the payload counter (its length class, see above)
  fwFault,    \* "none", or the panic that stopped the firmware
  received    \* the number of packets and radio errors so far (bounded)

fwVars == <<now, rx, payload, n, fwFault, received>>
vars == <<nodeVars, fwVars>>

P == INSTANCE Postcard

Self == CHOOSE s \in Nodes : TRUE
Running == fault = "none" /\ fwFault = "none"

\* the representatives of n: the first value of each varint length, and MAX
U16Classes == {0, 128, 16384, 65535}
ASSUME 0 \in CounterClasses /\ CounterClasses \subseteq U16Classes
NextClass(v) == CASE v = 0 -> 128 [] v = 128 -> 16384 [] v = 16384 -> 65535

-----------------------------------------------------------------------------
\* the Data message on the wire: the node's own NodeData last, with the
\* payload it took in this iteration, the other nodes' with ChildPayload
WireMessage(m, own) ==
  IF m.type # "Data" THEN m
  ELSE [m EXCEPT !.data = [i \in DOMAIN m.data |->
          [source |-> m.data[i],
           payload |-> IF i = Len(m.data) /\ m.data[i] = Self THEN own ELSE ChildPayload]]]

\* to_vec into a heapless Vec of MAX_MESSAGE_SIZE bytes: None when it does
\* not fit (the unwrap then panics)
Serialize(m, own) ==
  LET bytes == P!Encode(WireMessage(m, own))
  IN IF Len(bytes) > MAX_MESSAGE_SIZE THEN None ELSE bytes

\* the payload is taken by the Parent window (Idle -> SendData) or, on a
\* sink, by the uplink drain after child data arrived
PayloadTaken ==
  \/ state[Self].name = "Idle" /\ state'[Self].name = "SendData"
  \/ Self \in Sinks /\ state'[Self].name = "SendDataAck"

\* the payload the node holds during progress: set_payload(n) when it had none
Own == IF payload = None THEN n ELSE payload

\* the top of the loop: set_payload(n) and n += 1 when the node has none,
\* then progress(now, rx_msg.take())
TopOfLoop ==
  /\ Running
  /\ Progress(Self, now, rx)
  /\ payload' = IF PayloadTaken THEN None ELSE Own

\* n after the top of the loop: one more when a payload was set; u16::MAX
\* wraps to 0 (the release build; see the README on a debug build)
Count ==
  n' \in IF payload # None THEN {n}
         ELSE IF n = 65535 THEN {0}
         ELSE {n} \cup ({NextClass(n)} \cap CounterClasses)

Action == GetAction(state'[Self])

-----------------------------------------------------------------------------
(* The iterations, by the action progress returned.                       *)

\* mutant: Timer::after(end), taking the deadline for a duration
LoopWaitAfter ==
  /\ TopOfLoop /\ fault' = "none" /\ Action.kind = "Wait"
  /\ Count /\ UNCHANGED <<fwFault, received>>
  /\ now' = now + Action.end
  /\ rx' = None

\* Action::Wait: Timer::at(end), which returns at once for an end in the past
LoopWait ==
  /\ TopOfLoop /\ fault' = "none" /\ Action.kind = "Wait"
  /\ Count /\ UNCHANGED <<fwFault, received>>
  /\ now' = IF Action.end > now THEN Action.end ELSE now
  /\ rx' = None

\* Action::Receive, a packet sent on the tuned channel that decodes: kept
\* for the next progress call; it arrives at least AIR_TIME after listening
\* began and before end
LoopReceive ==
  \E cm \in RadioMessages :
    LET m == cm[2] IN
    /\ TopOfLoop /\ fault' = "none" /\ Action.kind = "Receive"
    /\ cm[1] = Action.channel
    /\ Count /\ UNCHANGED fwFault
    /\ received < MaxRadioEvents /\ received' = received + 1
    /\ \E t \in {now + AIR_TIME, Action.end - 1} :
         now + AIR_TIME <= t /\ t < Action.end /\ now' = t
    /\ rx' = m

\* Action::Receive ended by the timeout at end (or not entered when end is
\* not after now); undecodable and weak packets only keep the loop going
LoopReceiveTimeout ==
  /\ TopOfLoop /\ fault' = "none" /\ Action.kind = "Receive"
  /\ Count /\ UNCHANGED <<fwFault, received>>
  /\ now' = IF Action.end > now THEN Action.end ELSE now
  /\ rx' = None

\* Action::Receive ended early by ReceiveError::RadioError
LoopRadioError ==
  /\ TopOfLoop /\ fault' = "none" /\ Action.kind = "Receive"
  /\ Count /\ UNCHANGED fwFault
  /\ RadioErrors
  /\ received < MaxRadioEvents /\ received' = received + 1
  /\ now < Action.end
  /\ UNCHANGED now
  /\ rx' = None

\* lora_transmit: prepare_for_tx and tx; a radio error of either is only
\* logged, so the call always returns, after the packet's time on air
LoRaTransmit(t) == t + TX_TIME

\* Action::Transmit: Timer::after_millis(delay), to_vec(&message).unwrap(),
\* lora_transmit
LoopTransmit ==
  /\ TopOfLoop /\ fault' = "none" /\ Action.kind = "Transmit"
  /\ Count
  /\ IF Serialize(Action.message, Own) = None
     THEN fwFault' = "serialize_buffer_full" /\ UNCHANGED now
     ELSE now' = LoRaTransmit(now + Action.delay) /\ UNCHANGED fwFault
  /\ rx' = None /\ UNCHANGED received

\* Action::None: the next iteration follows at once; the same when progress
\* panicked (and no iteration follows)
LoopNone ==
  /\ TopOfLoop /\ (fault' # "none" \/ Action.kind = "None")
  /\ Count /\ UNCHANGED <<fwFault, received>>
  /\ UNCHANGED <<now, rx>>

Init ==
  /\ NodeInit
  /\ now = 0
  /\ rx = None
  /\ payload = None
  /\ n = 0
  /\ fwFault = "none"
  /\ received = 0

Next ==
  \/ LoopWait \/ LoopReceive \/ LoopReceiveTimeout
  \/ LoopRadioError \/ LoopTransmit \/ LoopNone

Spec == Init /\ [][Next]_vars

-----------------------------------------------------------------------------
\* The firmware never panics: no unwrap, expect or assert of progress or of
\* the loop (the to_vec(&message).unwrap() into the 32-byte radio buffer,
\* the u16 payload counter) fails, whatever the radio delivers and whenever.
NoFirmwarePanic == fault = "none" /\ fwFault = "none"

\* Every message the node transmits fits the 32-byte buffer that
\* to_vec(&message).unwrap() serialises it into (spec.md: messages are no
\* larger than MAX_MESSAGE_SIZE = 32 bytes, Data up to 17 entries).
DataFitsRadioFrame == fwFault # "serialize_buffer_full"
=============================================================================
