-------------------------------- MODULE Cloud --------------------------------
(***************************************************************************)
(* The cloud service of the testbed (cloud/src/main.rs, client.rs,         *)
(* slab.rs): one mio event loop that accepts TCP connections of the nodes, *)
(* keeps each as a Client in a Slab whose index is the connection's poll   *)
(* token, applies the messages the nodes send, and runs the operator's     *)
(* commands read from stdin.                                               *)
(*                                                                         *)
(* A Slab is a sequence whose free slots are None.  A client keeps what    *)
(* the server knows of its node: the connection's state, node_id,          *)
(* firmware_state, halted and color.  Colors are the indices of the        *)
(* palette of Colors::new, popped from its end.  A node's TCP stream is a  *)
(* sequence of bytes: a message m is framed as its CBOR bytes, COBS-encoded *)
(* (no zero byte), and a 0x00 delimiter; a CBOR byte is represented by the  *)
(* message it belongs to.  The kernel's receive queue of a connection is    *)
(* socket, client.buffer is buffer, and ready is the readiness edge mio has *)
(* reported for its token and the loop has not handled yet.  The messages  *)
(* nodes send that only print (Log, Error) are left out.  Commands         *)
(* change no state of the server; the ghost variable lastCmd records which *)
(* clients a command meant and which it reached.                          *)
(***************************************************************************)
EXTENDS Naturals, Sequences, FiniteSets, SequencesExt

CONSTANTS
  None,             \* Option::None: a free slot, an unknown id or halted state
  NodeIds,          \* the ids Message::Info may carry
  NumColors,        \* the length of the palette of Colors::new
  MaxConnections,   \* bound on the connections open at once
  Zero,             \* the 0x00 byte that ends a COBS frame
  ReadSize,         \* the length of receive_buffer: the most one read takes
  BufferLimit,      \* the client.buffer length past which the client is shut down
  Sendable,         \* the messages nodes send in a run (Info and Halted)
  MaxSends          \* bound on the messages a node sends over one connection

VARIABLES
  clients,      \* the Slab<Client>
  colorOf,      \* Colors.0: the color given to each id, 0 when none yet
  colorsLeft,   \* Colors.1: the palette entries not given out yet
  serverFault,  \* "none", or the panic that ended the server
  lastCmd,      \* ghost: the clients the last command meant and reached
  peak,         \* ghost: the most clients connected at once so far
  backlog,      \* connections the listener holds that accept() has not taken
  listenerReady \* a readiness event of SERVER_TOKEN is pending for poll

vars == <<clients, colorOf, colorsLeft, serverFault, lastCmd, peak, backlog, listenerReady>>

ConnStates == {"open", "closed", "shut"}   \* shut: shutdown(Both) by the server
FwStates == {"Unknown", "Correct", "Incorrect"}
Crcs == {None, "expected", "other"}        \* Info.crc against expected_flash_crc
Messages == [type : {"Info"}, id : NodeIds, crc : Crcs] \cup [type : {"Halted"}, halted : BOOLEAN]

ASSUME Sendable \subseteq Messages /\ ReadSize \in Nat \ {0} /\ MaxSends \in Nat

-----------------------------------------------------------------------------
(* Slab (slab.rs).                                                         *)

\* Slab::get_free_index: the first free slot, 0 when there is none
get_free_index(s) == SelectInSeq(s, LAMBDA c : c = None)

\* mutant: a new client always goes to a new slot
insertAppend(s, e) == Append(s, e)

\* Slab::insert
insert(s, e) ==
  IF get_free_index(s) # 0 THEN [s EXCEPT ![get_free_index(s)] = e] ELSE Append(s, e)

\* Slab::try_remove (the index of a live token is always in range)
try_remove(s, i) == IF i <= Len(s) THEN [s EXCEPT ![i] = None] ELSE s

Occupied(s) == {i \in DOMAIN s : s[i] # None}

-----------------------------------------------------------------------------
\* mutant: every call takes a new palette entry, known id or not
get_color_always_pop(cs, id) ==
  IF cs.left = 0 THEN [color |-> 0, map |-> cs.map, left |-> 0, panic |-> TRUE]
  ELSE [color |-> cs.left, map |-> [cs.map EXCEPT ![id] = cs.left],
        left |-> cs.left - 1, panic |-> FALSE]

\* mutant: the color handed out is one past the palette entry popped
get_color_off_by_one(cs, id) ==
  IF cs.map[id] # 0
  THEN [color |-> cs.map[id], map |-> cs.map, left |-> cs.left, panic |-> FALSE]
  ELSE IF cs.left = 0 THEN [color |-> 0, map |-> cs.map, left |-> 0, panic |-> TRUE]
  ELSE [color |-> cs.left + 1, map |-> [cs.map EXCEPT ![id] = cs.left + 1],
        left |-> cs.left - 1, panic |-> FALSE]

\* Colors::get_color on the Colors cs = [map |-> .0, left |-> length of .1]:
\* the id's color, or the last palette entry, popped for it
get_color(cs, id) ==
  IF cs.map[id] # 0
  THEN [color |-> cs.map[id], map |-> cs.map, left |-> cs.left, panic |-> FALSE]
  ELSE IF cs.left = 0 THEN [color |-> 0, map |-> cs.map, left |-> 0, panic |-> TRUE]
  ELSE [color |-> cs.left, map |-> [cs.map EXCEPT ![id] = cs.left],
        left |-> cs.left - 1, panic |-> FALSE]

\* the Client built for a new connection (white, nothing known, empty
\* buffer), with its socket; sent and applied are ghosts: the messages the
\* node sent and the messages the server applied, in order
NewClient == [conn |-> "open", node_id |-> None, firmware_state |-> "Unknown",
              halted |-> None, color |-> 0, socket |-> <<>>, buffer |-> <<>>,
              ready |-> FALSE, sent |-> <<>>, applied |-> <<>>]

-----------------------------------------------------------------------------
(* Framing (client.rs send_message; main.rs, the loop over client.buffer). *)

\* the CBOR bytes of m, each represented by m (Info is the longer message)
Cbor(m) == [k \in 1..(IF m.type = "Info" THEN 2 ELSE 1) |-> m]

\* ciborium::into_writer, cobs::encode_vec and the trailing 0x00
Encode(m) == Cbor(m) \o <<Zero>>

\* the bytes of a sequence of messages
EncodeAll(ms) == FlattenSeq([k \in DOMAIN ms |-> Encode(ms[k])])

\* ciborium::from_reader succeeds on a decoded frame: it holds the bytes of
\* one message
IsCbor(f) == f # <<>> /\ f = Cbor(f[1])

\* mutant: a decoded frame is drained together with the byte after its
\* delimiter (n_consumed one too large)
RECURSIVE DecodeFramesDrainExtra(_)
DecodeFramesDrainExtra(buf) ==
  LET z == SelectInSeq(buf, LAMBDA b : b = Zero)
  IN IF z = 0 THEN [frames |-> <<>>, rest |-> buf]
     ELSE LET more == DecodeFramesDrainExtra(SubSeq(buf, z + 2, Len(buf)))
          IN [frames |-> <<SubSeq(buf, 1, z - 1)>> \o more.frames, rest |-> more.rest]

\* the loop over cobs_decode_from_iter: every frame up to a 0x00 is drained
\* from the buffer (Ok(Some) drains n_consumed bytes; Err skips to the next
\* zero: the same bytes), and the loop stops at Ok(None), leaving the bytes
\* of an incomplete frame in the buffer
RECURSIVE DecodeFrames(_)
DecodeFrames(buf) ==
  LET z == SelectInSeq(buf, LAMBDA b : b = Zero)
  IN IF z = 0 THEN [frames |-> <<>>, rest |-> buf]
     ELSE LET more == DecodeFrames(SubSeq(buf, z + 1, Len(buf)))
          IN [frames |-> <<SubSeq(buf, 1, z - 1)>> \o more.frames, rest |-> more.rest]

\* the match on a decoded message for client c and Colors cs (acc); a
\* message after a panic is not applied
ApplyMessage(acc, m) ==
  IF acc.panic THEN acc
  ELSE IF m.type = "Halted"
  THEN [acc EXCEPT !.c = [@ EXCEPT !.halted = m.halted, !.applied = Append(@, m)]]
  ELSE LET g == get_color(acc.cs, m.id)
       IN IF g.panic THEN [acc EXCEPT !.panic = TRUE]
          ELSE [c |-> [acc.c EXCEPT !.node_id = m.id, !.color = g.color,
                         !.firmware_state = CASE m.crc = None -> "Unknown"
                                              [] m.crc = "expected" -> "Correct"
                                              [] m.crc = "other" -> "Incorrect",
                         !.applied = Append(@, m)],
                cs |-> [map |-> g.map, left |-> g.left], panic |-> FALSE]

\* send_message on a connection: it fails on a connection the server shut
\* down, and may fail or not once the peer has closed
WriteOutcomes(c) ==
  CASE c.conn = "open" -> {TRUE}
    [] c.conn = "closed" -> {TRUE, FALSE}
    [] c.conn = "shut" -> {FALSE}

Running == serverFault = "none"

-----------------------------------------------------------------------------
(* Events of the poll loop.                                                *)

\* a node opens a TCP connection: it waits in the listener's backlog, and
\* its arrival makes the listener readable (mio reports readiness edges:
\* arrivals before the next poll give one event)
Connect ==
  /\ Running
  /\ Cardinality(Occupied(clients)) + backlog < MaxConnections
  /\ backlog' = backlog + 1
  /\ listenerReady' = TRUE
  /\ UNCHANGED <<clients, colorOf, colorsLeft, serverFault, lastCmd, peak>>

\* SERVER_TOKEN: one accept() per event; WouldBlock breaks out of the
\* event loop; a connection from outside the private, loopback and ZHAW
\* ranges is shut down and dropped; any other is registered as a client
Accept ==
  /\ Running /\ listenerReady
  /\ listenerReady' = FALSE
  /\ IF backlog = 0 THEN UNCHANGED <<clients, peak, backlog>>
     ELSE /\ backlog' = backlog - 1
          /\ \E private \in BOOLEAN :
               IF ~private THEN UNCHANGED <<clients, peak>>
               ELSE /\ clients' = insert(clients, NewClient)
                    /\ peak' = IF Cardinality(Occupied(clients')) > peak
                               THEN Cardinality(Occupied(clients')) ELSE peak
  /\ UNCHANGED <<colorOf, colorsLeft, serverFault, lastCmd>>

\* a node writes a message to its connection: its frame is appended to the
\* socket, which becomes readable
NodeSend(i, m) ==
  /\ Running
  /\ clients[i] # None /\ clients[i].conn = "open"
  /\ Len(clients[i].sent) < MaxSends
  /\ clients' = [clients EXCEPT ![i].socket = @ \o Encode(m), ![i].sent = Append(@, m),
                                ![i].ready = TRUE]
  /\ UNCHANGED <<colorOf, colorsLeft, serverFault, lastCmd, peak, backlog, listenerReady>>

\* the node closes its end of the connection; the FIN makes it readable
PeerClose(i) ==
  /\ Running
  /\ clients[i] # None /\ clients[i].conn = "open"
  /\ clients' = [clients EXCEPT ![i].conn = "closed", ![i].ready = TRUE]
  /\ UNCHANGED <<colorOf, colorsLeft, serverFault, lastCmd, peak, backlog, listenerReady>>

\* the client's token: one read of at most ReadSize bytes per event.
\*  - Ok(0), at the end of a closed or shut-down stream: the client is removed;
\*  - WouldBlock: nothing;
\*  - Ok(n): the bytes are appended to the buffer, the client is shut down
\*    when the buffer is longer than BufferLimit, and every complete frame
\*    is decoded and its message applied in order (a frame that is not a
\*    message is skipped); a panic of get_color ends the server.
Read(i) ==
  /\ Running
  /\ clients[i] # None /\ clients[i].ready
  /\ LET c == clients[i]
         n == IF Len(c.socket) < ReadSize THEN Len(c.socket) ELSE ReadSize
         buf == c.buffer \o SubSeq(c.socket, 1, n)
         d == DecodeFrames(buf)
         msgs == [k \in DOMAIN SelectSeq(d.frames, IsCbor) |-> SelectSeq(d.frames, IsCbor)[k][1]]
         read == [c EXCEPT !.socket = SubSeq(@, n + 1, Len(@)), !.buffer = d.rest,
                           !.conn = IF Len(buf) > BufferLimit THEN "shut" ELSE @,
                           !.ready = Len(buf) > BufferLimit]
         r == FoldLeft(ApplyMessage, [c |-> read, cs |-> [map |-> colorOf, left |-> colorsLeft],
                                      panic |-> FALSE], msgs)
     IN CASE c.conn = "shut" \/ (c.conn = "closed" /\ c.socket = <<>>) ->
               /\ clients' = try_remove(clients, i)
               /\ UNCHANGED <<colorOf, colorsLeft, serverFault>>
          [] c.socket = <<>> ->
               /\ clients' = [clients EXCEPT ![i].ready = FALSE]
               /\ UNCHANGED <<colorOf, colorsLeft, serverFault>>
          [] r.panic ->
               /\ serverFault' = "ran_out_of_node_colors"
               /\ UNCHANGED <<clients, colorOf, colorsLeft>>
          [] OTHER ->
               /\ clients' = [clients EXCEPT ![i] = r.c]
               /\ colorOf' = r.cs.map /\ colorsLeft' = r.cs.left
               /\ UNCHANGED serverFault
  /\ UNCHANGED <<lastCmd, peak, backlog, listenerReady>>

\* the read failed: the connection is shut down (which is a new readiness
\* edge) and the client stays in the slab
ReadError(i) ==
  /\ Running
  /\ clients[i] # None /\ clients[i].ready /\ clients[i].conn = "open"
  /\ clients' = [clients EXCEPT ![i].conn = "shut"]
  /\ UNCHANGED <<colorOf, colorsLeft, serverFault, lastCmd, peak, backlog, listenerReady>>

-----------------------------------------------------------------------------
(* Commands of handle_command.  Each write of send_message succeeds or     *)
(* fails as WriteOutcomes allows; ok is the outcome for every client.      *)

\* the index "list" prints for the client in slot k: its position among the
\* occupied slots (clients.iter().flatten().enumerate())
ListedIndex(k) == Cardinality({j \in Occupied(clients) : j <= k})

Outcomes == {ok \in [Occupied(clients) -> BOOLEAN] :
               \A i \in Occupied(clients) : ok[i] \in WriteOutcomes(clients[i])}

\* "reset all" / "halt all": send to each client in slot order; the first
\* failing send ends the command with its error (the ? in the loop)
ResetOrHaltAll(reset) ==
  /\ Running
  /\ \E ok \in Outcomes :
       lastCmd' = [kind |-> "all", reset |-> reset,
                   intended |-> {i \in Occupied(clients) : clients[i].conn = "open"},
                   reached |-> {i \in Occupied(clients) :
                                  \A j \in Occupied(clients) : j <= i => ok[j]}]
  /\ UNCHANGED <<clients, colorOf, colorsLeft, serverFault, peak, backlog, listenerReady>>

\* "reset INDEX" / "halt INDEX" typed with the index "list" showed for the
\* client in slot k (list shows the clients whose node_id is known);
\* clients.get_mut(index) looks the index up as a slot
ResetOrHaltIndex(reset, k) ==
  /\ Running
  /\ k \in Occupied(clients) /\ clients[k].node_id # None
  /\ LET index == ListedIndex(k)
     IN \E ok \in Outcomes :
          lastCmd' = [kind |-> "index", reset |-> reset,
                      intended |-> {k},
                      reached |-> IF index \in Occupied(clients) /\ ok[index]
                                  THEN {index} ELSE {}]
  /\ UNCHANGED <<clients, colorOf, colorsLeft, serverFault, peak, backlog, listenerReady>>

\* mutant: the update loop gives up at the first client it cannot update
FwUpdateAbortOnError(ok) ==
  {i \in Occupied(clients) : clients[i].firmware_state = "Incorrect"
                             /\ \A j \in Occupied(clients) :
                                  j <= i /\ clients[j].firmware_state = "Incorrect" => ok[j]}

\* the clients whose firmware "fwupdate" updates: each one running incorrect
\* firmware whose sends succeed; an error is printed and the loop goes on
FwUpdated(ok) ==
  {i \in Occupied(clients) : clients[i].firmware_state = "Incorrect" /\ ok[i]}

\* "fwupdate": update_firmware for every client running incorrect firmware
FwUpdate ==
  /\ Running
  /\ \E ok \in Outcomes :
       lastCmd' = [kind |-> "fwupdate", reset |-> FALSE,
                   intended |-> {i \in Occupied(clients) :
                                   clients[i].firmware_state = "Incorrect"
                                   /\ clients[i].conn = "open"},
                   reached |-> FwUpdated(ok)]
  /\ UNCHANGED <<clients, colorOf, colorsLeft, serverFault, peak, backlog, listenerReady>>

-----------------------------------------------------------------------------
Init ==
  /\ clients = <<>>
  /\ colorOf = [id \in NodeIds |-> 0]
  /\ colorsLeft = NumColors
  /\ serverFault = "none"
  /\ lastCmd = [kind |-> "none", reset |-> FALSE, intended |-> {}, reached |-> {}]
  /\ peak = 0
  /\ backlog = 0
  /\ listenerReady = FALSE

Next ==
  \/ Connect \/ Accept
  \/ \E i \in DOMAIN clients :
       \/ \E m \in Sendable : NodeSend(i, m)
       \/ PeerClose(i) \/ Read(i) \/ ReadError(i)
       \/ \E reset \in BOOLEAN : ResetOrHaltIndex(reset, i)
  \/ \E reset \in BOOLEAN : ResetOrHaltAll(reset)
  \/ FwUpdate

Spec == Init /\ [][Next]_vars

\* poll(None) returns whenever an event is pending and the loop handles
\* every event it returns: a pending SERVER_TOKEN event and a pending event
\* of a client's token are handled
FairSpec == /\ Spec /\ WF_vars(Accept)
            /\ \A i \in 1..MaxConnections : WF_vars(i \in DOMAIN clients /\ Read(i))

-----------------------------------------------------------------------------
TypeOK ==
  /\ \A i \in Occupied(clients) :
       /\ clients[i].conn \in ConnStates /\ clients[i].firmware_state \in FwStates
       /\ clients[i].node_id \in NodeIds \cup {None}
       /\ clients[i].color \in 0..NumColors
  /\ colorOf \in [NodeIds -> 0..NumColors] /\ colorsLeft \in 0..NumColors
  /\ backlog \in 0..MaxConnections /\ listenerReady \in BOOLEAN
  /\ \A i \in Occupied(clients) :
       /\ clients[i].ready \in BOOLEAN /\ clients[i].sent \in Seq(Sendable)
       /\ Len(clients[i].buffer) <= BufferLimit + ReadSize

(* The slab reuses the slots of disconnected clients: it never holds more   *)
(* slots than the most clients ever connected at once, however connections  *)
(* come and go (Slab::insert takes get_free_index before pushing).          *)
SlabWithinPeak == Len(clients) <= peak

(* The color a client is shown in identifies its node: two clients carry    *)
(* the same color exactly when they reported the same id, across            *)
(* reconnections and id changes (Colors::get_color, its unit test color).   *)
ColorIdentifiesNode ==
  \A i, j \in Occupied(clients) :
    clients[i].node_id # None /\ clients[j].node_id # None =>
      (clients[i].node_id = clients[j].node_id <=> clients[i].color = clients[j].color)

(* "fwupdate" updates every client that reported incorrect firmware and is  *)
(* still connected, even when the update of another client fails.           *)
FwUpdateReachesIncorrect ==
  lastCmd.kind = "fwupdate" => lastCmd.intended \subseteq lastCmd.reached

(* "halt all" and "reset all" reach every client that is still connected,   *)
(* as the command's help text "halt ... all nodes" says.                    *)
AllCommandReachesConnected ==
  lastCmd.kind = "all" => lastCmd.intended \subseteq lastCmd.reached

(* "halt INDEX" and "reset INDEX", typed with the index "list" shows for a  *)
(* node, act on that node and on no other.                                  *)
IndexCommandHitsListedNode ==
  lastCmd.kind = "index" => lastCmd.reached \subseteq lastCmd.intended

(* Every byte a node's connection holds reaches the server, in order and   *)
(* once: the bytes of the messages applied so far, then client.buffer,      *)
(* then the socket are the bytes of the messages the node sent, and after   *)
(* each read the buffer holds no complete frame (client.buffer, the loop    *)
(* over cobs_decode_from_iter and drain(..n_consumed), main.rs).            *)
FramesDecodedInOrder ==
  \A i \in Occupied(clients) :
    /\ EncodeAll(clients[i].applied) \o clients[i].buffer \o clients[i].socket
         = EncodeAll(clients[i].sent)
    /\ Zero \notin Range(clients[i].buffer)

\* a connection holds input the server has not taken: a connection in the
\* backlog, bytes in a client's socket, or the end of its stream
Pending(i) ==
  i \in DOMAIN clients /\ clients[i] # None
  /\ (clients[i].socket # <<>> \/ clients[i].conn # "open")

(* Everything the nodes send is eventually taken in by the poll loop, when *)
(* it handles each event poll returns: every connection is accepted, and   *)
(* every byte and every end of stream a client's socket holds is read (the  *)
(* listener and the clients are registered READABLE with mio, whose events *)
(* are edges).                                                              *)
InputTakenIn ==
  /\ backlog > 0 ~> backlog = 0
  /\ \A i \in 1..MaxConnections : Pending(i) ~> ~Pending(i)

(* The server never panics: Colors::get_color never runs out of colors.     *)
NoServerPanic == serverFault = "none"
=============================================================================
