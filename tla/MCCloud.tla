------------------------------- MODULE MCCloud -------------------------------
(* The cloud service with nodes that may connect at once, two node ids,    *)
(* and the palette of Colors::new (8 entries).  receive_buffer (1024       *)
(* bytes) is scaled to 2 bytes and the frames to 2 (Halted) and 3 (Info)   *)
(* bytes, so that a read may end inside a frame and may leave whole frames *)
(* in the socket, as a 1024-byte read does with a burst of log frames.     *)
(* BufferLimit keeps the 10_000-byte limit out of reach, as it is for       *)
(* frames shorter than 10_000 - 1024 bytes.                                *)
EXTENDS Cloud

MCNodeIds == {"n1", "n2"}
MCNumColors == 8
MCMaxConnections == 2
\* three slots: a freed slot before two live clients shifts the listed index
MCMaxConnectionsIndex == 3
MCReadSize == 2
MCBufferLimit == 8
MCMaxSends == 2
\* an Info of each id from a node with incorrect firmware, and a Halted
\* report: the messages whose effects the properties of the run tell apart
MCSendable == [type : {"Info"}, id : MCNodeIds, crc : {"other"}]
               \cup [type : {"Halted"}, halted : {TRUE}]
\* an Info per id, enough to list and name nodes
MCSendableInfo == [type : {"Info"}, id : MCNodeIds, crc : {None}]
=============================================================================
