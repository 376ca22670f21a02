------------------------------- MODULE Postcard -------------------------------
(***************************************************************************)
(* The wire encoding of a Lightning Message as the firmware produces it    *)
(* with postcard::to_vec (firmware/src/main.rs) from the serde derive of    *)
(* Message and NodeData (lightning/src/message.rs): the variant index as a *)
(* varint, then the fields in declaration order; a u8 is one raw byte, a   *)
(* u16 or u32 is a varint, an Option is a 0/1 tag followed by its value,   *)
(* and a sequence is its length as a varint followed by its elements.      *)
(*                                                                         *)
(* A Data message carries NodeData records [source, payload] here.         *)
(***************************************************************************)
EXTENDS Naturals, Sequences, SequencesExt

CONSTANT None     \* Option::None of parent_channel

RECURSIVE Varint(_)

\* LEB128 varint of postcard for u16/u32 (NodeId, Payload, lengths, variant
\* indices): seven bits per byte, least significant first, the high bit set
\* on every byte but the last
Varint(v) == IF v < 128 THEN <<v>> ELSE <<(v % 128) + 128>> \o Varint(v \div 128)

\* a NodeData { source, payload }
EncodeNodeData(d) == Varint(d.source) \o Varint(d.payload)

\* postcard::to_vec of a Message: the variant index, then its fields
Encode(m) ==
  CASE m.type = "Beacon" ->
         <<0, m.hops, m.children_channel>>
           \o (IF m.parent_channel = None THEN <<0>> ELSE <<1, m.parent_channel>>)
    [] m.type = "Connect" -> <<1>> \o Varint(m.id)
    [] m.type = "ConnectAck" -> <<2, m.next_window_min>> \o Varint(m.id)
    [] m.type = "Data" ->
         <<3>> \o Varint(Len(m.data))
           \o FoldLeft(LAMBDA acc, d : acc \o EncodeNodeData(d), <<>>, m.data)
    [] m.type = "DataAck" -> <<4, m.next_window_min>>
    [] m.type = "Nack" -> <<5>>
=============================================================================
