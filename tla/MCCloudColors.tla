---------------------------- MODULE MCCloudColors ----------------------------
(* The cloud service over a test campaign in which more node ids report    *)
(* than the palette has entries.  The palette is scaled down from the 8    *)
(* entries of Colors::new to 2, so that the third id is the one too many   *)
(* within a small state space; get_color does not depend on the palette's  *)
(* length otherwise.                                                        *)
EXTENDS Cloud

MCNodeIds == {"n1", "n2", "n3"}
MCNumColors == 2
MCMaxConnections == 1
MCReadSize == 3
MCBufferLimit == 8
\* one Info per id, on one connection after another
MCSendable == [type : {"Info"}, id : MCNodeIds, crc : {None}]
MCMaxSends == 3
=============================================================================
