---------------------------- MODULE MCLokiQueries ----------------------------
(***************************************************************************)
(* One field of each type, and a second number whose name ends like the    *)
(* first one's, as XlatSrcPort and SrcPort do, and PktDropPackets and      *)
(* Packets; "a" is found in "ab".                                          *)
(***************************************************************************)
EXTENDS LokiQueries, TLC

MCSuffixed == [k \in {"ns", "addr", "flags", "xport", "name", "drops"} |-> {k}]
              @@ "port" :> {"port", "xport"} @@ "pkts" :> {"pkts", "drops"}
MCContaining == "a" :> {"a", "ab"} @@ "ab" :> {"ab"}
=============================================================================
