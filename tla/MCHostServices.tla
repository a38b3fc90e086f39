--------------------------- MODULE MCHostServices ---------------------------
(***************************************************************************)
(* Model checking of the agent's services, and of the filter of a capture, *)
(* which is compiled by recursive descent.                                 *)
(***************************************************************************)
EXTENDS HostServices, TLC

\* Bounds.
MCTree == {<<"a">>, <<"a", "b">>, <<"a", "b", "c">>, <<"a", "d">>}
MCFolders == {<<"a">>, <<"a", "b">>}
MCBindMounts == {<<"a", "d">>}
MCImageOf == [project \in Projects |-> "repo:latest"]
MCMarkers == {[ack |-> "a", win |-> 1], [ack |-> "b", win |-> 0]}
Words == {"not", "and", "or", "(", ")", "tcp", "icmp", "src", "host", "port", "10.0.0.1", "53"}
Packet(proto, src, dst, sport, dport) ==
  [proto |-> proto, src |-> src, dst |-> dst, sport |-> sport, dport |-> dport]
Packets == {Packet("tcp", "10.0.0.1", "b", "1", "53"), Packet("tcp", "b", "10.0.0.1", "53", "1"),
            Packet("udp", "b", "c", "1", "53"), Packet("udp", "10.0.0.1", "c", "1", "2"),
            Packet("icmp", "10.0.0.1", "c", "none", "none")}
MaxDepth == 2
MaxTokens == 6
MCListed == <<[name |-> "web", ips |-> {"w"}, ports |-> {<<80, "tcp">>}],
              [name |-> "db", ips |-> {"d"}, ports |-> {}],
              [name |-> "new", ips |-> {"n"}, ports |-> {<<80, "tcp">>}]>>
Flow(src, dst, dport, from, sent, answered) ==
  [proto |-> "tcp", src |-> src, dst |-> dst, dport |-> dport, from |-> from, sent |-> sent,
   answered |-> answered]
MCTable == {Flow("w", "x", 443, "x", 1, 2), Flow("w", "x", 443, "x", -1, -1),
            Flow("x", "host", 80, "w", 2, 1), Flow("x", "host", 80, "n", 1, 0),
            Flow("x", "host", 80, "host", 0, -1), Flow("w", "d", 5432, "d", 1, 1),
            Flow("host", "x", 443, "x", 3, 0), Flow("y", "w", 80, "w", 0, 2)}

E == INSTANCE CaptureFilter WITH tokens <- v1

ERest == which = "filter" /\ UNCHANGED <<which, v2, v3, v4, v5, v6, v7, v8, v9, v10, v11, v12>>

MCInit ==
  \/ Init
  \/ /\ which = "filter" /\ E!Init
     /\ v2 = 0 /\ v3 = 0 /\ v4 = 0 /\ v5 = 0 /\ v6 = 0 /\ v7 = 0
     /\ v8 = 0 /\ v9 = 0 /\ v10 = 0 /\ v11 = 0 /\ v12 = 0
MCNext ==
  \/ Next
  \/ ERest /\ E!Next
MCSpec == MCInit /\ [][MCNext]_vars /\ WF_vars(Fair1) /\ WF_vars(Fair2) /\ WF_vars(Fair3)

(* The compiled filter takes the packets that the written one describes,   *)
(* and fits its limits again in the helper (capture_filter.py).            *)
ComputedRight == which = "filter" => E!TypeOK /\ E!MeansWhatItSays
=============================================================================
