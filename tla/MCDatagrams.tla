---------------------------- MODULE MCDatagrams ----------------------------
(***************************************************************************)
(* The UDP programs for TLC: two clients and two servers, the first client *)
(* on the first server's host, the second bound to an address when it      *)
(* sends to all.                                                           *)
(***************************************************************************)
EXTENDS Datagrams

CONSTANTS c1, c2, s1, s2

MCMaxTyped == [u \in Clients |-> 1]
MCHost == [x \in Nodes |-> CASE x = s1 -> 1 [] x = c1 -> 1 [] OTHER -> 2]
MCPort == [x \in Nodes |-> IF x \in Servers THEN 1 ELSE 2]
=============================================================================
