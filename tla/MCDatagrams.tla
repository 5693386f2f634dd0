---------------------------- MODULE MCDatagrams ----------------------------
(***************************************************************************)
(* A little-endian machine with two interfaces, hosts and a group of both  *)
(* families.  No address but zero and no port reads the same backwards.    *)
(***************************************************************************)
EXTENDS Datagrams

V6(first, end) == [i \in 1 .. 16 |-> CASE i = 1 -> first [] i = 16 -> end [] OTHER -> 0]

MCHosts == [v4 |-> {<<127, 0, 0, 224>>}, v6 |-> {V6(254, 1), V6(32, 2)}]
MCGroups == [v4 |-> {<<224, 0, 0, 5>>}, v6 |-> {V6(255, 3)}]
MCLinkLocal == {V6(254, 1), V6(255, 3)}
MCLinks == [v4 |-> {<<10, 0, 0, 9>>, <<10, 0, 1, 9>>}, v6 |-> {1, 2}]
MCPorts == {<<31, 144>>}
MCSizes == {0, 3}
MCBufSizes == {1, 3}
=============================================================================
