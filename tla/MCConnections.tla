---------------------------- MODULE MCConnections ----------------------------
(***************************************************************************)
(* Two clients for a queue of one, with lists that lead to the server at   *)
(* once, after a refusal, behind a family that is not supported, twice, or *)
(* never.  A name with a port leads to all of them, an IPv6 address with a *)
(* port to the first, and a name alone to port zero, where nobody is.  The *)
(* address alone is taken for a shorter one with a port, of another host.  *)
(***************************************************************************)
EXTENDS Connections

CONSTANTS c1, c2, here, there, v6

MCClients == {c1, c2}
MCEndpoints == {here, there, v6}
MCUnsupported == {v6}
MCLists == {<<here>>, <<there, here>>, <<v6, here>>, <<here, here>>, <<there, there>>}
MCLengths == {0, 16, 64, -1}

Name(host, port) == [host |-> host, port |-> port]

Shorter == <<"2001", ":", ":", "2">>
V6Address == Shorter \o <<":", "1">>

MCWords == {"localhost", "80", "2001", "1", "2"}

MCNames ==
  { Name(<<"localhost">>, <<"80">>), Name(<<"localhost">>, Null),
    Name(V6Address, <<"80">>), Name(V6Address, Null) }

MCDirectory ==
  [ request \in {Name(<<"localhost">>, <<"80">>), Name(<<"localhost">>, Null),
                 Name(V6Address, <<"80">>), Name(Shorter, <<"1">>)} |->
      IF request.host = V6Address THEN {<<here>>}
      ELSE IF request.port = <<"80">> THEN MCLists
      ELSE {<<there>>} ]
=============================================================================
