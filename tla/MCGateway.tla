------------------------------ MODULE MCGateway -------------------------------
(* Two clients behind one address; the first changes to another in the end. *)
EXTENDS Gateway

CONSTANTS c1, c2, i1, i2

MCClients == {c1, c2}
MCRequests == ({c1} \X (1..3)) \cup ({c2} \X (1..2))
MCIps == {i1, i2}
MCIpOf == [r \in MCRequests |-> IF r[2] = 3 THEN i2 ELSE i1]
===============================================================================
