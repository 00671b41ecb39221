------------------------- MODULE MCRealtimeGateway -------------------------
(* Small instances of RealtimeGateway for TLC: two sockets behind one      *)
(* address and one whose address is unknown; two guests share an address.  *)
EXTENDS RealtimeGateway

CONSTANTS s1, s2, s3, g1, g2

GatewaySockets == {s1, s2, s3}
GatewayIpOf == [s \in GatewaySockets |-> IF s = s3 THEN NoIp ELSE "ip"]
GatewayMaxSent == [s \in GatewaySockets |-> IF s = s3 THEN 2 ELSE 1]
GatewayMaxOf == [a \in RoomActions |-> [d \in {"ip", "guest"} |-> IF d = "ip" THEN 3 ELSE 2]]

=============================================================================
