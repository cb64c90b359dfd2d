------------------------- MODULE MCPrincessGateway -------------------------
(* PrincessGateway on small instances.                                      *)
EXTENDS PrincessGateway
=============================================================================
