--------------------------- MODULE MCNnHandshake ----------------------------
(* NnHandshake for TLC: one peer may stop anywhere inside its handshake.     *)
EXTENDS NnHandshake

CONSTANTS p1, p2, p3

TwoPrompt == {p1, p2}
ThreePeers == {p1, p2, p3}
AllRequests == RequestKinds
ConnectorRequests == {"RemoteNnHello"}  \* all that connect_to_fuzzer sends
=============================================================================
