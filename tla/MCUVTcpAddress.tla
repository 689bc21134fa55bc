--------------------------- MODULE MCUVTcpAddress ---------------------------
(* The instance of UVTcpAddress, and with it UVTcp, for one socket.        *)
EXTENDS UVTcpAddress

CONSTANT a

OneObject == {a}
AllOrNone == {{}, {"read", "write", "error"}}
=============================================================================
