--------------------------- MODULE MCStdioClient ---------------------------
(* TLC instances of StdioClient.                                           *)
EXTENDS StdioClient

CONSTANTS c1, c2

MCCaller == {c1, c2}
=============================================================================
