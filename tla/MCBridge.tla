------------------------------ MODULE MCBridge ------------------------------
(* TLC instances of Bridge: three tools, one of them with two tags that it *)
(* shares with no other, so that the surface shrinks, grows and is swapped *)
(* for another of the same size.                                           *)
EXTENDS Bridge

CONSTANTS t1, t2, t3

MCTool == {t1, t2, t3}
MCTags == [t \in MCTool |-> CASE t = t1 -> <<"issues">>
                              [] t = t2 -> <<"files">>
                              [] OTHER -> <<"files", "search">>]
MCCapability == {"issues", "files", "search"}

AllMethods == {"malformed", "oversized", "notifications/initialized", "initialize",
               "ping", "other", "tools/list", "tools/call"}
SurfaceMethods == {"tools/list", "tools/call"}
=============================================================================
