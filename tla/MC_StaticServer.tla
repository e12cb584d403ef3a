-------------------------- MODULE MC_StaticServer --------------------------
(* The static file server with at most three calls of start(): enough for  *)
(* a restart while the previous server still holds the port, and for a     *)
(* third start after a failed stop.                                        *)
EXTENDS StaticServer

MCMaxStarts == 3

=============================================================================
