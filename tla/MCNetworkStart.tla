--------------------------- MODULE MCNetworkStart ---------------------------
(* TLC instance of NetworkStart: the configured channels and others.       *)
EXTENDS NetworkStart

CONSTANTS ch11, ch15

MCChannelLists == {ch11, ch15}
=============================================================================
