--------------------------- MODULE MCSyncRequest ----------------------------
(* TLC instance of SyncRequest.                                            *)
EXTENDS SyncRequest
=============================================================================
