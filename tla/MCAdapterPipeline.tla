------------------------- MODULE MCAdapterPipeline --------------------------
(* TLC instance of AdapterPipeline.                                        *)
EXTENDS AdapterPipeline
=============================================================================
