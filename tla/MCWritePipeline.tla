-------------------------- MODULE MCWritePipeline ---------------------------
(***************************************************************************)
(* WritePipeline for TLC: two accounts on one device, a pipeline with room *)
(* for two writes and a third write to wait for it.                        *)
(***************************************************************************)
EXTENDS WritePipeline

CONSTANTS ann, bob

MCUsers == {ann, bob}
=============================================================================
