---------------------------- MODULE MCStreamWrite ----------------------------
(* Model-checking instance of StreamWrite: two frames, so that a frame can *)
(* be in the pipe while another has been acknowledged, and two waits, so   *)
(* that a wait can time out and be retried.                                *)
EXTENDS StreamWrite

MCMaxFrames == 2
MCMaxWaits == 2
=============================================================================
