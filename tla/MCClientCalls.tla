----------------------------- MODULE MCClientCalls -----------------------------
(***************************************************************************)
(* ClientCalls with three calls and responses of up to two frames.        *)
(***************************************************************************)
EXTENDS ClientCalls

MCMaxFrames == 2

MCMaxOps == 3

=============================================================================
