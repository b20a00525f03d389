----------------------------- MODULE MCMembuff -----------------------------
(* Instance of MembuffCalls: buffers of up to five bytes, of which a zero *)
(* ends a line.                                                             *)
EXTENDS MembuffCalls
=============================================================================
