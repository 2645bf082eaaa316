---------------------------- MODULE MCClientSetup ----------------------------
(* ClientSetup alone, for TLC: one invitation and no failure at all. *)
EXTENDS ClientSetup
=============================================================================
