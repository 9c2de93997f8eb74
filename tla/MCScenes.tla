------------------------------- MODULE MCScenes -------------------------------
(* The four pages with two cues, small windows and few pointers for TLC. *)
EXTENDS Scenes

CONSTANTS floor, golf_ball, mouse, pen
=============================================================================
