----------------------------- MODULE MCLauncher -----------------------------
(***************************************************************************)
(* Two runs at once, one with a report longer than the pipe.               *)
(***************************************************************************)
EXTENDS Launcher

CONSTANTS w1, w2, home
=============================================================================
