-------------------------------- MODULE MCCapture --------------------------------
(* Capture for TLC on its own: the configuration gives it its bounds. *)
EXTENDS Capture
================================================================================
