-------------------------- MODULE MCWiimoteGesture ---------------------------
(* Three ghosts, the fewest for which unload may lose its patience; two     *)
(* threads in two objects.                                                  *)
EXTENDS WiimoteGesture

MCGhosts  == {"sakura", "kero", "emily"}
MCThreads == 1 .. 2
=============================================================================
