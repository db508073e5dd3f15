----------------------------- MODULE MCGilMutex -----------------------------
(* Two locks or comparisons in each call are enough to hold the mutex while *)
(* comparing and to compare twice.                                          *)
EXTENDS GilInv

MCMaxWork == 2
=============================================================================
