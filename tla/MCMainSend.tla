----------------------------- MODULE MCMainSend -----------------------------
(* MainSend for TLC: the bounds are given in the Uplink*.cfg.               *)
EXTENDS MainSendRefinement
=============================================================================
