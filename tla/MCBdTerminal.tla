---------------------------- MODULE MCBdTerminal ----------------------------
(* BdTerminal for TLC: the bounds are given in BdTerminal.cfg.              *)
EXTENDS BdTerminal
=============================================================================
