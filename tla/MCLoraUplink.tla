---------------------------- MODULE MCLoraUplink ----------------------------
(* LoraUplink for TLC: the bounds are given in LoraUplink.cfg.              *)
EXTENDS LoraUplink
=============================================================================
