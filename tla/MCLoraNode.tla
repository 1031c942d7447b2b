----------------------------- MODULE MCLoraNode -----------------------------
(* LoraNode for TLC: the bounds are given in LoraNode.cfg.                  *)
EXTENDS LoraNode
=============================================================================
