----------------------------- MODULE MCEgModem ------------------------------
(* EgModem for TLC: the bounds are given in EgModem.cfg.                    *)
EXTENDS EgModem
=============================================================================
