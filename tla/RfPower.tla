------------------------------ MODULE RfPower -------------------------------
(***************************************************************************)
(* Power of the two long-range radios (src/src/power.c).  Each function    *)
(* tests and switches one radio under g_rf_power_mutex, so it is one step; *)
(* rf_power_on and main_all_power_down, which call two of them, are two    *)
(* steps of their callers.  The sleeps of eg_power_on and eg_power_off are *)
(* spent under the mutex: no other thread sees a radio half switched.      *)
(***************************************************************************)

VARIABLES bdOn,   \* g_bd_power_enabled
          egOn    \* g_eg_power_enabled

powerVars == <<bdOn, egOn>>

BdPowerOn  == bdOn' = TRUE  /\ UNCHANGED egOn
BdPowerOff == bdOn' = FALSE /\ UNCHANGED egOn
EgPowerOn  == egOn' = TRUE  /\ UNCHANGED bdOn
EgPowerOff == egOn' = FALSE /\ UNCHANGED bdOn

\* rf_power_is_on: one radio is enough.
RfPowerIsOn == bdOn \/ egOn

\* The step moves g_rf_power_generation: a radio was really switched.
GenerationMoves == powerVars' # powerVars

=============================================================================
