---------------------------- MODULE MCProbeCache ----------------------------
(* The probe cache of one provider under two settings; a success is trusted for two ticks, *)
(* a failure for one. *)
EXTENDS ProbeCache
==============================================================================
