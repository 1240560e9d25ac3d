------------------------------- MODULE Clock -------------------------------
(***************************************************************************)
(* The wall clock that preflight.py and provider_policy.py read, in ticks. *)
(* It only advances: the host's time is not set back.                      *)
(***************************************************************************)
EXTENDS Naturals

CONSTANT MaxTime     \* bound on the clock

VARIABLE now         \* time.time(), datetime.now(UTC)

ClockAdvances == now < MaxTime /\ now' = now + 1
=============================================================================
