-------------------------- MODULE MCPlanExecution --------------------------
(* PlanExecution with three providers: a chain of a free and a billed one, and a free one *)
(* outside the chain whose score is under the quality floor. *)
EXTENDS PlanExecution

CONSTANTS a, b, c

MCProvider == {a, b, c}
MCChain == <<a, b>>
MCByScore == <<b, a, c>>
MCPaid == {b}
MCBelowFloor == {c}
MCResetDelays == {1, Never}
==============================================================================
