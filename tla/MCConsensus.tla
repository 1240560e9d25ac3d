---------------------------- MODULE MCConsensus ----------------------------
(* Consensus with two free providers, a billed one and one of unknown billing class. *)
EXTENDS Consensus

CONSTANTS a, b, c, u

MCProvider == {a, b, c, u}
MCChain == <<a, b>>
MCByScore == <<b, a, c, u>>
MCPaid == {b}
MCUnpriced == {u}
MCAvoidable == {c}
==============================================================================
