------------------------------ MODULE MCLLMStack ------------------------------
(* Instances of LLMStack for TLC.                                           *)
EXTENDS LLMStack

CONSTANTS c1, c2

\* Every attempt reserves two units; a first answer uses one, a later one
\* three.
MCEstimate == [k \in Attempts |-> 2]
MCActual == [k \in Attempts |-> IF k = 1 THEN {1} ELSE {3}]
=============================================================================
