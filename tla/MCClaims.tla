------------------------------ MODULE MCClaims ------------------------------
EXTENDS Claims, TLC

\* Agents are interchangeable: no action or property orders them.
AgentSymmetry == Permutations(Agents)
=============================================================================
