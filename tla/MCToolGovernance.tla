-------------------------- MODULE MCToolGovernance --------------------------
(* A small instance of ToolGovernance: no access rule names the tool barred. *)
EXTENDS ToolGovernance, TLC

CONSTANTS t1, c1, c2, safe, risky, barred, run, team

MCRates == [input |-> 2, hit |-> 1, miss |-> 3, output |-> 2, reasoning |-> 4]
MCRules == {[tenant |-> None, tools |-> {safe}], [tenant |-> t1, tools |-> {risky}]}

Budget(n, cost, tools, attempts, concurrent) ==
  [model_calls |-> n, cost |-> cost, tool_calls |-> tools, attempts |-> attempts, concurrent |-> concurrent]

MCLimits == [s \in Scopes |-> IF s = run THEN Budget(2, 6, 2, 1, 1) ELSE Budget(2, 8, 1, 1, 2)]
MCLowered == Budget(1, 4, 1, 1, 1)

Usage(i, h, m, o, r) == [input |-> i, hit |-> h, miss |-> m, output |-> o, reasoning |-> r]
MCUsages == {Usage(1, 0, 1, 1, 1), Usage(1, 1, 1, 2, 1)}

Swaps == Permutations({c1, c2})

=============================================================================
