---------------------------- MODULE MCPolicySync ----------------------------
(* Model-checking instances of PolicySync: one BaoPolicy and two rule      *)
(* lists; rsB's rules carry an allowedParameters map with two keys.        *)
EXTENDS PolicySync

CONSTANTS p1, rsA, rsB, k1, k2

MCBaoPolicies == {p1}
MCRuleSets == {rsA, rsB}

(* rsB has two allowedParameters keys, so ToHCL has two renderings of it. *)
TwoKeyParams(rs) == IF rs = rsB THEN {k1, k2} ELSE {}
(* No rule list has more than one allowedParameters key. *)
OneKeyParams(rs) == IF rs = rsB THEN {k1} ELSE {}
=============================================================================
