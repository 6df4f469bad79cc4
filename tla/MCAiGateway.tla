---------------------------- MODULE MCAiGateway -----------------------------
(* Instances of AiGateway for TLC: one limited and one unlimited account. *)
EXTENDS AiGateway, TLC

CONSTANTS a1, a2

MCAccounts == {a1, a2}
MCAccLimit == [a \in {a1, a2} |-> IF a = a1 THEN 1 ELSE 0]

(* One priority, so that the load decides. *)
MCPriority == [a \in {a1, a2} |-> 1]

(* Safety runs only: clients are interchangeable. *)
ClientSymmetry == Permutations(Clients)
=============================================================================
