---------------------------- MODULE MCPlanStore ----------------------------
(* Small instances of PlanStore for TLC.

   The card batch is prepare -> one or two cards -> collect, the emergency plan
   is validate -> mark -> collect, shortened where the run does not need it. *)
EXTENDS PlanStore, TLC

CONSTANTS card, prepare, c1, c2, collect, r1, r2, e1, s1, s2, f1, cmd1, cmd2

\* A card batch of two products.
BatchKeysOf == card :> {prepare, c1, c2, collect}
BatchDependsOn ==
    (prepare :> {}) @@ (c1 :> {prepare}) @@ (c2 :> {prepare}) @@ (collect :> {c1, c2})
PairResources == card :> [k \in Keys |-> IF k = c1 THEN {r1} ELSE IF k = c2 THEN {r2} ELSE {}]

\* The same without its summary node.
PairKeysOf == card :> {prepare, c1, c2}
PairDependsOn == (prepare :> {}) @@ (c1 :> {prepare}) @@ (c2 :> {prepare})

\* A card batch of one product, without its summary.
SingleKeysOf == card :> {prepare, c1}
SingleDependsOn == (prepare :> {}) @@ (c1 :> {prepare})
SingleResources == card :> [k \in Keys |-> IF k = c1 THEN {r1} ELSE {}]

=============================================================================
