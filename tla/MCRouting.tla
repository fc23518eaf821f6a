----------------------------- MODULE MCRouting -----------------------------
(* A rotation over a provider that may fail and one that never does, a     *)
(* priority order against the chain's with two models of one provider, and *)
(* a weighted choice.                                                      *)
EXTENDS Routing, TLC
CONSTANTS p1, p2, rotate, grouped, sampled

MCAlias      == {rotate, grouped, sampled}
MCChainOf    == rotate :> <<p1, p2>> @@ grouped :> <<p1, p1>> @@ sampled :> <<p2, p1>>
MCPriorityOf == rotate :> <<0, 0>> @@ grouped :> <<1, 0>> @@ sampled :> <<0, 0>>
MCStrategyOf == rotate :> "round-robin" @@ grouped :> "priority-grouped" @@ sampled :> "weighted"
=============================================================================
