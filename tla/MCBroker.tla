------------------------------- MODULE MCBroker -------------------------------
(* Two processes of one plugin, one after the other, and one of another, with *)
(* two endpoints, which a process may also register twice; one connection     *)
(* less than processes, and room for one entry less than there may be.        *)
EXTENDS Broker, TLC
CONSTANTS solver, weather, plan, price

MCProcs == {<<solver, 1>>, <<solver, 2>>, <<weather, 1>>}
MCEndpoints == {plan, price}
MCMaxLines == [i \in MCProcs |-> IF i[1] = solver THEN 3 ELSE 2]
MCSymmetry == Permutations(MCEndpoints)
=============================================================================
