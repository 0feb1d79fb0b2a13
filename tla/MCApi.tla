------------------------------- MODULE MCApi -------------------------------
(***************************************************************************)
(* Instances for the public API: search states with their bindings and     *)
(* match objects (SearchState), and batch calls (BatchSearch).  A batch    *)
(* call uses neither tables nor the match object of the state, so it is    *)
(* explored on its own, before the first other call (batches, apiInit).    *)
(***************************************************************************)
EXTENDS SearchState, BatchSearch

MCLists == {<<[name |-> "T", table |-> "t1"]>>,
            <<[name |-> "U", table |-> "t1"], [name |-> "T", table |-> "t2"]>>}
MCOutcomes == {[ok |-> FALSE, start |-> 0, regs |-> <<>>],
               [ok |-> FALSE, start |-> 0, regs |-> <<<<0, 2>>>>],
               [ok |-> TRUE, start |-> 0, regs |-> <<<<0, 1>>>>],
               [ok |-> TRUE, start |-> 1, regs |-> <<<<0, 1>>, <<0, 0>>>>],
               [ok |-> TRUE, start |-> 0, regs |-> <<<<0, 0>>, <<0, 2>>>>]}

allVars == <<vars, batchVars>>
ApiInit == Init /\ BatchInit
ApiNext == \/ batch.pc = "idle" /\ Next /\ UNCHANGED batchVars
           \/ calls = 0 /\ BatchNext /\ UNCHANGED vars
ApiSpec == ApiInit /\ [][ApiNext]_allVars
=============================================================================
