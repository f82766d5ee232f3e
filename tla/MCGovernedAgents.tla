-------------------------- MODULE MCGovernedAgents --------------------------
(* Model values for the model checking of GovernedAgents: a built-in agent *)
(* and a deployed one, a plan that works and then fails, one that works,   *)
(* and a plan of the route that fails.                                     *)
EXTENDS GovernedAgents, TLC

Step(f) == [tool |-> "t", fails |-> f]
Plan(steps, approval, dry) == [steps |-> steps, approval |-> approval, dry |-> dry]
MCBuiltIn == "fin" :> [status |-> "ACTIVE", risk |-> "LOW", max |-> 2]
MCConfigs == {[risk |-> "HIGH", max |-> 1]}
MCPlans == ("undo" :> Plan(<<Step(FALSE), Step(TRUE)>>, FALSE, FALSE))
        @@ ("work" :> Plan(<<Step(FALSE)>>, FALSE, FALSE))
        @@ ("fail" :> Plan(<<Step(TRUE)>>, FALSE, FALSE))
=============================================================================
