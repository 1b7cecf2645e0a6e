--------------------------- MODULE MCNodeLifecycle --------------------------
(***************************************************************************)
(* Instances of NodeLifecycle.  A heartbeat reports enough successes to    *)
(* meet the cap of 10 of one heartbeat, or enough failures to reach a      *)
(* score of zero.  With a budget of 13 the second gain of a window is cut, *)
(* the third is nothing, and three uncut gains exceed two budgets.         *)
(***************************************************************************)
EXTENDS NodeLifecycle, TLC

Report(success, failed, available, id) ==
  [tasks_success |-> success, tasks_failed |-> failed, available |-> available, has_batch_id |-> id]

\* Requests are interchangeable.
HandlerSymmetry == Permutations(Handlers)

MCReports == {Report(15, 0, TRUE, TRUE), Report(0, 12, FALSE, FALSE)}
=============================================================================
