--------------------------- MODULE MCRunnerDetached ---------------------------
(* Values for the constants of RunnerDetached.                             *)
EXTENDS RunnerDetached, TLC

CONSTANTS p1, p2

MCOne == {p1}
MCTwo == {p1, p2}
MCNone == {}
MCCost == {0, 1}
MCPaid == {1}
MCMaintenance == {"cut", "setup", "remove", "explicit", "cleanup", "slow", "markdone"}
MCRace == {"markdone", "setup", "explicit"}
=============================================================================
