-------------------------- MODULE MCRunnerExecutor --------------------------
(* A plan of three steps: one without post-conditions, one that rewrites   *)
(* the same file and declares post-conditions, and a verify step.          *)
EXTENDS RunnerExecutor, TLC

CONSTANTS a, b, c   \* c is a file no step declares

MCBoth == {"interactive", "detached"}
MCFile == {a, b, c}
MCInHead == {a, c}
MCModifying == {1, 2}
MCHasPost == {2}
MCFilesOf == (1 :> {a}) @@ (2 :> {a, b}) @@ (3 :> {})
=============================================================================
