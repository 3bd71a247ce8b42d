------------------------------ MODULE MCSessions ------------------------------
(* The hooks of one session with two turns, the rules of two sessions and  *)
(* the flag files of two over three days.                                  *)
EXTENDS Sessions, TLC

CONSTANTS f1, f2

MCPairs == {<<"Read", "Bash">>}
MCSymmetry == Permutations(FileSessions)
=============================================================================
