---------------------------- MODULE MCRepoRegistry ----------------------------
(* The registry over three places for repositories and two for the main    *)
(* checkout, and the files of one of them over three releases.             *)
EXTENDS Repositories, TLC

CONSTANTS p1, p2, r1, r2, r3, h1, h2

MCSafeKills == Pcs \ {"csave", "msave", "mainptr", "mainentry"}
MCSymmetry == Permutations(Procs) \union Permutations(Repos) \union Permutations(Homes)

(* The second release drops a value and a command, the third has them back. *)
Base == [replace |-> FALSE, values |-> {"p"}]
Layer(replaces, contents) == [replace |-> replaces, values |-> contents]
MCShips == <<[layers |-> <<Base, Layer(FALSE, {"q"})>>, commands |-> {"c", "d"}],
             [layers |-> <<Layer(FALSE, {"q"}), Layer(TRUE, {"p"})>>, commands |-> {"c"}],
             [layers |-> <<Base, Layer(FALSE, {"q"})>>, commands |-> {"c", "d"}]>>
=============================================================================
