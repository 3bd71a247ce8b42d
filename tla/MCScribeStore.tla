----------------------------- MODULE MCScribeStore -----------------------------
(* Three processes over a folder that holds one note.                      *)
EXTENDS ScribeStore, TLC

CONSTANTS p1, p2, p3

\* Two processes add, two move notes both ways, one removes, one runs a pass.
MCMixed == (p1 :> {"add", "archive", "remove"}) @@ (p2 :> {"add", "update", "unarchive"})
             @@ (p3 :> {"archive", "unarchive", "repair", "backfill"})
=============================================================================
