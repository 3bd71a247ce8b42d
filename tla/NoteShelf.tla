------------------------------- MODULE NoteShelf -------------------------------
(***************************************************************************)
(* What the note store promises about one folder of one year, files and    *)
(* locks aside: a note is listed on one shelf, moves between the active    *)
(* and the archive shelf and leaves the active shelf only by a removal.    *)
(* A removed or unfinished note may come back (repair restores a body that *)
(* lost its row, a killed archive leaves a row that shows the note again); *)
(* an archived one never disappears.                                       *)
(***************************************************************************)
CONSTANT Ids

VARIABLE place

Places == {"none", "active", "archived", "removed"}

\* add, archive, unarchive, remove, and what repair may bring back.
Moves == {<<"none", "active">>, <<"active", "archived">>, <<"archived", "active">>,
          <<"active", "removed">>, <<"removed", "active">>, <<"removed", "archived">>}

Init == place \in [Ids -> Places]

Next ==
  /\ place' \in [Ids -> Places]
  /\ \A s \in Ids : place'[s] # place[s] => <<place[s], place'[s]>> \in Moves

Spec == Init /\ [][Next]_place
=============================================================================
