------------------------------ MODULE MCNoteLife ------------------------------
EXTENDS NoteLife

(* A context is due the second day.                                        *)
MCAgeRule == [context |-> 1]
=============================================================================
