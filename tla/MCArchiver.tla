----------------------------- MODULE MCArchiver -----------------------------
(***************************************************************************)
(* Values for the constants of Archiver.                                   *)
(***************************************************************************)
EXTENDS Archiver

CONSTANTS note, folder   \* a file the user left in the directory; a directory

NoOthers == {}
NoteAndFolder == {note, folder}
OnlyFolder == {folder}

=============================================================================
