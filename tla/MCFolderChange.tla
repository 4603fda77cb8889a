--------------------------- MODULE MCFolderChange ---------------------------
(* TLC instances of FolderChange: one Folder whose last output the first    *)
(* manifest does not own.                                                   *)
EXTENDS FolderChange

FirstUnowned == {N}
=============================================================================
