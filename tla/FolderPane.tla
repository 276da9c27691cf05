----------------------------- MODULE FolderPane -----------------------------
(* The folder pane of neogit commit --gui (neogit/console/folder_tree.py): *)
(* the directory whose files are hashed and the last of them.              *)
EXTENDS Integers, Sequences

CONSTANT None

StatsRows    == 3
PaneOverhead == 4

VisibleFileRows(height) ==
    LET rows == height - StatsRows - PaneOverhead IN IF rows > 1 THEN rows ELSE 1

EmptyPane == [folder |-> None, hidden |-> 0, recent |-> <<>>]

\* Faulty variant of FoldFile: older files are dropped, but not counted.  No
\* specification uses it.
FoldFileUncounted(state, folder, name, max) ==
    LET all  == Append(state.recent, name)
        over == IF Len(all) > max THEN Len(all) - max ELSE 0
    IN  IF folder # state.folder THEN [folder |-> folder, hidden |-> 0, recent |-> <<name>>]
        ELSE [state EXCEPT !.recent = SubSeq(all, over + 1, Len(all))]

\* A file was hashed in a folder, and max rows fit.
FoldFile(state, folder, name, max) ==
    LET all  == Append(state.recent, name)
        over == IF Len(all) > max THEN Len(all) - max ELSE 0
    IN  IF folder # state.folder THEN [folder |-> folder, hidden |-> 0, recent |-> <<name>>]
        ELSE [state EXCEPT !.hidden = @ + over, !.recent = SubSeq(all, over + 1, Len(all))]
=============================================================================
