----------------------------- MODULE MCActions ------------------------------
(* Small instances of Actions for TLC. *)
EXTENDS Actions

Clone(subfolders, files) ==
    [kind |-> "clone", subfolders |-> subfolders, files |-> files]
Poll(kind, known, changed) == [kind |-> kind, known |-> known, changed |-> changed]

\* A root with two subfolders in two chunks, one with a subfolder that has files
\* in two chunks: as many folders as the loop may count.
Tree == Clone([w \in 0..3 |-> CASE w = 0 -> <<{1}, {2}>>
                                [] w = 2 -> <<{3}>>
                                [] OTHER -> <<{}>>],
              [w \in 0..3 |-> IF w = 3 THEN 2 ELSE 0])

\* A chain of folders longer than the loop may count.
Deep == Clone([w \in 0..4 |-> IF w < 4 THEN <<{w + 1}>> ELSE <<>>], [w \in 0..4 |-> 0])

\* Three files are more than two places hold; the last page ends at the latest
\* revision (3) or after it (4).
MCAsked ==
    {Tree, Deep,
     Poll("poll", 0, <<"file", "file", "folder", "file">>),
     Poll("poll", 2, <<"file", "trash", "folder", "deleted">>),
     Poll("poll", 1, <<"file", "trash", "file">>),
     Poll("foreign", 0, <<"folder", "trash", "file">>)}

MCLimits == {1, 2, 3}
MCGarbage == {0, 5, 7}
=============================================================================
