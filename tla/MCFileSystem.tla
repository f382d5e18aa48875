---------------------------- MODULE MCFileSystem ----------------------------
(* Small instances of FileSystem for TLC.                                  *)
EXTENDS FileSystemImpl, TLC

CONSTANTS f1, f2, x, y

\* Until the structures break; what happens after is the subject of the runs
\* that look for a break.
WhileSound == Sound

\* Until anything but one kind of break happens.
OnlyTorn == harm \subseteq {"torn"}
OnlyDangling == harm \subseteq {"dangling"}

\* Names and byte values are only compared with each other.
Alike == Permutations({f1, f2}) \cup Permutations({x, y})
=============================================================================
