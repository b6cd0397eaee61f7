-------------------------------- MODULE MC_Mm --------------------------------
(***************************************************************************)
(* Mm for TLC: three slots, two threads that can fork at once, two pages, *)
(* three frames (so a fork of a two-page space can run out of them), an   *)
(* anonymous read-write VMA over both pages and a read-only file VMA over *)
(* the second.                                                             *)
(***************************************************************************)
EXTENDS Mm, TLC

CONSTANTS m1, m2, m3, t1, t2, d1, d2, f1, NoFile

MCMms == {m1, m2, m3}
MCThreads == {t1, t2}
MCVas == {1, 2}
MCFrames == {0, 1, 2}
MCData == {d1, d2}
MCVmaChoices ==
  { [start |-> 1, end |-> 3, pgoff |-> 0, file |-> NoFile, flags |-> {"READ", "WRITE"}],
    [start |-> 2, end |-> 3, pgoff |-> 0, file |-> f1, flags |-> {"READ"}] }
MCBrkValues == {1}

\* Slots, threads and contents are interchangeable: no action or property
\* tells one from another except by equality.
MCSymmetry == Permutations(MCMms) \cup Permutations(MCThreads) \cup Permutations(MCData)
=============================================================================
