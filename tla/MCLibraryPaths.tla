---------------------------- MODULE MCLibraryPaths ----------------------------
(* Small instances of LibraryPaths.                                            *)
EXTENDS LibraryPaths, TLC

CONSTANTS
  Plain,    \* the title of whatever is not renamed
  Stable    \* files that are in the cloud all the time where passes overlap

\* The two scenes looked at: one pass at a time, with copies, renames, faults; and
\* overlapping passes with failing queries over files of one title.
Scenes ==
  \/ /\ trouble = {"faults"}
     /\ \A f \in Files \ Copies : title[f] = Plain
  \/ /\ trouble = {"queries", "overlap"}
     /\ Stable \subseteq cloud /\ job = Idle
     /\ \A f \in Files : title[f] = Plain
=============================================================================
