--------------------------- MODULE MCChapterFiles ---------------------------
(* Instances of ChapterFiles for TLC. *)
EXTENDS ChapterFiles

\* Texts grow, shrink and grow again.
MCWords == <<1, 3, 2>>
=============================================================================
