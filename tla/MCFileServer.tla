---------------------------- MODULE MCFileServer ----------------------------
(***************************************************************************)
(* Small instances of FileServer: the two pages of public/ and a path at   *)
(* which there is none.                                                    *)
(***************************************************************************)
EXTENDS FileServer

CONSTANTS index, page2, missing

Pages == {index, page2}

\* Pages that fit in one read, as those of public/ do; a longer one and an
\* empty one.
OnePiece == [f \in Pages |-> 1]
LongAndEmpty == [f \in Pages |-> IF f = index THEN 3 ELSE 0]
=============================================================================
