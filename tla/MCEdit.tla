------------------------------- MODULE MCEdit -------------------------------
(***************************************************************************)
(* Instances of EditSession: one file, which at the start has one of the    *)
(* scripts below, with the shapes a commit tells apart: an amove in front   *)
(* of an object, before a set command or a comment, behind it and in the    *)
(* last line; a set command; lines in a row; an object in the middle.       *)
(***************************************************************************)
EXTENDS EditSession

A(p) == AMove(p)
L(p) == Line("aline", p, Black)
C == Line("circle", Origin, Black)
S(k) == SetColor(k)
X == Line("other", Origin, Black)

TheScripts == [f \in {"a"} |->
  {<<A(1), S(2), L(0), L(2)>>, <<X, A(1), Blank, C, S(1), A(0), A(2)>>}]
=============================================================================
