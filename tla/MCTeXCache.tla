----------------------------- MODULE MCTeXCache -----------------------------
(* Scripts for TLC: two texts in either order or alone, a third one drawn   *)
(* only when the size of the first is known, and a text that is measured    *)
(* but not drawn.                                                           *)
EXTENDS TeXCache

D(t) == [text |-> t, print |-> TRUE]
M(t) == [text |-> t, print |-> FALSE]

MCTexts == {"a", "b", "c"}
MCPreambles == {"article", "book"}
MCScripts ==
  [pre : MCPreambles,
   always : {<<D("a")>>, <<D("b"), D("a")>>, <<D("a"), D("b")>>, <<M("b"), D("a")>>, <<M("a")>>},
   fits : {<<>>, <<D("c")>>}]
=============================================================================
