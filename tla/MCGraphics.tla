----------------------------- MODULE MCGraphics -----------------------------
EXTENDS Graphics

\* Attributes and saved states; paths; boxes in boxes and blocks; clips and transformations.
MCFamilies ==
  { {"red", "wide", "yellow", "line", "circle", "gsave", "grestore"},
    {"red", "yellow", "line", "move", "gsave", "grestore", "stroked path", "filled path"},
    {"red", "line", "circle", "scale", "translate", "box", "filled box"},
    {"round", "line", "clip", "shift", "halve", "translate", "gsave", "grestore"} }
=============================================================================
