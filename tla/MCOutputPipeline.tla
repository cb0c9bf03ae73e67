------------------------- MODULE MCOutputPipeline -------------------------
(***************************************************************************)
(* Command lines for TLC: one or two output formats; -inc, -keep, -nosave  *)
(* and -o STDOUT one at a time; -tex with PostScript only, the format it   *)
(* matters for; -cairo and -nopdftex where something depends on them.      *)
(***************************************************************************)
EXTENDS OutputPipeline

MCDevices == {{d} : d \in Devices} \cup {{"eps", "pdf"}, {"eps", "png"}, {"pdf", "png"}, {"pdf", "ps"}, {"eps", "svg"}}
MCOptions == {o \in Option :
  /\ o.devices \in MCDevices
  /\ Cardinality({f \in {"stdout", "nosave", "keep", "inc"} : o[f]}) <= 1
  /\ o.tex => "ps" \in o.devices
  /\ o.devices \subseteq {"ps", "svg"} /\ ~o.tex => o.pdftex /\ ~o.cairo}

\* SVG of several scripts.
MCSvgOptions == {o \in MCOptions : o.devices = {"svg"} /\ ~o.stdout /\ ~o.keep /\ ~o.inc /\ ~o.nosave}
=============================================================================
