------------------------------- MODULE MCVars -------------------------------
(* Subroutine h has a parameter with the name of the global variable g,      *)
(* subroutine f has none; d is unknown to both and to the main program.      *)
EXTENDS Vars

MCSubs == {"f", "h"}
MCLocals == [s \in MCSubs |-> IF s = "f" THEN <<>> ELSE <<"g">>]
MCNbParam == [s \in MCSubs |-> Len(MCLocals[s])]
MCNames == {"x", "g", "d"}
=============================================================================
