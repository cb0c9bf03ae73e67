------------------------------ MODULE MCPreview ------------------------------
(* Instance of Preview for TLC: two gle -p processes with a script each. *)
EXTENDS Preview

CONSTANTS c1, c2, a, b

MCWants == (c1 :> a) @@ (c2 :> b)
=============================================================================
