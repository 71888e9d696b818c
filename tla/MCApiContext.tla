---------------------------- MODULE MCApiContext ----------------------------
(***************************************************************************)
(* Instances of ApiContext.                                                *)
(***************************************************************************)
EXTENDS ApiContext

CONSTANTS r1, r2
=============================================================================
