----------------------------- MODULE MCApproach -----------------------------
(* Units of about five seconds, in which the ages keep their order; two sides *)
(* with too little room, some, or much.                                       *)
EXTENDS Approach
=============================================================================
