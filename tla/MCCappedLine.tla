------------------------------ MODULE MCCappedLine ------------------------------
(***************************************************************************)
(* Every input of up to seven bytes, in pieces of every length, against a  *)
(* bound of three bytes.                                                   *)
(***************************************************************************)
EXTENDS CappedLine

MCInputs == UNION {[1 .. n -> Byte] : n \in 0 .. 7}
===============================================================================
