---------------------------- MODULE MCUnitManager ----------------------------
(***************************************************************************)
(* Instances of UnitManager for TLC: a unit that is started twice and      *)
(* removed once is the smallest one in which threads of two instances and  *)
(* a removal meet.                                                         *)
(***************************************************************************)
EXTENDS UnitManager

===============================================================================
