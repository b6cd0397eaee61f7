---------------------------- MODULE MC_UserStack ----------------------------
(***************************************************************************)
(* UserStack with 7-bit addresses: a user base that is not 8-aligned, so  *)
(* usize pushes need padding; u8 and usize arrays of one or two elements; *)
(* strings of one and two bytes.                                           *)
(***************************************************************************)
EXTENDS UserStack

MCTypes == {[size |-> 1, align |-> 1], [size |-> 8, align |-> 8]}
MCStrs == {<<5>>, <<5, 6>>}
=============================================================================
