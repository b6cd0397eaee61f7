------------------------------- MODULE MC_Dtb -------------------------------
(***************************************************************************)
(* Node names of one byte (padded by two) and three bytes (no padding);    *)
(* property lists with no props, with both cells props, and with a three- *)
(* byte value that needs padding.                                          *)
(***************************************************************************)
EXTENDS Dtb

MCNames == {<<97>>, <<97, 98, 99>>}
MCPropLists ==
  { <<>>,
    <<[name |-> AddressCellsName, val |-> BE32(2), num |-> 2],
      [name |-> SizeCellsName, val |-> BE32(1), num |-> 1]>>,
    <<[name |-> RegName, val |-> <<7, 7, 7>>, num |-> 0]>> }

=============================================================================
