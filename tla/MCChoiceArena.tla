--------------------------- MODULE MCChoiceArena ---------------------------
(***************************************************************************)
(* Pages of twelve words hold two small records, one middle record, or no  *)
(* large one: pages fill exactly, are left with a gap, and a record comes  *)
(* that needs a page of its own, on an empty head too.                     *)
(***************************************************************************)
EXTENDS ChoiceArena

MCPayloads == {4, 12, 40}
MCRecords  == {1, 2}
=============================================================================
