------------------------------ MODULE MCDirectChat ------------------------------
(***************************************************************************)
(* DirectChat by itself for TLC: one seller offers every item.             *)
(***************************************************************************)
EXTENDS DirectChat

CONSTANT vendor

MCVendor == [i \in Items |-> vendor]
=================================================================================
