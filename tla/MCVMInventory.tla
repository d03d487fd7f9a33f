----------------------------- MODULE MCVMInventory -----------------------------
(* VMInventory with one VM name, one pass and a few requests. *)
EXTENDS VMInventory, TLC

CONSTANTS r1, s1, q1

OneRef      == {r1}
OneSync     == {s1}
OneRequest  == {q1}
=============================================================================
