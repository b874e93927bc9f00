--------------------------- MODULE MCPhysicalLayouts ---------------------------
(* A matrix with two layouts that swap its keys, a second device with one key *)
(* and two layouts, one of which has positions beyond the keymap.             *)
EXTENDS PhysicalLayouts, TLC

CONSTANTS matrix, single, straight, swapped, other, broken

MCOutputs == [d \in {matrix, single} |-> IF d = matrix THEN 2 ELSE 1]
MCInputs == [d \in {matrix, single} |-> 1]
MCKscan == [l \in {straight, swapped, other, broken} |->
              IF l \in {straight, swapped} THEN matrix ELSE single]
MCTransform == [l \in {straight, swapped, other, broken} |->
  CASE l = straight -> (<<1, 1>> :> 1 @@ <<2, 1>> :> 2)
    [] l = swapped -> (<<1, 1>> :> 2 @@ <<2, 1>> :> 1)
    [] OTHER -> (<<1, 1>> :> 1)]
=============================================================================
