----------------------------- MODULE SplitNodes -----------------------------
(* The halves of a split keyboard, for SplitLink and SplitKeys.              *)
EXTENDS Integers, FiniteSets

CONSTANTS
  Peripherals,   \* the peripheral halves, in reach of the central
  Slots          \* the slots of the central, 1 .. CONFIG_ZMK_SPLIT_BLE_CENTRAL_PERIPHERALS

ASSUME SplitNodesAssumption ==
  IsFiniteSet(Slots) /\ Slots # {} /\ Slots = 1 .. Cardinality(Slots)
=============================================================================
