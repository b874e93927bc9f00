------------------------------- MODULE MCSplit -------------------------------
(***************************************************************************)
(* Two keyboards with separate halves: a wireless one with two peripherals *)
(* of two keys each, and one with a cable and a peripheral of two keys.    *)
(* The cfg file gives the bounds.                                          *)
(***************************************************************************)
EXTENDS Split, SplitWire, TLC

VARIABLE board  \* which of the keyboards this is

Wireless == board = "wireless"
Wired == board = "wired"

\* A wireless keyboard has no cable, whose bounds are then of no importance.
MCInit ==
  /\ board \in {"wireless", "wired"} /\ Init /\ WireInit
  /\ Wireless => ~halfDuplex /\ budget.reports = 0

MCNext ==
  /\ UNCHANGED board
  /\ \/ Wireless /\ Next /\ UNCHANGED wireVars
     \/ Wired /\ WireNext /\ UNCHANGED vars

\* Of each keyboard what Split and SplitWire assume
MCFairness ==
  /\ WF_vars(Wireless /\ KeyWork) /\ WF_vars(Wireless /\ LinkWork)
  /\ SF_vars(Wireless /\ Finding) /\ SF_vars(Wireless /\ Connecting)
  /\ WF_wireVars(Wired /\ CableWork) /\ WF_wireVars(Wired /\ CentralWork)
  /\ WF_wireVars(Wired /\ RxDone)
MCSpec == MCInit /\ [][MCNext]_<<board, vars, wireVars>> /\ MCFairness

\* Whatever connections are lost and retried, and whatever the cable garbles, in the end the
\* keymap knows the last change of every key that the code has not given up on.
KeysArrive == <>[](IF Wireless THEN SettledByAir ELSE SettledByCable)
=============================================================================
