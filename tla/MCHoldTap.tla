---------------------------- MODULE MCHoldTap ----------------------------
(* Small instances of HoldTap: m is a mod-tap, l a layer-tap, and the plain *)
(* key k is a modifier.                                                     *)
EXTENDS HoldTap, TLC

CONSTANTS m, l, k

MCKind == [c \in Codes |-> CASE c \in {Hold(m), Key(k)} -> "mod"
                             [] c = Hold(l) -> "layer"
                             [] OTHER -> "key"]

Base == [flavor |-> "balanced", term |-> 1, quickTap |-> -1, priorIdle |-> -1,
         holdWhileUndecided |-> FALSE, linger |-> FALSE, retroTap |-> FALSE,
         triggerOnRelease |-> FALSE, triggers |-> {}]
Retro == [Base EXCEPT !.retroTap = TRUE]

\* Every flavor, and every option but linger, for the mod-tap or for both
Variants ==
  { [Base EXCEPT !.flavor = f] : f \in Flavors }
  \cup { [Retro EXCEPT !.flavor = f] : f \in {"balanced", "hold-preferred"} }
  \cup { [Base EXCEPT !.holdWhileUndecided = TRUE, !.retroTap = r] : r \in BOOLEAN }
  \cup { [Base EXCEPT !.quickTap = 2],
         [Base EXCEPT !.priorIdle = 1, !.triggers = {k}, !.triggerOnRelease = TRUE],
         [Base EXCEPT !.flavor = "hold-preferred", !.triggers = {l}, !.term = 2] }
MCConfigs == { (m :> v @@ l :> Base) : v \in Variants }
               \cup { (m :> Base @@ l :> Retro),
                      (m :> Retro @@ l :> [Base EXCEPT !.flavor = "hold-preferred"]) }
=============================================================================
