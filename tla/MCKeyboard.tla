----------------------------- MODULE MCKeyboard -----------------------------
(* A small instance of Keyboard: three keys, three layers of which Studio   *)
(* may use all, two modifiers, reports of one slot.                         *)
EXTENDS Keyboard, TLC

CONSTANTS p, q, r,          \* key positions
          lsft, lctl,       \* modifiers
          A, B,             \* keys
          VolUp             \* a consumer key

kA    == [code |-> A, implicit |-> {}, explicit |-> {}]
kB    == [code |-> B, implicit |-> {}, explicit |-> {}]
kSft  == [code |-> lsft, implicit |-> {}, explicit |-> {}]
kCSft == [code |-> lsft, implicit |-> {}, explicit |-> {lctl}]
kVol  == [code |-> VolUp, implicit |-> {lsft}, explicit |-> {}]
MCUsages == {kA, kB, kSft, kCSft, kVol}

Kp(u) == [kind |-> "kp", arg |-> u]
Mo(l) == [kind |-> "mo", arg |-> l]
Trans == [kind |-> "trans", arg |-> 0]
L(kind, l) == [kind |-> kind, arg |-> l]

MCBindings == {Kp(u) : u \in MCUsages} \cup {Trans}
                \cup {L(k, l) : k \in LayerKinds, l \in Layers}

MCAssignable == {Kp(kA)}

Row(x, y, z) == p :> x @@ q :> y @@ r :> z
\* Three layers in use; and two in use, with the third one reserved
MCBuilds ==
  { [used |-> 3, keymap |-> 0 :> Row(Kp(kA),  Mo(1),    Kp(kCSft))
                         @@ 1 :> Row(Kp(kB),  Kp(kSft), L("to", 2))
                         @@ 2 :> Row(Kp(kVol), L("to", 1), L("tog_off", 2))],
    [used |-> 2, keymap |-> 0 :> Row(Kp(kA),  Mo(1),    Mo(1))
                         @@ 1 :> Row(L("tog_on", 1), Trans, L("tog", 1))
                         @@ 2 :> Row(Trans, Trans, Trans)] }
=============================================================================
