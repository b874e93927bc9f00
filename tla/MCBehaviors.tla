------------------------------ MODULE MCBehaviors ------------------------------
(* Keymaps for Behaviors: each brings a few of the behaviors together. *)
EXTENDS Behaviors

\* Bindings
Kp(k) == [type |-> "kp", key |-> k, mods |-> {}]
KpS(k) == [type |-> "kp", key |-> k, mods |-> {"shift"}]
Sk(m, quick, lazy) == [type |-> "sk", key |-> m, after |-> 3, quick |-> quick, lazy |-> lazy, ignore |-> ~quick]
Td(list) == [type |-> "td", list |-> list, term |-> 2]
Mo(l) == [type |-> "mo", layer |-> l]
Tog(l) == [type |-> "tog", layer |-> l]
To(l) == [type |-> "to", layer |-> l]
Kt(k) == [type |-> "toggle", key |-> k, mods |-> {}]
Morph(id, b, m) == [type |-> "morph", id |-> id, when |-> {"shift"}, masks |-> {"shift"}, normal |-> b, morph |-> m]
Tap(b) == [mode |-> "tap", b |-> b, tap |-> 1, wait |-> 1]
TapNow(b) == [mode |-> "tap", b |-> b, tap |-> 0, wait |-> 0]
Pr(b) == [mode |-> "press", b |-> b, wait |-> 1]
Re(b) == [mode |-> "release", b |-> b, wait |-> 0]
Macro(press, release) == [type |-> "macro", press |-> press, release |-> release]
CapsWordKey == [type |-> "caps"]
RepeatKey == [type |-> "repeat"]
Trans == [type |-> "trans"]

Combo(at, timeout, idle, does) ==
  [at |-> at, timeout |-> timeout, idle |-> idle, layers |-> {}, slow |-> FALSE, does |-> does]
Flat(b1, b2, b3, combos) == [layers |-> (0 :> (1 :> b1 @@ 2 :> b2 @@ 3 :> b3)), combos |-> combos, conditional |-> {}]

\* Combos that overlap, one of them contained in another, with different timeouts
Overlapping == Flat(Kp("a"), Kp("b"), Kp("one"),
  << Combo({1, 2}, 2, 0, Kp("c")), [Combo({2, 3}, 3, 0, Kp("one")) EXCEPT !.slow = TRUE],
     Combo({1, 2, 3}, 3, 0, Kp("dot")) >>)
\* The same positions on two layers, and combos that need an idle keyboard
OnLayers ==
  [layers |-> (0 :> (1 :> Kp("a") @@ 2 :> Kp("b") @@ 3 :> Mo(1))) @@ (1 :> (1 :> Kp("one") @@ 2 :> Trans @@ 3 :> Trans)),
   combos |-> << [Combo({1, 2}, 2, 0, Kp("c")) EXCEPT !.layers = {0}],
                 [Combo({1, 2}, 3, 2, Kp("dot")) EXCEPT !.layers = {0, 1}] >>, conditional |-> {}]
\* Combos of a sticky key and a tap dance
Mixed == Flat(Sk("shift", TRUE, FALSE), Td(<<Kp("a"), Kp("b")>>), Kp("c"),
  << Combo({1, 2}, 3, 0, Sk("ctrl", TRUE, TRUE)) >>)
Stickies == Flat(Sk("shift", TRUE, FALSE), Sk("ctrl", FALSE, TRUE), Kp("a"), << >>)
Dances == Flat(Td(<<Kp("a"), Sk("shift", TRUE, FALSE)>>), Td(<<Kp("b"), Kp("c"), Kp("one")>>), Kp("dot"), << >>)
Macros == Flat(Macro(<<Tap(Kp("a")), Pr(Kp("shift"))>>, <<Re(Kp("shift")), Tap(Kp("b"))>>),
               Macro(<<TapNow(Macro(<<Tap(Kp("c"))>>, <<>>)), Tap(Sk("ctrl", TRUE, FALSE))>>, <<>>),
               Kp("one"), << >>)
Words == Flat(CapsWordKey, RepeatKey, Td(<<Kp("a"), KpS("dot")>>), << Combo({1, 3}, 2, 0, Kt("shift")) >>)
Morphs == Flat(Morph(1, Kp("a"), Kp("b")), Morph(2, Kp("c"), KpS("one")), Kp("shift"),
               << Combo({1, 2}, 1, 0, Sk("shift", FALSE, FALSE)) >>)
TriLayer ==
  [layers |-> (0 :> (1 :> Mo(1) @@ 2 :> Mo(2) @@ 3 :> Kp("a"))) @@ (1 :> (1 :> Trans @@ 2 :> Trans @@ 3 :> Mo(5)))
              @@ (3 :> (1 :> Trans @@ 2 :> Trans @@ 3 :> Kp("b"))) @@ (4 :> (1 :> Trans @@ 2 :> Trans @@ 3 :> Kp("c"))),
   combos |-> << >>,
   conditional |-> {[ifs |-> {1, 2}, then |-> 3], [ifs |-> {3}, then |-> 4], [ifs |-> {2, 5}, then |-> 4]}]
\* Configurations that follow from higher to lower layers, with keys that lock and unlock them
Waterfall ==
  [layers |-> (0 :> (1 :> Tog(5) @@ 2 :> Mo(2) @@ 3 :> To(3))) @@ (1 :> (1 :> Trans @@ 2 :> Trans @@ 3 :> Tog(4)))
              @@ (3 :> (1 :> Mo(4) @@ 2 :> Tog(3) @@ 3 :> Tog(2))) @@ (5 :> (1 :> Trans @@ 2 :> Trans @@ 3 :> To(0))),
   combos |-> << >>,
   conditional |-> {[ifs |-> {5}, then |-> 4], [ifs |-> {2, 4}, then |-> 3], [ifs |-> {3}, then |-> 1]}]

MCKeymaps == {Overlapping, OnLayers, Mixed, Stickies, Dances, Macros, Words, Morphs, TriLayer, Waterfall}
MCMaxPresses == [k \in MCKeymaps |-> IF k \in {Overlapping, OnLayers, Stickies, TriLayer, Waterfall} THEN 4 ELSE 3]
TwoPresses == [k \in MCKeymaps |-> 2]
MCClass == [a |-> "alpha", b |-> "alpha", c |-> "alpha", one |-> "numeric", dot |-> "other",
            shift |-> "other", ctrl |-> "other"]
=============================================================================
