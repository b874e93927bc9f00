--------------------------- MODULE MCStudioSettings ---------------------------
(* Three layers of one key, one of them reserved; a hold-tap and a combo.    *)
EXTENDS StudioSettings

B(h, t) == [head |-> h, tail |-> t]
MCBindings == {B("kp", "A"), B("kp", "LS(A)"), B("trans", "")}
MCStockKeymap == [n \in Cells |-> IF n = 0 THEN B("kp", "A") ELSE B("trans", "")]
MCStockName == [l \in Layers |-> "stock"]
MCStockConfig == [n \in ConfigIds |-> "stock"]
=============================================================================
