------------------------------- MODULE MCLink24 -------------------------------
(* A keyboard report that changes and a consumer report that is sent with it, *)
(* over FIFOs of two packets.                                                 *)
EXTENDS Link24

MCTypes == <<"keyboard", "consumer">>
MCBodies == [keyboard |-> {"none", "key"}, consumer |-> {"none"}]
=============================================================================
