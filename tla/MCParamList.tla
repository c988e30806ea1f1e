---------------------------- MODULE MCParamList ----------------------------
(***************************************************************************)
(* Instances of ParamList for TLC: a top-level parameter of one byte and   *)
(* a group member of two bytes, in 18 bytes of two areas.                  *)
(***************************************************************************)
EXTENDS ParamList

Top == [header |-> [key |-> 5, type |-> 1, group |-> 0], group |-> FALSE,
        values |-> {<<0>>, <<1>>}, default |-> <<0>>]
Pair == [header |-> [key |-> 17, type |-> 2, group |-> 2], group |-> TRUE,
         values |-> {<<0, 0>>, <<1, 2>>}, default |-> <<0, 0>>]
MCParam == {Top, Pair}

\* Two parameter areas with another area between them.
MCAreas == <<<<0, 10>>, <<12, 8>>>>
=============================================================================
