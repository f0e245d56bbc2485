--------------------------- MODULE MCEncoderCache ---------------------------
(* Instances of EncoderCache for TLC.                                      *)
EXTENDS EncoderCache

Item(h, o, n) == [identifier |-> h, offset |-> o, length |-> n]

(* Two items side by side; one of them and a third; the same item twice.   *)
Features ==
  <<<<Item("a", 1, 2), Item("b", 3, 2)>>,
    <<Item("b", 0, 2), Item("c", 3, 1)>>,
    <<Item("a", 0, 2), Item("a", 2, 2)>>>>
Lengths == <<6, 4, 5>>

FeaturesOf == [r \in Requests |-> Features[r]]
LengthsOf == [r \in Requests |-> Lengths[r]]
=============================================================================
