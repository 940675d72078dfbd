------------------------------ MODULE MCPrompts ------------------------------
(* A process with old code and one with new code.                          *)
EXTENDS Prompts, TLC

CONSTANTS p1, p2, old, new

MCProcess == {p1, p2}
MCContent == {old, new}
MCCode == p1 :> old @@ p2 :> new

(* Requests are alike, and every property is a safety property.            *)
MCSymmetry == Permutations(Request)
=============================================================================
