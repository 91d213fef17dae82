------------------------------- MODULE Window -------------------------------
(***************************************************************************)
(* What a queue promises (series/queue.go: "a fixed-size circular buffer", *)
(* "discarding oldest values when full"): the last `size` values it was    *)
(* given, the newest first.                                                *)
(***************************************************************************)
EXTENDS Integers, Sequences

CONSTANTS Sizes, Values

VARIABLES window, size

Init == window = <<>> /\ size \in Sizes

Push(v) ==
  /\ window' = [i \in 1 .. IF Len(window) < size THEN Len(window) + 1 ELSE size |->
                  IF i = 1 THEN v ELSE window[i - 1]]
  /\ UNCHANGED size

Next == \E v \in Values : Push(v)
Spec == Init /\ [][Next]_<<window, size>>
=============================================================================
