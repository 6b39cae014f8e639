----------------------------- MODULE MCEditPlan ------------------------------
(* Sources of a tenth of a second, a second, ten and a hundred seconds, and *)
(* just beside them; trims at, beside and past their ends; the edges of the *)
(* slack, of the fixed tolerance and of the two percent.                    *)
EXTENDS EditPlan

Around(S, offsets) == {n \in {s + o : s \in S, o \in offsets} : n >= 0}

Nominal == {1000, 10000, 100000, 1000000}

MCLengths == Around(Nominal, {-5, 0, 4, 5})

MCPoints ==
  {0, 250, 333} \cup Around(Nominal, {-10000, -505, -1, 0, 1, 499, 500, 501, 505})

(* One AAC frame at 48 kHz and one video frame at 30/s. *)
MCPaddings == {0, 213, 333, 546}

MCLosses ==
  {1, 900, 999, 1000, 1499, 1500, 1501, 1506, 2000, 19999, 20000, 20006, 90000}

=============================================================================
