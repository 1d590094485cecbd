-------------------------------- MODULE Fifo --------------------------------
(***************************************************************************)
(* What a first-in first-out channel promises: the items come out in the   *)
(* order they went in, each of them once.                                  *)
(***************************************************************************)
EXTENDS Naturals, Sequences

CONSTANT Item

VARIABLES
  put,    \* the items that went in
  taken   \* the items that came out

Init == put = <<>> /\ taken = <<>>

Put(i) == put' = Append(put, i) /\ UNCHANGED taken

Take ==
  /\ Len(taken) < Len(put)
  /\ taken' = Append(taken, put[Len(taken) + 1])
  /\ UNCHANGED put

Next == (\E i \in Item : Put(i)) \/ Take

Spec == Init /\ [][Next]_<<put, taken>>
=============================================================================
