----------------------------- MODULE MCHandles -----------------------------
(***************************************************************************)
(* Handles with sets of model values small enough for TLC.  The members of *)
(* Ref, Addr, Data and Obj are interchangeable: no definition of           *)
(* Handles names one of them, and every property that is checked is an     *)
(* invariant or an action property.                                        *)
(***************************************************************************)
EXTENDS Handles, TLC

Symmetry ==
  Permutations(Ref) \cup Permutations(Addr) \cup Permutations(Data)
    \cup Permutations(Obj)
=============================================================================
