----------------------------- MODULE Throwables -----------------------------
(***************************************************************************)
(* Java throwables as far as the border between Java and JavaScript tells  *)
(* them apart.                                                             *)
(***************************************************************************)
EXTENDS Naturals

CONSTANTS
  Exc,       \* the exceptions the application throws in its callbacks
  None,      \* no cause
  Unknown,   \* whatever an invalid JNI reference designates
  MaxWraps   \* bound: how often one throwable is wrapped

ASSUME ThrowableAssumption ==
  /\ None \notin Exc
  /\ Unknown \notin Exc \cup {None}
  /\ MaxWraps \in Nat \ {0}

\* An exception of the application, or no exception at all, in `wraps' ExecutionExceptions.
Throwable == [root : Exc \cup {None, Unknown}, wraps : 0 .. MaxWraps]

Plain(x) == [root |-> x, wraps |-> 0]

\* new ExecutionException(message, cause)
Wrap(cause) == [cause EXCEPT !.wraps = @ + 1]
=============================================================================
