-------------------------- MODULE MCLibraryLoader --------------------------
(***************************************************************************)
(* LibraryLoader with two threads, three libraries, and the worlds that    *)
(* differ in what the code looks at.                                       *)
(***************************************************************************)
EXTENDS LibraryLoader

CONSTANTS d1, d2, d3

MCDll == {d1, d2, d3}
MCWalk == <<d1, d2, d3>>

\* Dependencies matter on Windows only, where no library needs itself; so does a load that fails
\* by itself.  The forced dependency and the ICU data beside the library matter only where the
\* path is looked at.
Relevant(w) ==
  LET needless == \A d \in MCDll : w.needs[d] = {}
  IN  /\ w.platform # "windows" \/ w.path \in {"fine", "bare"} => needless
      /\ w.path \in {"fine", "absent"} => ~w.forced
      /\ w.path \in {"absent", "broken"} => ~w.resource
      /\ ~w.jar => needless /\ ~w.forced /\ ~w.resource
      /\ w.flaky # {} => w.platform = "windows" /\ w.path \in {"absent", "broken"} /\ w.jar

\* The engine's library needs all the others when they need one another, and just one when they
\* do not.
MCNeeds == {f \in [MCDll -> SUBSET MCDll] : \A d \in MCDll : d \notin f[d]}
NeededByLib(f) == IF \A d \in MCDll : f[d] = {} THEN {d1} ELSE MCDll

MCWorld ==
  {w \in {[platform |-> p, path |-> q, forced |-> f, resource |-> r, jar |-> j, flaky |-> x,
           needs |-> n, main |-> NeededByLib(n)] :
            p \in {"windows", "posix", "android"}, q \in {"absent", "broken", "bare", "fine"},
            f, r, j \in BOOLEAN, x \in {{}, {d2}}, n \in MCNeeds} : Relevant(w)}

\* setAssetLoader makes a difference on Android only: elsewhere it is called by nobody.
SetMatters == world.platform = "android" \/ \A t \in Thread : op'[t] = "get"

MCInit == world \in MCWorld /\ Init
MCNext == Next /\ SetMatters
MCSpec == MCInit /\ [][MCNext]_vars /\ Fairness
=============================================================================
