------------------------------- MODULE LuaMap -------------------------------
(***************************************************************************)
(* What a Lua table promises: a map from keys to values in which nil means *)
(* absent, and a traversal with next that visits every key that is present *)
(* at most once and, unless a new key was assigned meanwhile, misses none. *)
(* An assignment that fails leaves the map as it was, except that one that *)
(* fails half way through a rehash may end these promises (hurt).          *)
(***************************************************************************)
CONSTANTS Keys, Values, Nil

VARIABLES
  content,  \* the value of each key, Nil when it is absent
  trav,     \* the traversal: "idle", "on" or "invalid"
  seen,     \* the keys in the map that the traversal has visited
  hurt      \* a rehash has failed with integer keys still to be moved

mapVars == <<content, trav, seen, hurt>>

Present == {k \in Keys : content[k] # Nil}

Init == content = [k \in Keys |-> Nil] /\ trav = "idle" /\ seen = {} /\ hurt = FALSE

Abandoned == trav' = "idle" /\ seen' = {}

\* An assignment changes one key.  Only a present key may be assigned in the
\* middle of a traversal.
Assign(k) ==
  /\ content' \in [Keys -> Values \cup {Nil}]
  /\ \A j \in Keys \ {k} : content'[j] = content[j]
  /\ IF k \in Present THEN trav' = trav /\ seen' = seen \cap Present' ELSE Abandoned

\* An assignment that fails, or a constructor that reserves space.
Abandon == Abandoned /\ UNCHANGED content

Start == trav' = "on" /\ seen' = {} /\ UNCHANGED content

Visit(k) ==
  /\ trav = "on" /\ k \in Present \ seen
  /\ seen' = seen \cup {k}
  /\ UNCHANGED <<content, trav>>

Finish == trav = "on" /\ Present \subseteq seen /\ Abandoned /\ UNCHANGED content

Promise ==
  \/ Abandon \/ Start \/ Finish
  \/ \E k \in Keys : Assign(k) \/ Visit(k)

Next == (hurt => hurt') /\ (~hurt' => Promise)

Spec == Init /\ [][Next]_mapVars
=============================================================================
