--------------------------- MODULE LuaReferences ---------------------------
(***************************************************************************)
(* The references of the auxiliary library (lauxlib.c): luaL_ref keeps a   *)
(* value in a table under an integer, luaL_unref gives the integer back.   *)
(* The integers to use again are a list threaded through their own slots,  *)
(* which begins in reftab[FREELIST_REF]. A slot that a step adds to the    *)
(* table may find no memory, and then the rest of the call is not done.    *)
(* (nil is not kept: its fixed reference LUA_REFNIL touches no table.)     *)
(***************************************************************************)
EXTENDS Integers

CONSTANTS
    RefValues,  \* the values to keep
    MaxRef      \* the largest reference

ASSUME RefConstants == MaxRef \in Nat

VARIABLES
    reftab, \* the table, at the indices 0 .. MaxRef + 1
    owned   \* the references not yet given back, with the value of each

refVars == <<reftab, owned>>

\* What a slot holds: nil, a value, or the next reference of the list.
NoValue == <<>>
Value(v) == <<"value", v>>
Link(ref) == <<"ref", ref>>
isLink(slot) == slot # NoValue /\ slot[1] = "ref"

FREELIST_REF == 0
Slots == 0 .. MaxRef + 1

\* lua_objlen: any border of the table (luaH_getn).
Borders == {b \in 0 .. MaxRef : (b = 0 \/ reftab[b] # NoValue) /\ reftab[b + 1] = NoValue}

\* lua_rawseti fails only when the slot is new.
rawseti(tab, slot, v, nomemory) ==
    IF nomemory /\ tab[slot] = NoValue THEN tab ELSE [tab EXCEPT ![slot] = v]

Owner(ref, v) == [r \in DOMAIN owned \cup {ref} |-> IF r = ref THEN v ELSE owned[r]]

\* Mutant: the slot is taken and stays in the list.
Taken_kept(ref) == reftab

\* The first free slot leaves the list.
Taken(ref) == [reftab EXCEPT ![FREELIST_REF] = reftab[ref]]

luaL_ref(v, nomemory) ==
    \E border \in Borders :
      LET head == reftab[FREELIST_REF]
          ref == IF isLink(head) THEN head[2] ELSE border + 1
          tab == IF isLink(head) THEN Taken(ref) ELSE reftab
      IN  /\ ref <= MaxRef
          /\ reftab' = rawseti(tab, ref, Value(v), nomemory)
          /\ owned' = IF reftab'[ref] = Value(v) THEN Owner(ref, v) ELSE owned

\* The owner of a reference gives it back once.
luaL_unref(ref, nomemory) ==
    /\ ref \in DOMAIN owned
    /\ reftab' = rawseti([reftab EXCEPT ![ref] = reftab[FREELIST_REF]], FREELIST_REF, Link(ref), nomemory)
    /\ owned' = [r \in DOMAIN owned \ {ref} |-> owned[r]]

RefInit == reftab = [s \in Slots |-> NoValue] /\ owned = [r \in {} |-> NoValue]

RefNext ==
    \E nomemory \in BOOLEAN :
      \/ \E v \in RefValues : luaL_ref(v, nomemory)
      \/ \E ref \in 1 .. MaxRef : luaL_unref(ref, nomemory)

RefSpec == RefInit /\ [][RefNext]_refVars

(***************************************************************************)
(* Properties.                                                             *)
(***************************************************************************)
\* A reference still owned holds its own value, whatever was given back and
\* taken again, and whichever store found no memory: no slot is handed out
\* while it has an owner, and the list never leads into one (luaL_ref,
\* luaL_unref).
RefsKept ==
    /\ \A r \in DOMAIN owned : reftab[r] = Value(owned[r])
    /\ \A s \in Slots : isLink(reftab[s]) => reftab[s][2] \notin DOMAIN owned
    /\ \A s, u \in Slots : isLink(reftab[s]) /\ reftab[s] = reftab[u] => s = u
=============================================================================
