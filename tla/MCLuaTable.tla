----------------------------- MODULE MCLuaTable -----------------------------
(* An instance of LuaTable for TLC: hash values that make keys collide. *)
EXTENDS LuaTable, TLC

CONSTANTS str, o1, o2, x, y

MCHash == (1 :> 3) @@ (2 :> 1) @@ (3 :> 4) @@ (4 :> 0) @@ (str :> 3) @@ (o1 :> 1) @@ (o2 :> 2)
=============================================================================
