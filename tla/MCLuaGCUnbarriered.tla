------------------------- MODULE MCLuaGCUnbarriered -------------------------
(* Instances of LuaGCUnbarriered for TLC. *)
EXTENDS LuaGCUnbarriered

CONSTANTS reg, main, t1, t2, u1, u2, c1, c2, p1, p2, v1, v2, s1, s2, th1, f1
=============================================================================
