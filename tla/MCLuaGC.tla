------------------------------ MODULE MCLuaGC ------------------------------
(* Instances of LuaGC for TLC; the kinds an instance leaves out are empty. *)
EXTENDS LuaGC, TLC

CONSTANTS reg, main, t1, t2, u1, u2, c1, c2, p1, p2, v1, v2, s1, s2, th1, f1

\* Two prototypes are interchangeable; used with invariants only.
ProtoSymmetry == Permutations({p1, p2})
=============================================================================
