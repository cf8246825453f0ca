------------------------------ MODULE Vector3 ------------------------------
(***************************************************************************)
(* class Vector3 of satellite-ground-sw/02_orbit-engine, with integers for *)
(* coordinates.  operator- and operator/ have no caller.                   *)
(***************************************************************************)
EXTENDS Integers

Vectors(C) == [x : C, y : C, z : C]

Vector(a, b, c) == [x |-> a, y |-> b, z |-> c]

\* mutant: one coordinate is taken for another
PlusMixed(u, v) == Vector(u.x + v.x, u.y + v.y, u.z + v.y)

Plus(u, v) == Vector(u.x + v.x, u.y + v.y, u.z + v.z)

Times(v, k) == Vector(v.x * k, v.y * k, v.z * k)
=============================================================================
