------------------------ MODULE CoordinateConverter ------------------------
(***************************************************************************)
(* CoordinateConverter of satellite-ground-sw/02_orbit-engine: where on    *)
(* the turning earth a satellite stands.                                   *)
(*                                                                         *)
(* One unit of time is a quarter turn of the earth, so that its sine and   *)
(* cosine are integers.  Angles are degrees, and known by quadrant: one of *)
(* 45 stands for any strictly between 0 and 90, and so on around.          *)
(***************************************************************************)
EXTENDS Vector3

Sin(t) == CASE t % 4 = 1 -> 1 [] t % 4 = 3 -> -1 [] OTHER -> 0

Cos(t) == Sin(t + 1)

\* mutant: the axes turn the other way
EciToEcefWestward(p, t) ==
    Vector(Cos(t) * p.x - Sin(t) * p.y, Sin(t) * p.x + Cos(t) * p.y, p.z)

EciToEcef(p, t) ==
    Vector(Cos(t) * p.x + Sin(t) * p.y, -Sin(t) * p.x + Cos(t) * p.y, p.z)

Angles == {45 * k : k \in -3 .. 4}

Sign(n) == IF n > 0 THEN 1 ELSE IF n < 0 THEN -1 ELSE 0

Abs(n) == IF n < 0 THEN -n ELSE n

\* The angle of direction (x, y), which is 0 if there is none.
Atan2(y, x) ==
    IF x = 0 /\ y = 0 THEN 0
    ELSE CHOOSE a \in Angles :
             /\ Sign(x) = Sign(90 - Abs(a))
             /\ Sign(y) = IF a = 180 THEN 0 ELSE Sign(a)

\* A sphere's latitude and longitude; the altitude is left out, and r_xy is
\* not a root, which its sign does not depend on.
EcefToGeodetic(p) ==
    [latitude |-> Atan2(p.z, p.x * p.x + p.y * p.y),
     longitude |-> Atan2(p.y, p.x)]
=============================================================================
