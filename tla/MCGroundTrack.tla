--------------------------- MODULE MCGroundTrack ---------------------------
EXTENDS GroundTrack

\* Eight positions around the earth above the equator, and eight over its poles.
Ring == <<<<1, 0>>, <<1, 1>>, <<0, 1>>, <<-1, 1>>,
          <<-1, 0>>, <<-1, -1>>, <<0, -1>>, <<1, -1>>>>

Equatorial(k) == Vector(Ring[1 + (k % 8)][1], Ring[1 + (k % 8)][2], 0)
Polar(k) == Vector(Ring[1 + (k % 8)][1], Ring[1 + (k % 8)][1], Ring[1 + (k % 8)][2])

\* Eastwards by steps of 45 degrees, eastwards by 135, and across the poles.
MCOrbits ==
    {[k \in 1 .. MaxPoints |-> Equatorial(k)],
     [k \in 1 .. MaxPoints |-> Equatorial(3 * k)],
     [k \in 1 .. MaxPoints |-> Polar(k)]}

\* Numbers of three significant bits, up to 64.  A step of 1 stands still at 8;
\* 14 and 20 are reached with rounding on the way, some of them by a last step
\* that is shorter than the others, and steps of 6 and 24 go too far at once.
MCUnits == {1, 2, 4, 8}

MCDurations == {-1, 5, 14, 20}
MCSteps == {0, 1, 3, 5, 6, 24}

ASSUME InstanceAssumption == Binary /\ EnoughMemory

\* Positions and times are integers: the acceleration is that of a spring.
Spring(p) == Times(p, -1)
=============================================================================
