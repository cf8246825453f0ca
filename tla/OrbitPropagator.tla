-------------------------- MODULE OrbitPropagator --------------------------
(***************************************************************************)
(* OrbitPropagator of satellite-ground-sw/02_orbit-engine: the time grid   *)
(* that Propagate lays over the requested duration, and one step of the    *)
(* RK4 integrator.                                                         *)
(*                                                                         *)
(* Times are floating-point numbers: a double is a significand of 53 bits  *)
(* times a power of two.  Here the significands go up to another bound,    *)
(* and the smallest positive number counts as 1, so that all of them are   *)
(* natural numbers.  Every sum and difference is rounded, to nearest and   *)
(* ties to even, as IEEE 754 does.                                         *)
(***************************************************************************)
EXTENDS Vector3, Sequences

CONSTANTS
    Significands,  \* how many significands there are
    Units,         \* what a significand is multiplied with: the powers of two
    MaxPoints,     \* bound: points of a trajectory that fit in memory
    Accel(_)       \* ComputeAcceleration: the acceleration at a position

ASSUME SignificandsAssumption == Significands \in Nat \ {0}

ASSUME UnitsAssumption ==
    /\ Units \subseteq Nat \ {0}
    /\ Units # {}
    /\ \A u, v \in Units : u <= v => v % u = 0

ASSUME MaxPointsAssumption == MaxPoints \in Nat \ {0}

VARIABLES
    duration,  \* argument of Propagate
    step,      \* argument of Propagate
    time,      \* current_time
    times,     \* times of the points of trajectory
    outcome    \* how Propagate has ended, "none" while it has not

propagation == <<duration, step, time, times, outcome>>

Outcomes == {"none", "returned", "invalid argument", "invalid radius", "no memory"}

-----------------------------------------------------------------------------
(* Floating-point numbers.                                                 *)

\* The largest of them stands for infinity.
Floats == {m * u : m \in 0 .. Significands, u \in Units}

\* The floating-point numbers on both sides of n, which are n if it is one.
Below(n) == CHOOSE x \in Floats : x <= n /\ \A y \in Floats : y <= n => y <= x
Above(n) == CHOOSE x \in Floats : x >= n /\ \A y \in Floats : y >= n => y >= x

\* The floating-point number nearest to the natural number n; of two that are
\* as near, the one with the even significand.
Round(n) ==
    LET down == Below(n)
        up == Above(n)
    IN  IF \/ n = down
           \/ \A x \in Floats : x < n
           \/ n - down < up - n
           \/ n - down = up - n /\ down % (2 * (up - down)) = 0
        THEN down ELSE up

\* The units are powers of two without a gap, as for a double; what is proved
\* without it holds in any format.
Binary ==
    /\ Significands % 2 = 0
    /\ \A u, v \in Units : u < v => 2 * u \in Units /\ \E h \in Units : v = 2 * h

\* At time t a step is too small to have any effect.
Absorbed(t) == Round(t + step) = t

-----------------------------------------------------------------------------
(* Propagate.                                                              *)

\* Propagate is called.
Called(d, s) ==
    duration = d /\ step = s /\ time = 0 /\ times = <<>> /\ outcome = "none"

\* Propagate is called anew, by a process that has just started.
Call(d, s) ==
    /\ duration' = d /\ step' = s
    /\ time' = 0 /\ times' = <<>> /\ outcome' = "none"

Rejects == duration <= 0 \/ step <= 0

\* The two checks of the arguments, and the point at time zero.
Start ==
    /\ outcome = "none" /\ times = <<>>
    /\ IF Rejects
       THEN outcome' = "invalid argument" /\ UNCHANGED times
       ELSE times' = <<0>> /\ UNCHANGED outcome
    /\ UNCHANGED <<duration, step, time>>

Running == outcome = "none" /\ times # <<>>

\* mutant: a last step that reaches beyond the end is not shortened
DtWhole == step

\* dt: the step, or what is left of the duration.
Dt == IF Round(time + step) > duration THEN Round(duration - time) ELSE step

\* mutant: the loop does not stop at the end
MoreOrEnd == time <= duration

More == time < duration

\* One round of the loop.
Advance ==
    /\ Running /\ More
    /\ Len(times) < MaxPoints
    /\ time' = Round(time + Dt)
    /\ times' = Append(times, time')
    /\ UNCHANGED <<duration, step, outcome>>

\* ComputeAcceleration meets the centre of the earth in one of the four stages.
Collapse ==
    /\ Running /\ More
    /\ outcome' = "invalid radius"
    /\ UNCHANGED <<duration, step, time, times>>

\* push_back cannot grow the trajectory.
Exhaust ==
    /\ Running /\ More
    /\ Len(times) = MaxPoints
    /\ outcome' = "no memory"
    /\ UNCHANGED <<duration, step, time, times>>

Finish ==
    /\ Running /\ ~More
    /\ outcome' = "returned"
    /\ UNCHANGED <<duration, step, time, times>>

Propagate == Start \/ Advance \/ Collapse \/ Exhaust \/ Finish

-----------------------------------------------------------------------------
(* RK4Step.  The step is 2 * half, so that every number is an integer, and  *)
(* the result is six times the next state.                                 *)

\* StateVector
States(C) == [position : Vectors(C), velocity : Vectors(C)]

Evaluate(s) == [dpos |-> s.velocity, dvel |-> Accel(s.position)]

AddScaled(s, d, dt) ==
    [position |-> Plus(s.position, Times(d.dpos, dt)),
     velocity |-> Plus(s.velocity, Times(d.dvel, dt))]

\* v, moved on by the weighted slopes.
Weigh(v, d1, d2, d3, d4, dt) ==
    Plus(Times(v, 6),
         Times(Plus(Plus(d1, Times(d2, 2)), Plus(Times(d3, 2), d4)), dt))

Combine(s, k1, k2, k3, k4, dt) ==
    [position |-> Weigh(s.position, k1.dpos, k2.dpos, k3.dpos, k4.dpos, dt),
     velocity |-> Weigh(s.velocity, k1.dvel, k2.dvel, k3.dvel, k4.dvel, dt)]

RK4Step(s, half) ==
    LET k1 == Evaluate(s)
        k2 == Evaluate(AddScaled(s, k1, half))
        k3 == Evaluate(AddScaled(s, k2, half))
        k4 == Evaluate(AddScaled(s, k3, half))
    IN  Combine(s, k1, k2, k3, k4, 2 * half)

\* The formula of 01_overview/algorithm.md: k_4 is the slope at the end of the
\* step.
AlgorithmStep(s, half) ==
    LET k1 == Evaluate(s)
        k2 == Evaluate(AddScaled(s, k1, half))
        k3 == Evaluate(AddScaled(s, k2, half))
        k4 == Evaluate(AddScaled(s, k3, 2 * half))
    IN  Combine(s, k1, k2, k3, k4, 2 * half)

-----------------------------------------------------------------------------
\* A trajectory that is returned begins at zero, moves forward with every point
\* and ends at the duration exactly, whatever the rounding of the steps: the
\* last time neither falls short of it nor overshoots.
TrajectorySpansDuration ==
    outcome = "returned" =>
        /\ times[1] = 0
        /\ times[Len(times)] = duration
        /\ \A k \in 1 .. Len(times) - 1 : times[k] < times[k + 1]

\* Propagate runs out of memory only when a step is lost to rounding and time
\* stands still; otherwise every point takes it at least half a step further, and
\* it gets to the end.
StopsUnlessAbsorbed ==
    /\ outcome = "no memory" => Absorbed(time)
    /\ Running /\ More => Absorbed(time) \/ 2 * time >= step * (Len(times) - 1)

IsArgument(x) == x \in Int /\ (x > 0 => x \in Floats)

\* Why a trajectory ends at the duration: the last step, which is what is left
\* of it, is computed without rounding, because time is past half of it by then
\* or is zero.
GridInv ==
    /\ outcome \in Outcomes
    /\ IsArgument(duration) /\ IsArgument(step)
    /\ time \in Floats /\ times \in Seq(Floats)
    /\ times = <<>> => time = 0 /\ outcome \in {"none", "invalid argument"}
    /\ Len(times) <= MaxPoints
    /\ times # <<>> =>
           /\ ~Rejects
           /\ times[1] = 0 /\ times[Len(times)] = time
           /\ time = 0 \/ time >= step \/ ~More
           /\ time <= duration
           /\ \A k \in 1 .. Len(times) - 1 :
                  \/ times[k] < times[k + 1]
                  \/ times[k] = time /\ times[k + 1] = time /\ Absorbed(time) /\ More
    /\ outcome = "returned" => times # <<>> /\ ~More

\* Two ways to exchange the axes, of which all others are made.
Ways == {"turn", "swap"}
Exchanged(v, way) ==
    IF way = "turn" THEN Vector(v.y, v.z, v.x) ELSE Vector(v.y, v.x, v.z)

\* The steps that do not tell one axis from another: of a state whose axes are
\* exchanged they make the next state with its axes exchanged.
SymmetricSteps ==
    {dt \in Floats : \A s \in States(0 .. 1), half \in 1 .. dt, way \in Ways :
        LET t == [position |-> Exchanged(s.position, way),
                  velocity |-> Exchanged(s.velocity, way)]
            next == RK4Step(s, half)
        IN  2 * half = dt =>
                RK4Step(t, half) = [position |-> Exchanged(next.position, way),
                                    velocity |-> Exchanged(next.velocity, way)]}

\* RK4Step treats the three coordinates alike in every round of the loop, if the
\* pull does.
NoAxisIsSpecial == Running /\ More => Dt \in SymmetricSteps

\* A round of the loop moves the satellite as the description of the algorithm
\* says, whatever its state and the length of the step.
RK4MatchesAlgorithm ==
    Running /\ More =>
        \A s \in States(0 .. 1), half \in 1 .. Dt :
            2 * half = Dt => RK4Step(s, half) = AlgorithmStep(s, half)
=============================================================================
