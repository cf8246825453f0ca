-------------------------- MODULE GroundTrackProof --------------------------
(***************************************************************************)
(* Proofs about the orbit engine's time grid, its track and its file, for  *)
(* any floating-point format, any durations and steps, any orbits and any  *)
(* number of runs.                                                         *)
(***************************************************************************)
EXTENDS GroundTrack, FiniteSetTheorems, SequenceTheorems, WellFoundedInduction, TLAPS

-----------------------------------------------------------------------------
(* Floating-point numbers.                                                 *)

LEMMA MinimumExists ==
    ASSUME NEW T \in SUBSET Nat, T # {}
    PROVE  \E x \in T : \A y \in T : x <= y
<1>1. PICK n \in T : TRUE
  OBVIOUS
<1>2. DEFINE Initial == {0 .. x : x \in {y \in T : y <= n}}
<1>3. IsFiniteSet(0 .. n)
  BY <1>1, FS_Interval
<1>4. Initial \subseteq FiniteSubsetsOf(0 .. n) /\ Initial # {}
  <2>1. Initial \subseteq SUBSET (0 .. n) /\ Initial # {}
    BY <1>1
  <2> QED
    BY <1>3, <2>1, FS_FiniteSubsetsOfFinite
<1>5. IsWellFoundedOn(StrictSubsetOrdering(0 .. n), FiniteSubsetsOf(0 .. n))
  BY FS_StrictSubsetOrderingWellFounded
<1>6. PICK A \in Initial :
          \A B \in Initial : <<B, A>> \notin StrictSubsetOrdering(0 .. n)
  <2> HIDE DEF Initial
  <2> QED
    BY <1>4, <1>5, WFMin
<1>7. PICK x \in T : A = 0 .. x /\ x <= n
  BY <1>6
<1>8. ASSUME NEW y \in T, y < x
      PROVE  FALSE
  <2>1. 0 .. y \in Initial
    BY <1>7, <1>8, <1>1
  <2>2. 0 .. y \subseteq 0 .. x /\ x \notin 0 .. y /\ x \in 0 .. x
    BY <1>8
  <2>3. <<0 .. y, A>> \in StrictSubsetOrdering(0 .. n)
    <3>1. 0 .. y \in SUBSET (0 .. n) /\ A \in SUBSET (0 .. n)
      BY <1>1, <1>7, <1>8
    <3> QED
      BY <1>7, <2>2, <3>1 DEF StrictSubsetOrdering
  <2> QED
    BY <1>6, <2>1, <2>3
<1> QED
  BY <1>8, <1>7

LEMMA FloatsAreNatural == Floats \subseteq Nat /\ 0 \in Floats
<1>1. Significands \in Nat /\ Units \subseteq Nat
  BY SignificandsAssumption, UnitsAssumption
<1>2. PICK u \in Units : TRUE
  BY UnitsAssumption
<1>3. 0 = 0 * u /\ 0 \in 0 .. Significands
  BY <1>1, <1>2
<1>4. \A m \in 0 .. Significands, v \in Units : m * v \in Nat
  BY <1>1
<1> QED
  BY <1>2, <1>3, <1>4 DEF Floats

LEMMA BelowIsFloat ==
    ASSUME NEW n \in Nat
    PROVE  /\ Below(n) \in Floats /\ Below(n) <= n
           /\ \A y \in Floats : y <= n => y <= Below(n)
<1>1. PICK T \in SUBSET Nat : T = {n - x : x \in {y \in Floats : y <= n}}
  <2>1. \A y \in Floats : y <= n => n - y \in Nat
    BY FloatsAreNatural
  <2>2. {n - x : x \in {y \in Floats : y <= n}} \in SUBSET Nat
    BY <2>1
  <2> QED
    BY <2>2
<1>2. T # {}
  BY <1>1, FloatsAreNatural
<1>3. PICK d \in T : \A y \in T : d <= y
  BY <1>2, MinimumExists
<1>4. PICK x \in Floats : x <= n /\ d = n - x
  BY <1>1, <1>3
<1>5. \A y \in Floats : y <= n => y <= x
  BY <1>1, <1>3, <1>4, FloatsAreNatural
<1> QED
  BY <1>4, <1>5 DEF Below

LEMMA AboveIsFloat ==
    ASSUME NEW n \in Nat, NEW f \in Floats, n <= f
    PROVE  /\ Above(n) \in Floats /\ Above(n) >= n
           /\ \A y \in Floats : y >= n => y >= Above(n)
<1>1. PICK T \in SUBSET Nat : T = {x \in Floats : x >= n}
  BY FloatsAreNatural
<1>2. T # {}
  BY <1>1, FloatsAreNatural
<1>3. PICK x \in T : \A y \in T : x <= y
  BY <1>2, MinimumExists
<1>4. x \in Floats /\ x >= n /\ \A y \in Floats : y >= n => y >= x
  BY <1>1, <1>3, FloatsAreNatural
<1> QED
  BY <1>4 DEF Above

\* What is rounded is a floating-point number, and there is none between the two.
LEMMA RoundIsNext ==
    ASSUME NEW n \in Nat
    PROVE  /\ Round(n) \in Floats
           /\ \A f \in Floats : f <= n => f <= Round(n)
           /\ \A f \in Floats : n <= f => Round(n) <= f
<1>1. CASE \A x \in Floats : x < n
  <2>1. Round(n) = Below(n)
    BY <1>1 DEF Round
  <2>2. \A f \in Floats : ~(n <= f)
    BY <1>1, FloatsAreNatural
  <2> QED
    BY <2>1, <2>2, BelowIsFloat
<1>2. CASE \E x \in Floats : n <= x
  <2>1. Round(n) \in {Below(n), Above(n)}
    BY DEF Round
  <2>2. PICK f \in Floats : n <= f
    BY <1>2
  <2>3. /\ Below(n) \in Floats /\ Below(n) <= n
        /\ \A y \in Floats : y <= n => y <= Below(n)
    BY BelowIsFloat
  <2>4. /\ Above(n) \in Floats /\ Above(n) >= n
        /\ \A y \in Floats : y >= n => y >= Above(n)
    BY <2>2, AboveIsFloat
  <2>5. PICK down \in Floats : down = Below(n)
    BY <2>3
  <2>6. PICK up \in Floats : up = Above(n)
    BY <2>4
  <2>7. down <= n /\ n <= up
    BY <2>3, <2>4, <2>5, <2>6, FloatsAreNatural
  <2>8. \A y \in Floats : /\ y <= n => y <= down /\ y <= up
                          /\ n <= y => down <= y /\ up <= y
    BY <2>3, <2>4, <2>5, <2>6, <2>7, FloatsAreNatural
  <2> QED
    BY <2>1, <2>5, <2>6, <2>8
<1> QED
  BY <1>1, <1>2, FloatsAreNatural

LEMMA RoundExact ==
    ASSUME NEW f \in Floats
    PROVE  Round(f) = f
<1>1. f \in Nat /\ Round(f) \in Nat
  BY RoundIsNext, FloatsAreNatural
<1>2. f <= Round(f) /\ Round(f) <= f
  BY <1>1, RoundIsNext
<1> QED
  BY <1>1, <1>2

\* Of two units one is a multiple of the other.
LEMMA UnitsNest ==
    ASSUME NEW u \in Units, NEW v \in Units
    PROVE  (\E k \in Nat : v = k * u) \/ (\E k \in Nat : u = k * v)
<1>1. u \in Nat \ {0} /\ v \in Nat \ {0}
  BY UnitsAssumption
<1>2. v % u = 0 \/ u % v = 0
  BY <1>1, UnitsAssumption
<1>3. /\ v = u * (v \div u) + (v % u) /\ v \div u \in Nat
      /\ u = v * (u \div v) + (u % v) /\ u \div v \in Nat
  BY <1>1
<1>4. CASE v % u = 0
  BY <1>1, <1>3, <1>4
<1>5. CASE u % v = 0
  BY <1>1, <1>3, <1>5
<1> QED
  BY <1>2, <1>4, <1>5

\* The difference of two numbers of which one is at most twice the other is a
\* floating-point number: nothing is lost.
LEMMA DifferenceExact ==
    ASSUME NEW t \in Floats, NEW d \in Floats, t <= d, d <= 2 * t
    PROVE  d - t \in Floats
<1>1. PICK m \in 0 .. Significands, u \in Units : d = m * u
  BY DEF Floats
<1>2. PICK n \in 0 .. Significands, v \in Units : t = n * v
  BY DEF Floats
<1>3. u \in Nat \ {0} /\ v \in Nat \ {0} /\ Significands \in Nat /\ m \in Nat /\ n \in Nat
  BY UnitsAssumption, SignificandsAssumption
<1>4. ASSUME NEW k \in Nat, u = k * v
      PROVE  d - t \in Floats
  <2>1. PICK q \in Nat : q = m * k
    BY <1>3
  <2>2. d = q * v
    BY <1>1, <1>3, <1>4, <2>1
  <2>3. d - t = (q - n) * v /\ n * v <= q * v /\ q * v <= (2 * n) * v
    BY <1>2, <1>3, <2>2
  <2>4. n <= q /\ q <= 2 * n
    BY <1>3, <2>3
  <2>5. q - n \in 0 .. Significands
    BY <1>3, <2>4
  <2> QED
    BY <2>3, <2>5 DEF Floats
<1>5. ASSUME NEW k \in Nat, v = k * u
      PROVE  d - t \in Floats
  <2>1. PICK q \in Nat : q = n * k
    BY <1>3
  <2>2. t = q * u
    BY <1>2, <1>3, <1>5, <2>1
  <2>3. d - t = (m - q) * u /\ q * u <= m * u
    BY <1>1, <1>3, <2>2
  <2>4. q <= m
    BY <1>3, <2>3
  <2>5. m - q \in 0 .. Significands
    BY <1>3, <2>4
  <2> QED
    BY <2>3, <2>5 DEF Floats
<1> QED
  BY <1>4, <1>5, UnitsNest

-----------------------------------------------------------------------------
(* Propagate.                                                              *)

LEMMA StartGrid ==
    ASSUME GridInv, Start
    PROVE  GridInv'
<1>1. PICK d \in Int : d = duration /\ (d > 0 => d \in Floats)
  BY DEF GridInv, IsArgument
<1>2. PICK s \in Int : s = step /\ (s > 0 => s \in Floats)
  BY DEF GridInv, IsArgument
<1>3. /\ duration' = d /\ step' = s /\ time' = time /\ time = 0 /\ times = <<>>
      /\ outcome = "none"
  BY <1>1, <1>2 DEF Start, GridInv
<1>4. CASE Rejects
  <2>1. outcome' = "invalid argument" /\ times' = <<>>
    BY <1>3, <1>4 DEF Start
  <2>2. <<>> \in Seq(Floats) /\ Len(<<>>) = 0 /\ 0 <= MaxPoints
    BY MaxPointsAssumption
  <2> QED
    BY <1>1, <1>2, <1>3, <2>1, <2>2, FloatsAreNatural DEF GridInv, IsArgument, Outcomes
<1>5. CASE ~Rejects
  <2>1. times' = <<0>> /\ outcome' = "none"
    BY <1>3, <1>5 DEF Start
  <2>2. ~Rejects'
    BY <1>1, <1>2, <1>3, <1>5 DEF Rejects
  <2>3. times' \in Seq(Floats) /\ Len(times') = 1 /\ times'[1] = 0
    BY <2>1, FloatsAreNatural
  <2>4. time' <= duration'
    BY <1>1, <1>3, <1>5 DEF Rejects
  <2>5. Len(times') <= MaxPoints
    BY <2>3, MaxPointsAssumption
  <2> QED
    BY <1>1, <1>2, <1>3, <2>1, <2>2, <2>3, <2>4, <2>5, FloatsAreNatural
       DEF GridInv, IsArgument
<1> QED
  BY <1>4, <1>5

\* One round of the loop: time moves forward unless the step is absorbed, not
\* beyond the duration, and the step that is cut short reaches it exactly.
LEMMA AdvanceTime ==
    ASSUME GridInv, Running, More
    PROVE  LET next == Round(time + Dt)
           IN  /\ next \in Floats
               /\ time <= next /\ next <= duration
               /\ next >= step \/ next = duration
               /\ next = time => Absorbed(time)
               /\ next < duration => next = Round(time + step)
<1>1. /\ time \in Floats /\ duration \in Floats /\ step \in Floats
      /\ duration > 0 /\ step > 0 /\ time < duration /\ (time = 0 \/ time >= step)
  <2>1. times # <<>>
    BY DEF Running
  <2>2. /\ ~Rejects /\ (time = 0 \/ time >= step) /\ time < duration /\ time \in Floats
        /\ IsArgument(duration) /\ IsArgument(step)
    BY <2>1 DEF GridInv, More
  <2>3. duration \in Int /\ step \in Int
    BY <2>2 DEF IsArgument
  <2>4. duration > 0 /\ step > 0
    BY <2>2, <2>3 DEF Rejects
  <2> QED
    BY <2>2, <2>4 DEF IsArgument
<1>2. PICK t \in Nat : t = time
  BY <1>1, FloatsAreNatural
<1>3. PICK d \in Nat : d = duration
  BY <1>1, FloatsAreNatural
<1>4. PICK s \in Nat : s = step
  BY <1>1, FloatsAreNatural
<1>5. PICK r \in Nat : r = Round(t + s)
  <2>1. t + s \in Nat
    BY <1>2, <1>4
  <2>2. Round(t + s) \in Floats
    BY <2>1, RoundIsNext
  <2> QED
    BY <2>2, FloatsAreNatural
<1>6. CASE r <= d
  <2>1. Dt = s
    BY <1>2, <1>3, <1>4, <1>5, <1>6 DEF Dt
  <2>2. r \in Floats /\ t <= r /\ s <= r
    BY <1>1, <1>2, <1>4, <1>5, RoundIsNext
  <2>3. Absorbed(time) <=> r = t
    BY <1>2, <1>4, <1>5 DEF Absorbed
  <2> QED
    BY <1>2, <1>3, <1>4, <1>5, <1>6, <2>1, <2>2, <2>3
<1>7. CASE r > d
  <2>1. Dt = Round(d - t)
    BY <1>2, <1>3, <1>4, <1>5, <1>7 DEF Dt
  <2>2. t + s > d
    <3>1. t + s <= d => r <= d
      BY <1>1, <1>3, <1>5, RoundIsNext
    <3> QED
      BY <1>7, <3>1
  <2>3. d - t \in Floats
    <3>1. CASE t = 0
      BY <1>1, <1>3, <3>1
    <3>2. CASE t >= s
      <4>1. t <= d /\ d <= 2 * t
        BY <1>1, <1>2, <1>3, <2>2, <3>2
      <4> QED
        BY <1>1, <1>2, <1>3, <4>1, DifferenceExact
    <3> QED
      BY <1>1, <1>2, <1>4, <3>1, <3>2
  <2>4. Dt = d - t
    BY <2>1, <2>3, RoundExact
  <2>5. time + Dt = d
    BY <1>2, <2>4
  <2>6. Round(time + Dt) = d
    BY <1>1, <1>3, <2>5, RoundExact
  <2> QED
    BY <1>1, <1>2, <1>3, <2>6
<1> QED
  BY <1>5, <1>6, <1>7

LEMMA AdvanceGrid ==
    ASSUME GridInv, Advance
    PROVE  GridInv'
<1>1. PICK n \in Floats : n = Round(time + Dt)
  BY AdvanceTime DEF Advance
<1>2. /\ n = time' /\ time <= n /\ n <= duration /\ (n >= step \/ n = duration)
      /\ (n = time => Absorbed(time))
  BY <1>1, AdvanceTime DEF Advance
<1>3. /\ times' = Append(times, n) /\ UNCHANGED <<duration, step, outcome>>
      /\ Len(times) < MaxPoints /\ time < duration /\ outcome = "none" /\ times # <<>>
  BY <1>2 DEF Advance, More, Running
<1>4. /\ times \in Seq(Floats) /\ time \in Floats /\ ~Rejects
      /\ IsArgument(duration) /\ IsArgument(step)
      /\ times[1] = 0 /\ times[Len(times)] = time
  BY <1>3 DEF GridInv
<1>5. PICK l \in Nat : l = Len(times)
  BY <1>4
<1>6. /\ times' \in Seq(Floats) /\ Len(times') = l + 1 /\ times'[l + 1] = n
      /\ l >= 1 /\ \A k \in 1 .. l : times'[k] = times[k]
  BY <1>3, <1>4, <1>5
<1>7. Absorbed(time)' <=> Round(n + step) = n
  BY <1>2, <1>3 DEF Absorbed
<1>8. More' <=> n < duration
  BY <1>2, <1>3 DEF More
<1>9. ASSUME NEW k \in 1 .. Len(times') - 1
      PROVE  \/ times'[k] < times'[k + 1]
             \/ /\ times'[k] = time' /\ times'[k + 1] = time'
                /\ Absorbed(time)' /\ More'
  <2>1. k \in 1 .. l
    BY <1>5, <1>6
  <2>2. CASE Absorbed(time) /\ n = time
    <3>1. Absorbed(time)' /\ More'
      BY <1>3, <1>7, <1>8, <2>2 DEF Absorbed
    <3>2. CASE k = l
      BY <1>2, <1>4, <1>5, <1>6, <2>2, <3>1, <3>2
    <3>3. CASE k < l
      <4>1. k \in 1 .. Len(times) - 1
        BY <1>5, <2>1, <3>3
      <4>2. times[k] < times[k + 1] \/ (times[k] = time /\ times[k + 1] = time)
        BY <1>3, <4>1 DEF GridInv
      <4>3. times'[k] = times[k] /\ times'[k + 1] = times[k + 1]
        BY <1>5, <1>6, <2>1, <3>3
      <4> QED
        BY <1>2, <2>2, <3>1, <4>2, <4>3
    <3> QED
      BY <1>5, <2>1, <3>2, <3>3
  <2>3. CASE n # time
    <3>1. time < n
      BY <1>2, <1>4, <2>3, FloatsAreNatural
    <3>2. ~Absorbed(time)
      <4>1. SUFFICES ASSUME Absorbed(time) PROVE n = time
        BY <2>3
      <4>2. Round(time + step) = time
        BY <4>1 DEF Absorbed
      <4>3. Dt = step
        <5>1. time <= duration /\ time \in Nat /\ duration \in Int
          BY <1>3, <1>4, FloatsAreNatural DEF IsArgument
        <5> QED
          BY <4>2, <5>1 DEF Dt
      <4> QED
        BY <1>1, <4>2, <4>3
    <3>3. CASE k = l
      BY <1>4, <1>5, <1>6, <3>1, <3>3
    <3>4. CASE k < l
      <4>1. k \in 1 .. Len(times) - 1
        BY <1>5, <2>1, <3>4
      <4>2. times[k] < times[k + 1]
        BY <1>3, <3>2, <4>1 DEF GridInv
      <4> QED
        BY <1>5, <1>6, <2>1, <3>4, <4>2
    <3> QED
      BY <1>5, <2>1, <3>3, <3>4
  <2> QED
    BY <1>2, <2>2, <2>3
<1>10. ~Rejects' /\ IsArgument(duration)' /\ IsArgument(step)'
  BY <1>3, <1>4 DEF Rejects, IsArgument
<1>11. Len(times') <= MaxPoints
  BY <1>3, <1>5, <1>6, MaxPointsAssumption
<1>12. times' # <<>>
  BY <1>5, <1>6
<1>13. time' >= step' \/ ~More'
  <2>1. n \in Nat /\ duration \in Int
    BY <1>1, <1>4, FloatsAreNatural DEF IsArgument
  <2> QED
    BY <1>2, <1>3, <1>8, <2>1
<1> QED
  BY <1>2, <1>3, <1>4, <1>5, <1>6, <1>9, <1>10, <1>11, <1>12, <1>13
     DEF GridInv, Outcomes

LEMMA EndGrid ==
    ASSUME GridInv, Collapse \/ Exhaust \/ Finish
    PROVE  GridInv'
<1>1. /\ UNCHANGED <<duration, step, time, times>> /\ times # <<>>
      /\ outcome' \in {"invalid radius", "no memory", "returned"}
      /\ outcome' = "returned" => ~More
  BY DEF Collapse, Exhaust, Finish, Running
<1>2. /\ Rejects' = Rejects /\ More' = More /\ Absorbed(time)' = Absorbed(time)
      /\ IsArgument(duration)' = IsArgument(duration)
      /\ IsArgument(step)' = IsArgument(step)
  BY <1>1 DEF Rejects, More, Absorbed, IsArgument
<1> QED
  BY <1>1, <1>2 DEF GridInv, Outcomes

LEMMA PropagateGrid ==
    ASSUME GridInv, Propagate
    PROVE  GridInv'
  BY StartGrid, AdvanceGrid, EndGrid DEF Propagate

LEMMA CallGrid ==
    ASSUME NEW d, NEW s, IsArgument(d), IsArgument(s)
    PROVE  (Called(d, s) => GridInv) /\ (Call(d, s) => GridInv')
<1>1. 0 \in Floats /\ <<>> \in Seq(Floats) /\ Len(<<>>) = 0 /\ 0 <= MaxPoints
  BY FloatsAreNatural, MaxPointsAssumption
<1> QED
  BY <1>1 DEF Called, Call, GridInv, Outcomes, IsArgument

LEMMA SameGrid ==
    ASSUME GridInv, UNCHANGED propagation
    PROVE  GridInv'
<1>1. UNCHANGED <<duration, step, time, times, outcome>>
  BY DEF propagation
<1>2. /\ Rejects' = Rejects /\ More' = More /\ Absorbed(time)' = Absorbed(time)
      /\ IsArgument(duration)' = IsArgument(duration)
      /\ IsArgument(step)' = IsArgument(step)
  BY <1>1 DEF Rejects, More, Absorbed, IsArgument
<1> QED
  BY <1>1, <1>2 DEF GridInv

-----------------------------------------------------------------------------
(* Longitude and latitude.                                                 *)

LEMMA AnglesAre == Angles = {-135, -90, -45, 0, 45, 90, 135, 180}
<1>1. -3 .. 4 = {-3, -2, -1, 0, 1, 2, 3, 4}
  OBVIOUS
<1> QED
  BY <1>1 DEF Angles

\* The angle of a direction, by the signs of its coordinates.
Direction(y, x) ==
    IF y > 0 THEN IF x > 0 THEN 45 ELSE IF x = 0 THEN 90 ELSE 135
    ELSE IF y < 0 THEN IF x > 0 THEN -45 ELSE IF x = 0 THEN -90 ELSE -135
    ELSE IF x >= 0 THEN 0 ELSE 180

LEMMA AtanIsDirection ==
    ASSUME NEW x \in Int, NEW y \in Int
    PROVE  Atan2(y, x) = Direction(y, x)
<1> DEFINE Fits(a) == /\ Sign(x) = Sign(90 - Abs(a))
                      /\ Sign(y) = IF a = 180 THEN 0 ELSE Sign(a)
<1>1. CASE x = 0 /\ y = 0
  BY <1>1 DEF Atan2, Direction
<1>2. CASE ~(x = 0 /\ y = 0)
  <2>1. Direction(y, x) \in Angles /\ Fits(Direction(y, x))
    BY <1>2, AnglesAre DEF Direction, Sign, Abs
  <2>2. ASSUME NEW a \in Angles, Fits(a)
        PROVE  a = Direction(y, x)
    BY <1>2, <2>2, AnglesAre DEF Direction, Sign, Abs
  <2>3. Atan2(y, x) = CHOOSE a \in Angles : Fits(a)
    BY <1>2 DEF Atan2
  <2> QED
    BY <2>1, <2>2, <2>3
<1> QED
  BY <1>1, <1>2

LEMMA DirectionType ==
    ASSUME NEW x \in Int, NEW y \in Int
    PROVE  Direction(y, x) \in Angles
  BY AnglesAre DEF Direction

\* A quarter turn takes 90 degrees away.
LEMMA DirectionTurns ==
    ASSUME NEW x \in Int, NEW y \in Int, x # 0 \/ y # 0
    PROVE  /\ (Direction(y, x) - Direction(-x, y) - 90) % 360 = 0
           /\ (Direction(y, x) - Direction(-y, -x) - 180) % 360 = 0
           /\ (Direction(y, x) - Direction(x, -y) - 270) % 360 = 0
  BY DEF Direction

\* The earth has turned by no, one, two or three quarters more than whole turns.
LEMMA Turned ==
    ASSUME NEW p \in Vectors(Int), NEW t \in Nat
    PROVE  \/ t % 4 = 0 /\ EciToEcef(p, t) = Vector(p.x, p.y, p.z)
           \/ t % 4 = 1 /\ EciToEcef(p, t) = Vector(p.y, -p.x, p.z)
           \/ t % 4 = 2 /\ EciToEcef(p, t) = Vector(-p.x, -p.y, p.z)
           \/ t % 4 = 3 /\ EciToEcef(p, t) = Vector(-p.y, p.x, p.z)
<1>1. p.x \in Int /\ p.y \in Int /\ p.z \in Int
  BY DEF Vectors
<1>2. CASE t % 4 = 0
  <2>1. (t + 1) % 4 = 1
    BY <1>2
  <2>2. Sin(t) = 0 /\ Cos(t) = 1
    BY <1>2, <2>1 DEF Sin, Cos
  <2> QED
    BY <1>1, <1>2, <2>2 DEF EciToEcef, Vector
<1>3. CASE t % 4 = 1
  <2>1. (t + 1) % 4 = 2
    BY <1>3
  <2>2. Sin(t) = 1 /\ Cos(t) = 0
    BY <1>3, <2>1 DEF Sin, Cos
  <2> QED
    BY <1>1, <1>3, <2>2 DEF EciToEcef, Vector
<1>4. CASE t % 4 = 2
  <2>1. (t + 1) % 4 = 3
    BY <1>4
  <2>2. Sin(t) = 0 /\ Cos(t) = -1
    BY <1>4, <2>1 DEF Sin, Cos
  <2> QED
    BY <1>1, <1>4, <2>2 DEF EciToEcef, Vector
<1>5. CASE t % 4 = 3
  <2>1. (t + 1) % 4 = 0
    BY <1>5
  <2>2. Sin(t) = -1 /\ Cos(t) = 0
    BY <1>5, <2>1 DEF Sin, Cos
  <2> QED
    BY <1>1, <1>5, <2>2 DEF EciToEcef, Vector
<1> QED
  BY <1>2, <1>3, <1>4, <1>5

LEMMA GeodeticDirections ==
    ASSUME NEW x \in Int, NEW y \in Int, NEW z \in Int
    PROVE  EcefToGeodetic(Vector(x, y, z)) =
               [latitude |-> Direction(z, x * x + y * y), longitude |-> Direction(y, x)]
<1>1. x * x + y * y \in Int
  OBVIOUS
<1> QED
  BY <1>1, AtanIsDirection DEF EcefToGeodetic, Vector

LEMMA VectorParts ==
    ASSUME NEW p \in Vectors(Int)
    PROVE  /\ p = Vector(p.x, p.y, p.z)
           /\ p.x \in Int /\ p.y \in Int /\ p.z \in Int
  BY DEF Vectors, Vector

LEMMA GeodeticType ==
    ASSUME NEW p \in Vectors(Int), NEW t \in Nat
    PROVE  EcefToGeodetic(EciToEcef(p, t)) \in [latitude : Angles, longitude : Angles]
<1>1. PICK x \in Int, y \in Int, z \in Int : EciToEcef(p, t) = Vector(x, y, z)
  BY Turned, VectorParts
<1>2. Direction(z, x * x + y * y) \in Angles /\ Direction(y, x) \in Angles
  BY DirectionType
<1> QED
  BY <1>1, <1>2, GeodeticDirections

LEMMA LagsByTime ==
    ASSUME NEW p \in Vectors(Int), NEW t \in Nat
    PROVE  LET star == EcefToGeodetic(p)
               here == EcefToGeodetic(EciToEcef(p, t))
           IN  /\ here.latitude = star.latitude
               /\ \/ p.x = 0 /\ p.y = 0
                  \/ (star.longitude - here.longitude - 90 * t) % 360 = 0
<1>1. PICK x \in Int, y \in Int, z \in Int : p = Vector(x, y, z)
  BY VectorParts
<1>2. p.x = x /\ p.y = y /\ p.z = z
  BY <1>1 DEF Vector
<1>3. PICK q \in Nat, r \in 0 .. 3 : t = 4 * q + r /\ r = t % 4
  <2>1. t = 4 * (t \div 4) + (t % 4) /\ t \div 4 \in Nat /\ t % 4 \in 0 .. 3
    OBVIOUS
  <2> QED
    BY <2>1
<1>4. PICK u \in Int, v \in Int :
          /\ EciToEcef(p, t) = Vector(u, v, z)
          /\ u * u + v * v = x * x + y * y
          /\ (x = 0 /\ y = 0) \/ (Direction(y, x) - Direction(v, u) - 90 * r) % 360 = 0
  <2>1. CASE r = 0
    <3>1. EciToEcef(p, t) = Vector(x, y, z)
      BY <1>2, <1>3, <2>1, Turned
    <3>2. (Direction(y, x) - Direction(y, x) - 90 * r) % 360 = 0
      BY <2>1 DEF Direction
    <3> QED
      BY <3>1, <3>2
  <2>2. CASE r = 1
    <3>1. EciToEcef(p, t) = Vector(y, -x, z)
      BY <1>2, <1>3, <2>2, Turned
    <3>2. (x = 0 /\ y = 0) \/ (Direction(y, x) - Direction(-x, y) - 90 * r) % 360 = 0
      BY <2>2, DirectionTurns
    <3>3. y * y + (-x) * (-x) = x * x + y * y
      OBVIOUS
    <3> QED
      BY <3>1, <3>2, <3>3
  <2>3. CASE r = 2
    <3>1. EciToEcef(p, t) = Vector(-x, -y, z)
      BY <1>2, <1>3, <2>3, Turned
    <3>2. (x = 0 /\ y = 0) \/ (Direction(y, x) - Direction(-y, -x) - 90 * r) % 360 = 0
      BY <2>3, DirectionTurns
    <3>3. (-x) * (-x) + (-y) * (-y) = x * x + y * y
      OBVIOUS
    <3> QED
      BY <3>1, <3>2, <3>3
  <2>4. CASE r = 3
    <3>1. EciToEcef(p, t) = Vector(-y, x, z)
      BY <1>2, <1>3, <2>4, Turned
    <3>2. (x = 0 /\ y = 0) \/ (Direction(y, x) - Direction(x, -y) - 90 * r) % 360 = 0
      BY <2>4, DirectionTurns
    <3>3. (-y) * (-y) + x * x = x * x + y * y
      OBVIOUS
    <3> QED
      BY <3>1, <3>2, <3>3
  <2> QED
    BY <2>1, <2>2, <2>3, <2>4
<1>5. EcefToGeodetic(p) =
          [latitude |-> Direction(z, x * x + y * y), longitude |-> Direction(y, x)]
  BY <1>1, GeodeticDirections
<1>6. EcefToGeodetic(EciToEcef(p, t)) =
          [latitude |-> Direction(z, x * x + y * y), longitude |-> Direction(v, u)]
  <2>1. EcefToGeodetic(Vector(u, v, z)) =
            [latitude |-> Direction(z, u * u + v * v), longitude |-> Direction(v, u)]
    BY GeodeticDirections
  <2> QED
    BY <1>4, <2>1
<1>7. ASSUME (Direction(y, x) - Direction(v, u) - 90 * r) % 360 = 0
      PROVE  (Direction(y, x) - Direction(v, u) - 90 * t) % 360 = 0
  <2>1. Direction(y, x) \in Int /\ Direction(v, u) \in Int
    BY DirectionType, AnglesAre
  <2>2. PICK a \in Int : a = Direction(y, x) - Direction(v, u) - 90 * r
    BY <2>1
  <2>3. Direction(y, x) - Direction(v, u) - 90 * t = a - 360 * q
    BY <1>3, <2>1, <2>2
  <2>4. (a - 360 * q) % 360 = 0
    BY <1>7, <2>2
  <2> QED
    BY <2>3, <2>4
<1> QED
  BY <1>2, <1>4, <1>5, <1>6, <1>7

-----------------------------------------------------------------------------
(* The rows that main writes.                                              *)

LEMMA OrbitPoints ==
    ASSUME TypeOK, GridInv, NEW k \in 1 .. Len(times)
    PROVE  orbit[k] \in Vectors(Int) /\ times[k] \in Nat /\ k \in 1 .. MaxPoints
<1>1. times \in Seq(Floats) /\ Len(times) <= MaxPoints
  BY DEF GridInv
<1>2. k \in 1 .. MaxPoints
  BY <1>1, MaxPointsAssumption
<1>3. times[k] \in Nat
  <2>1. times[k] \in Floats
    BY <1>1, ElementOfSeq
  <2> QED
    BY <2>1, FloatsAreNatural
<1>4. orbit[k] \in Vectors(Int)
  <2>1. orbit \in Orbits
    BY DEF TypeOK
  <2> QED
    BY <1>2, <2>1, OrbitsAssumption
<1> QED
  BY <1>2, <1>3, <1>4

LEMMA RowsAre ==
    ASSUME TypeOK, GridInv
    PROVE  /\ Rows \in Seq(FileRows) /\ Len(Rows) = Len(times) + 1
           /\ Rows[1] = Header
           /\ \A k \in 1 .. Len(times) : Rows[k + 1] = Row(k)
<1>1. PICK n \in Nat : n = Len(times)
  <2>1. times \in Seq(Floats)
    BY DEF GridInv
  <2>2. Len(times) \in Nat
    BY <2>1, LenProperties
  <2> QED
    BY <2>2
<1> DEFINE points == [k \in 1 .. Len(times) |-> Row(k)]
<1>3. \A k \in 1 .. n : Row(k) \in FileRows
  <2>1. ASSUME NEW k \in 1 .. n
        PROVE  Row(k) \in FileRows
    <3>1. Geodetic(k) \in [latitude : Angles, longitude : Angles] /\ k \in 1 .. MaxPoints
      BY <1>1, OrbitPoints, GeodeticType DEF Geodetic
    <3>2. runs \in 1 .. MaxRuns
      BY DEF TypeOK
    <3> QED
      BY <3>1, <3>2 DEF Row, FileRows
  <2> QED
    BY <2>1
<1>4. points \in Seq(FileRows) /\ Len(points) = n /\ \A k \in 1 .. n : points[k] = Row(k)
  <2>1. points = [k \in 1 .. n |-> Row(k)]
    BY <1>1
  <2> HIDE DEF points
  <2>2. points \in [1 .. n -> FileRows]
    BY <1>3, <2>1
  <2> QED
    BY <2>1, <2>2
<1>5. <<Header>> \in Seq(FileRows) /\ Len(<<Header>>) = 1 /\ <<Header>>[1] = Header
  BY DEF FileRows
<1>6. Rows = <<Header>> \o points
  BY DEF Rows
<1> HIDE DEF points
<1>7. /\ Rows \in Seq(FileRows) /\ Len(Rows) = n + 1
      /\ Rows[1] = Header /\ \A k \in 1 .. n : Rows[k + 1] = points[k]
  <2>1. PICK h \in Seq(FileRows) : h = <<Header>> /\ Len(h) = 1 /\ h[1] = Header
    BY <1>5
  <2>2. Rows = h \o points
    BY <1>6, <2>1
  <2> QED
    BY <1>4, <2>1, <2>2, ConcatProperties
<1> QED
  BY <1>1, <1>4, <1>7

-----------------------------------------------------------------------------
(* The file.                                                               *)

LEMMA RowKinds ==
    /\ Header \in FileRows
    /\ \A k : Row(k).kind = "point" /\ Row(k).run = runs /\ Row(k).point = k
  BY DEF Header, Row, FileRows

LEMMA RowsLength ==
    ASSUME TypeOK, GridInv
    PROVE  Len(Rows) \in Nat /\ Len(Rows) >= 1 /\ sent \in Nat /\ put \in Nat
<1>1. times \in Seq(Floats)
  BY DEF GridInv
<1>2. Len(times) \in Nat
  BY <1>1, LenProperties
<1>3. Len(Rows) = Len(times) + 1
  BY RowsAre
<1>4. put \in 0 .. Len(Rows) /\ sent \in 0 .. put
  BY DEF TypeOK
<1> QED
  BY <1>2, <1>3, <1>4

\* The first rows of main's track are the header and the first of its points.
LEMMA FirstRows ==
    ASSUME TypeOK, GridInv, NEW n \in 0 .. Len(Rows)
    PROVE  /\ SubSeq(Rows, 1, n) \in Seq(FileRows) /\ Len(SubSeq(Rows, 1, n)) = n
           /\ n >= 1 => SubSeq(Rows, 1, n)[1] = Header
           /\ \A k \in 1 .. n - 1 :
                  SubSeq(Rows, 1, n)[k + 1] = Row(k) /\ k \in 1 .. Len(times)
<1>1. PICK l \in Nat : l = Len(times)
  <2>1. times \in Seq(Floats)
    BY DEF GridInv
  <2>2. Len(times) \in Nat
    BY <2>1, LenProperties
  <2> QED
    BY <2>2
<1>2. PICK r \in Seq(FileRows) :
          /\ r = Rows /\ Len(r) = l + 1 /\ r[1] = Header
          /\ \A k \in 1 .. l : r[k + 1] = Row(k)
  BY <1>1, RowsAre
<1>3. PICK s : s = SubSeq(r, 1, n)
  OBVIOUS
<1>4. n \in Int /\ \A i \in 1 .. n : r[i] \in FileRows
  BY <1>2
<1>5. s \in Seq(FileRows) /\ Len(s) = n /\ \A i \in 1 .. n : s[i] = r[i]
  BY <1>2, <1>3, <1>4, SubSeqProperties
<1>6. ASSUME NEW k \in 1 .. n - 1
      PROVE  s[k + 1] = Row(k) /\ k \in 1 .. Len(times)
  <2>1. k \in 1 .. l /\ k + 1 \in 1 .. n
    BY <1>1, <1>2
  <2> QED
    BY <1>1, <1>2, <1>5, <2>1
<1>7. n >= 1 => s[1] = Header
  BY <1>2, <1>4, <1>5
<1> QED
  BY <1>2, <1>3, <1>5, <1>6, <1>7

\* What is in the file is one track, and of no later run than this.
LEMMA FileIsTrack ==
    ASSUME TypeOK, GridInv, FileInv
    PROVE  OneTrack(file) /\ \A k \in 1 .. Len(file) - 1 : file[k + 1].run <= runs
<1>1. runs \in Nat /\ file \in Seq(FileRows)
  <2>1. runs \in 1 .. MaxRuns /\ file \in Seq(FileRows)
    BY DEF TypeOK
  <2> QED
    BY <2>1, MaxRunsAssumption
<1>2. PICK n \in Nat : n = Len(file)
  BY <1>1, LenProperties
<1>3. CASE file = SubSeq(Rows, 1, sent)
  <2>1. sent \in 0 .. Len(Rows)
    <3>1. put \in 0 .. Len(Rows) /\ sent \in 0 .. put /\ Len(Rows) \in Nat
      BY RowsLength DEF TypeOK
    <3> QED
      BY <3>1
  <2>2. /\ n = sent /\ (n >= 1 => file[1] = Header)
        /\ \A k \in 1 .. n - 1 : file[k + 1] = Row(k)
    BY <1>2, <1>3, <2>1, FirstRows
  <2>3. ASSUME NEW k \in 1 .. n - 1
        PROVE  /\ file[k + 1].kind = "point" /\ file[k + 1].run = runs
               /\ file[2].run = runs /\ file[k + 1].point = k
    <3>1. 1 \in 1 .. n - 1 /\ 1 + 1 = 2
      BY <1>2
    <3>2. file[k + 1] = Row(k) /\ file[2] = Row(1)
      BY <2>2, <3>1
    <3> QED
      BY <3>2, RowKinds
  <2>4. file # <<>> => n >= 1
    BY <1>1, <1>2, EmptySeq
  <2>5. OneTrack(file)
    BY <1>2, <2>2, <2>3, <2>4 DEF OneTrack
  <2>6. runs <= runs
    BY <1>1
  <2>7. \A k \in 1 .. n - 1 : file[k + 1].run <= runs
    BY <2>3, <2>6
  <2> QED
    BY <1>2, <2>5, <2>7
<1>4. CASE OneTrack(file) /\ \A k \in 1 .. Len(file) - 1 : file[k + 1].run < runs
  <2>1. ASSUME NEW k \in 1 .. n - 1
        PROVE  file[k + 1].run <= runs
    <3>1. file[k + 1].run < runs /\ file[k + 1].kind = "point"
      BY <1>2, <1>4 DEF OneTrack
    <3>2. k + 1 \in 1 .. Len(file)
      BY <1>2
    <3>3. file[k + 1] \in FileRows
      BY <1>1, <3>2, ElementOfSeq
    <3>4. file[k + 1].run \in Nat
      BY <3>1, <3>3 DEF FileRows, Header
    <3> QED
      BY <1>1, <3>1, <3>4
  <2> QED
    BY <1>2, <1>4, <2>1
<1> QED
  BY <1>3, <1>4 DEF FileInv

-----------------------------------------------------------------------------
(* The steps of main.                                                      *)

LEMMA SameTrack ==
    ASSUME GridInv, UNCHANGED <<propagation, runs, orbit>>
    PROVE  Rows' = Rows /\ GridInv' /\ outcome' = outcome
<1>1. UNCHANGED <<times, outcome, runs, orbit>>
  BY DEF propagation
<1>2. \A k : Row(k)' = Row(k)
  BY <1>1 DEF Row, Geodetic
<1>3. Rows' = Rows
  BY <1>1, <1>2 DEF Rows
<1> QED
  BY <1>1, <1>3, SameGrid

\* A step that leaves the file and the track alone.
LEMMA FileKept ==
    ASSUME IInv, UNCHANGED <<propagation, runs, orbit, file, torn>>,
           pc' \in {"propagate", "write", "exit 0", "exit 1", "killed"},
           pc' \in {"propagate", "write"} => pc' = pc,
           pc' = "exit 0" => outcome = "returned",
           put' \in 0 .. Len(Rows), sent' = sent, sent \in 0 .. put',
           pc' = "propagate" => put' = put, broken' \in BOOLEAN,
           pc' = "propagate" => broken' = broken, broken => broken',
           message' = message \/ (message' = "failed" /\ pc' = "exit 0"),
           message' = message => (pc = "exit 0" <=> pc' = "exit 0")
    PROVE  IInv'
<1>1. TypeOK /\ GridInv /\ FileInv
  BY DEF IInv
<1>2. Rows' = Rows /\ GridInv' /\ outcome' = outcome
  BY <1>1, SameTrack
<1>3. TypeOK'
  BY <1>1, <1>2 DEF TypeOK
<1>4. \/ pc' # "propagate" /\ file' = SubSeq(Rows', 1, sent')
      \/ /\ pc' # "write" /\ OneTrack(file')
         /\ \A k \in 1 .. Len(file') - 1 : file'[k + 1].run < runs'
  <2>1. CASE pc # "propagate" /\ file = SubSeq(Rows, 1, sent)
    BY <1>2, <2>1
  <2>2. CASE /\ pc # "write" /\ OneTrack(file)
             /\ \A k \in 1 .. Len(file) - 1 : file[k + 1].run < runs
    BY <2>2
  <2> QED
    BY <1>1, <2>1, <2>2 DEF FileInv
<1>5. /\ pc' = "propagate" => put' = 0 /\ sent' = 0 /\ ~broken'
      /\ pc' # "exit 0" => message' = "none"
      /\ torn' => file' # <<>>
  BY <1>1, <1>2 DEF FileInv
<1>6. SavedUnlessDeviceFull'
  BY <1>1, <1>2 DEF FileInv, SavedUnlessDeviceFull
<1> QED
  BY <1>2, <1>3, <1>4, <1>5, <1>6 DEF IInv, FileInv, OneTrack

LEMMA KeepsFile ==
    ASSUME IInv, Catch \/ Put \/ DeviceFull \/ Kill \/ Stop \/ UNCHANGED vars
    PROVE  IInv'
<1>1. TypeOK /\ GridInv /\ FileInv
  BY DEF IInv
<1>2. Len(Rows) \in Nat /\ sent \in Nat /\ put \in Nat
  BY <1>1, RowsLength
<1>3. /\ put \in 0 .. Len(Rows) /\ sent \in 0 .. put /\ broken \in BOOLEAN
      /\ pc \in {"propagate", "write", "exit 0", "exit 1", "killed"}
      /\ pc = "exit 0" => outcome = "returned"
  BY <1>1 DEF TypeOK
<1>4. CASE Catch \/ Kill
  <2>1. /\ UNCHANGED <<propagation, runs, orbit, put, sent, broken, message, file, torn>>
        /\ pc' \in {"exit 1", "killed"} /\ pc # "exit 0"
    BY <1>4 DEF Catch, Kill
  <2> QED
    BY <1>3, <2>1, FileKept
<1>5. CASE Put
  <2>1. /\ UNCHANGED <<propagation, runs, orbit, pc, sent, broken, message, file, torn>>
        /\ pc = "write" /\ put' = put + 1 /\ put < Len(Rows)
    BY <1>5 DEF Put
  <2>2. put' \in 0 .. Len(Rows) /\ sent \in 0 .. put'
    BY <1>2, <1>3, <2>1
  <2> QED
    BY <1>3, <2>1, <2>2, FileKept
<1>6. CASE DeviceFull
  <2>1. /\ UNCHANGED <<propagation, runs, orbit, pc, put, sent, message, file, torn>>
        /\ pc = "write" /\ broken' = TRUE
    BY <1>6 DEF DeviceFull
  <2> QED
    BY <1>3, <2>1, FileKept
<1>7. CASE Stop \/ UNCHANGED vars
  <2>1. UNCHANGED vars
    BY <1>7 DEF Stop
  <2>2. UNCHANGED <<propagation, runs, orbit, pc, put, sent, broken, message, file, torn>>
    BY <2>1 DEF vars
  <2> QED
    BY <1>3, <2>2, FileKept
<1> QED
  BY <1>4, <1>5, <1>6, <1>7

\* A step that leads to a run's beginning or is part of its propagation.
LEMMA BeforeWriting ==
    ASSUME IInv, GridInv', pc' = "propagate", file' = file, torn' = torn,
           runs' \in 1 .. MaxRuns,
           \A k \in 1 .. Len(file) - 1 : file[k + 1].run < runs',
           orbit' \in Orbits, put' = 0, sent' = 0, broken' = FALSE, message' = "none"
    PROVE  IInv'
<1>1. TypeOK /\ GridInv /\ FileInv
  BY DEF IInv
<1>2. 0 \in 0 .. Len(Rows')
  <2>1. times' \in Seq(Floats)
    BY DEF GridInv
  <2>2. PICK n \in Nat : n = Len(times')
    BY <2>1, LenProperties
  <2> DEFINE points == [k \in 1 .. n |-> Row(k)']
  <2>3. points \in Seq({points[k] : k \in 1 .. n}) /\ Len(points) = n
    OBVIOUS
  <2>4. Rows' = <<Header>> \o points
    BY <2>2 DEF Rows
  <2> HIDE DEF points
  <2>5. Len(<<Header>> \o points) = n + 1
    <3>1. PICK S : points \in Seq(S) /\ Header \in S
      <4>1. points \in Seq({points[k] : k \in 1 .. n} \cup {Header})
        BY <2>3, SeqMonotonic
      <4> QED
        BY <4>1
    <3>2. <<Header>> \in Seq(S) /\ Len(<<Header>>) = 1
      BY <3>1
    <3> QED
      BY <2>3, <3>1, <3>2, ConcatProperties
  <2> QED
    BY <2>4, <2>5
<1>3. TypeOK'
  <2>1. outcome' \in Outcomes
    BY DEF GridInv
  <2>2. file \in Seq(FileRows) /\ torn \in BOOLEAN
    BY <1>1 DEF TypeOK
  <2>3. /\ sent' \in 0 .. put' /\ put' \in 0 .. Len(Rows')
        /\ message' \in {"none", "saved", "failed"} /\ file' \in Seq(FileRows)
        /\ pc' \in {"propagate", "write", "exit 0", "exit 1", "killed"}
        /\ ~(pc' \in {"write", "exit 0"})
    BY <1>2, <2>2
  <2>4. broken' \in BOOLEAN /\ torn' \in BOOLEAN
    BY <2>2
  <2> QED
    BY <2>1, <2>3, <2>4 DEF TypeOK
<1>4. OneTrack(file)
  BY <1>1, FileIsTrack
<1>5. OneTrack(file')
  BY <1>4
<1>6. (torn => file # <<>>)'
  BY <1>1 DEF FileInv
<1>7. FileInv'
  BY <1>5, <1>6 DEF FileInv, SavedUnlessDeviceFull, OneTrack
<1> QED
  BY <1>3, <1>7 DEF IInv

LEMMA PropagatingFile ==
    ASSUME IInv, Propagating
    PROVE  IInv'
<1>1. TypeOK /\ GridInv /\ FileInv
  BY DEF IInv
<1>2. /\ UNCHANGED <<runs, orbit, pc, put, sent, broken, message, file, torn>>
      /\ pc = "propagate" /\ Propagate
  BY DEF Propagating
<1>3. GridInv'
  BY <1>1, <1>2, PropagateGrid
<1>4. put = 0 /\ sent = 0 /\ broken = FALSE /\ message = "none"
  BY <1>1, <1>2 DEF FileInv, TypeOK
<1>5. runs \in 1 .. MaxRuns /\ orbit \in Orbits
  BY <1>1 DEF TypeOK
<1>6. \A k \in 1 .. Len(file) - 1 : file[k + 1].run < runs
  BY <1>1, <1>2 DEF FileInv
<1> QED
  BY <1>2, <1>3, <1>4, <1>5, <1>6, BeforeWriting

LEMMA RerunFile ==
    ASSUME IInv, Rerun
    PROVE  IInv'
<1>1. TypeOK /\ GridInv /\ FileInv
  BY DEF IInv
<1>2. PICK d \in Durations, s \in Steps : Call(d, s)
  BY DEF Rerun
<1>3. GridInv'
  BY <1>2, CallGrid, ArgumentsAssumption
<1>4. runs \in 1 .. MaxRuns /\ runs' = runs + 1 /\ runs < MaxRuns /\ orbit' \in Orbits
  BY <1>1 DEF TypeOK, Rerun
<1>5. runs' \in 1 .. MaxRuns
  BY <1>4, MaxRunsAssumption
<1>6. ASSUME NEW k \in 1 .. Len(file) - 1
      PROVE  file[k + 1].run < runs'
  <2>1. /\ file \in Seq(FileRows) /\ k + 1 \in 1 .. Len(file)
        /\ file[k + 1].run <= runs /\ file[k + 1].kind = "point"
    <3>1. file \in Seq(FileRows)
      BY <1>1 DEF TypeOK
    <3>2. Len(file) \in Nat
      BY <3>1, LenProperties
    <3>3. file[k + 1].run <= runs /\ file[k + 1].kind = "point"
      BY <1>1, FileIsTrack DEF OneTrack
    <3> QED
      BY <3>1, <3>2, <3>3
  <2>2. file[k + 1] \in FileRows
    BY <2>1, ElementOfSeq
  <2>3. file[k + 1].run \in Nat
    BY <2>1, <2>2 DEF FileRows, Header
  <2> QED
    BY <1>4, <2>1, <2>3
<1> QED
  BY <1>3, <1>4, <1>5, <1>6, BeforeWriting DEF Rerun

LEMMA OpenFile ==
    ASSUME IInv, Open
    PROVE  IInv'
<1>1. TypeOK /\ GridInv /\ FileInv
  BY DEF IInv
<1>2. /\ UNCHANGED <<propagation, runs, orbit, put, sent, broken>>
      /\ pc = "propagate" /\ outcome = "returned"
  BY DEF Open
<1>3. put = 0 /\ sent = 0 /\ message = "none"
  BY <1>1, <1>2 DEF FileInv
<1>4. CASE UNCHANGED <<file, torn>> /\ pc' = "exit 0" /\ message' = "failed"
  <2>1. put \in 0 .. Len(Rows) /\ sent \in 0 .. put /\ broken \in BOOLEAN
    BY <1>1 DEF TypeOK
  <2>2. UNCHANGED <<propagation, runs, orbit, file, torn>> /\ put' = put /\ sent' = sent
    BY <1>2, <1>4
  <2>3. broken' = broken
    BY <1>2
  <2>4. broken' \in BOOLEAN /\ (broken => broken')
    BY <2>1, <2>3
  <2> QED
    BY <1>2, <1>3, <1>4, <2>1, <2>2, <2>4, FileKept
<1>5. CASE pc' = "write" /\ file' = <<>> /\ torn' = FALSE /\ message' = message
  <2>1. Rows' = Rows /\ GridInv' /\ outcome' = outcome
    BY <1>1, <1>2, SameTrack
  <2>2. <<>> \in Seq(FileRows) /\ torn' \in BOOLEAN
    BY <1>5, EmptySeq
  <2>3. TypeOK'
    BY <1>1, <1>2, <1>5, <2>1, <2>2 DEF TypeOK
  <2>4. SubSeq(Rows, 1, 0) = <<>>
    BY SubSeqEmpty
  <2>5. file' = SubSeq(Rows', 1, sent')
    BY <1>2, <1>3, <1>5, <2>1, <2>4
  <2> QED
    BY <1>2, <1>3, <1>5, <2>1, <2>3, <2>5 DEF IInv, FileInv, SavedUnlessDeviceFull
<1> QED
  BY <1>4, <1>5 DEF Open

LEMMA NextRow ==
    ASSUME TypeOK, GridInv, NEW n \in 0 .. Len(Rows) - 1
    PROVE  /\ Rows[n + 1] \in FileRows
           /\ Append(SubSeq(Rows, 1, n), Rows[n + 1]) = SubSeq(Rows, 1, n + 1)
<1>1. PICK r \in Seq(FileRows) : r = Rows
  BY RowsAre
<1>2. n \in Nat /\ 1 \in 1 .. Len(r) /\ n + 1 \in 1 .. Len(r) /\ n \in 0 .. Len(Rows)
  BY <1>1, RowsLength
<1>3. r[n + 1] \in FileRows
  BY <1>2, ElementOfSeq
<1>4. SubSeq(r, 1, n + 1) = SubSeq(r, 1, n) \o <<r[n + 1]>>
  <2>1. n + 1 - 1 = n
    BY <1>2
  <2>2. SubSeq(r, 1, n + 1) = SubSeq(r, 1, n + 1 - 1) \o <<r[n + 1]>>
    BY <1>2, SubSeqRecursiveSecond
  <2> QED
    BY <2>1, <2>2
<1>5. SubSeq(r, 1, n) \in Seq(FileRows)
  BY <1>1, <1>2, FirstRows
<1>6. Append(SubSeq(r, 1, n), r[n + 1]) = SubSeq(r, 1, n) \o <<r[n + 1]>>
  BY <1>3, <1>5, AppendIsConcat
<1> QED
  BY <1>1, <1>3, <1>4, <1>6

LEMMA FlushFile ==
    ASSUME IInv, Flush
    PROVE  IInv'
<1>1. TypeOK /\ GridInv /\ FileInv
  BY DEF IInv
<1>2. UNCHANGED <<propagation, runs, orbit, pc, put, message>> /\ pc = "write"
  BY DEF Flush
<1>3. Rows' = Rows /\ GridInv' /\ outcome' = outcome
  BY <1>1, <1>2, SameTrack
<1>4. /\ put \in 0 .. Len(Rows) /\ sent \in 0 .. put /\ Len(Rows) \in Nat
      /\ file \in Seq(FileRows)
  BY <1>1, RowsLength DEF TypeOK
<1>5. file = SubSeq(Rows, 1, sent) /\ message = "none" /\ (torn => file # <<>>)
  BY <1>1, <1>2 DEF FileInv
<1>6. /\ file' \in Seq(FileRows) /\ sent' \in 0 .. put /\ torn' \in BOOLEAN
      /\ file' = SubSeq(Rows, 1, sent') /\ (torn' => file' # <<>>)
  <2>1. CASE torn
    BY <1>4, <1>5, <2>1 DEF Flush
  <2>2. CASE ~torn
    <3>1. /\ file' = Append(file, Rows[sent + 1]) /\ sent' = sent + 1 /\ torn' = TRUE
          /\ sent < put
      BY <2>2 DEF Flush
    <3>2. sent \in 0 .. Len(Rows) - 1 /\ sent + 1 \in 0 .. put
      BY <1>4, <3>1
    <3>3. /\ Rows[sent + 1] \in FileRows
          /\ Append(file, Rows[sent + 1]) = SubSeq(Rows, 1, sent + 1)
      BY <1>1, <1>5, <3>2, NextRow
    <3>4. Append(file, Rows[sent + 1]) \in Seq(FileRows) /\ Append(file, Rows[sent + 1]) # <<>>
      BY <1>4, <3>3, AppendProperties
    <3> QED
      BY <3>1, <3>2, <3>3, <3>4
  <2> QED
    BY <2>1, <2>2
<1>7. broken' = broken /\ broken \in BOOLEAN
  BY <1>1 DEF Flush, TypeOK
<1>8. TypeOK'
  BY <1>1, <1>2, <1>3, <1>6, <1>7 DEF TypeOK
<1> QED
  BY <1>2, <1>3, <1>5, <1>6, <1>8 DEF IInv, FileInv, SavedUnlessDeviceFull

\* The last of the buffer completes the track.
LEMMA CloseFile ==
    ASSUME IInv, Close
    PROVE  IInv'
<1>1. TypeOK /\ GridInv /\ FileInv
  BY DEF IInv
<1>2. /\ UNCHANGED <<propagation, runs, orbit, put>> /\ pc = "write" /\ pc' = "exit 0"
      /\ put = Len(Rows) /\ message' = "saved"
  BY DEF Close
<1>3. broken' = broken /\ broken \in BOOLEAN
  BY <1>1 DEF Close, TypeOK
<1>4. Rows' = Rows /\ GridInv' /\ outcome' = outcome
  BY <1>1, <1>2, SameTrack
<1>5. /\ put \in 0 .. Len(Rows) /\ sent \in 0 .. put /\ Len(Rows) \in Nat
      /\ file \in Seq(FileRows) /\ outcome = "returned" /\ torn \in BOOLEAN
  BY <1>1, <1>2, RowsLength DEF TypeOK
<1>6. file = SubSeq(Rows, 1, sent) /\ (torn => file # <<>>)
  BY <1>1, <1>2 DEF FileInv
<1>7. CASE broken
  <2>1. file' = file /\ sent' = sent /\ torn' = torn
    BY <1>7 DEF Close
  <2>2. TypeOK'
    BY <1>1, <1>2, <1>3, <1>4, <1>5, <2>1 DEF TypeOK
  <2>3. broken' = TRUE
    BY <1>3, <1>7
  <2>4. SavedUnlessDeviceFull'
    BY <2>3 DEF SavedUnlessDeviceFull
  <2>5. FileInv'
    BY <1>2, <1>4, <1>6, <2>1, <2>4 DEF FileInv
  <2> QED
    BY <1>4, <2>2, <2>5 DEF IInv
<1>8. CASE ~broken
  <2>1. file' = file \o SubSeq(Rows, sent + 1, put) /\ torn' = FALSE /\ sent' = put
    BY <1>8 DEF Close
  <2>2. PICK r \in Seq(FileRows) : r = Rows
    BY <1>1, RowsAre
  <2>3. /\ 1 \in 1 .. Len(r) + 1 /\ sent \in 1 - 1 .. Len(r) /\ Len(r) \in sent .. Len(r)
    <3>1. PICK l \in Nat : l = Len(r) /\ l = put
      BY <1>2, <1>5, <2>2
    <3>2. sent \in 0 .. l
      BY <1>5, <3>1
    <3> QED
      BY <3>1, <3>2
  <2>4. SubSeq(r, 1, sent) \o SubSeq(r, sent + 1, Len(r)) = SubSeq(r, 1, Len(r))
    BY <2>3, ConcatAdjacentSubSeq
  <2>5. SubSeq(r, 1, Len(r)) = r
    BY SubSeqFull
  <2>6. file' = r /\ file' = SubSeq(Rows, 1, put)
    BY <1>2, <1>6, <2>1, <2>2, <2>4, <2>5
  <2>7. put \in 0 .. put
    BY <1>5
  <2>8. TypeOK'
    BY <1>1, <1>2, <1>3, <1>4, <1>5, <2>1, <2>2, <2>6, <2>7 DEF TypeOK
  <2>9. SavedUnlessDeviceFull'
    BY <1>4, <2>1, <2>2, <2>6 DEF SavedUnlessDeviceFull
  <2>10. FileInv'
    BY <1>2, <1>4, <2>1, <2>6, <2>9 DEF FileInv
  <2> QED
    BY <1>4, <2>8, <2>10 DEF IInv
<1> QED
  BY <1>7, <1>8

LEMMA InitFile == Init => IInv
<1> SUFFICES ASSUME Init PROVE IInv
  OBVIOUS
<1>1. /\ runs = 1 /\ orbit \in Orbits /\ pc = "propagate" /\ put = 0 /\ sent = 0
      /\ message = "none" /\ file = <<>>
  BY DEF Init
<1>2. broken = FALSE /\ torn = FALSE
  BY DEF Init
<1>3. PICK d \in Durations, s \in Steps : Called(d, s)
  BY DEF Init
<1>4. GridInv
  BY <1>3, CallGrid, ArgumentsAssumption
<1>5. outcome \in Outcomes
  BY <1>4 DEF GridInv
<1>6. 0 \in 0 .. Len(Rows)
  <2>1. times = <<>>
    BY <1>3 DEF Called
  <2>2. Rows = <<Header>> \o [k \in 1 .. 0 |-> Row(k)]
    BY <2>1 DEF Rows
  <2>3. [k \in 1 .. 0 |-> Row(k)] \in Seq({Header}) /\ Len([k \in 1 .. 0 |-> Row(k)]) = 0
    OBVIOUS
  <2>4. <<Header>> \in Seq({Header}) /\ Len(<<Header>>) = 1
    OBVIOUS
  <2>5. Len(Rows) = 1
    BY <2>2, <2>3, <2>4, ConcatProperties
  <2> QED
    BY <2>5
<1>7. <<>> \in Seq(FileRows) /\ OneTrack(<<>>) /\ 1 .. Len(<<>>) - 1 = {}
  BY DEF OneTrack
<1>8. TypeOK
  <2>1. runs \in 1 .. MaxRuns /\ sent \in 0 .. put /\ put \in 0 .. Len(Rows)
    BY <1>1, <1>6, MaxRunsAssumption
  <2>2. /\ pc \in {"propagate", "write", "exit 0", "exit 1", "killed"}
        /\ message \in {"none", "saved", "failed"} /\ file \in Seq(FileRows)
        /\ pc \notin {"write", "exit 0"}
    BY <1>1, <1>7
  <2>3. broken \in BOOLEAN /\ torn \in BOOLEAN
    BY <1>2
  <2> QED
    BY <1>1, <1>5, <2>1, <2>2, <2>3 DEF TypeOK
<1>9. FileInv
  BY <1>1, <1>2, <1>7 DEF FileInv, SavedUnlessDeviceFull
<1> QED
  BY <1>4, <1>8, <1>9 DEF IInv

LEMMA StepFile == IInv /\ [Next]_vars => IInv'
<1> SUFFICES ASSUME IInv, [Next]_vars PROVE IInv'
  OBVIOUS
<1>1. CASE Propagating
  BY <1>1, PropagatingFile
<1>2. CASE Open
  BY <1>2, OpenFile
<1>3. CASE Flush
  BY <1>3, FlushFile
<1>4. CASE Close
  BY <1>4, CloseFile
<1>5. CASE Rerun
  BY <1>5, RerunFile
<1>6. CASE Catch \/ Put \/ DeviceFull \/ Kill \/ Stop \/ UNCHANGED vars
  BY <1>6, KeepsFile
<1> QED
  BY <1>1, <1>2, <1>3, <1>4, <1>5, <1>6 DEF Next

-----------------------------------------------------------------------------
(* Recursive functions.                                                    *)

\* Induction on the numbers up to n, for a set of them.
LEMMA CountedUp ==
    ASSUME NEW n \in Nat, NEW S, 1 \in S,
           \A k \in 1 .. n - 1 : k \in S => k + 1 \in S
    PROVE  1 .. n \subseteq S
<1> SUFFICES ASSUME NEW m \in 1 .. n, m \notin S
             PROVE  FALSE
  OBVIOUS
<1>1. PICK T \in SUBSET Nat : T = {k \in 1 .. n : k \notin S}
  <2>1. {k \in 1 .. n : k \notin S} \in SUBSET Nat
    OBVIOUS
  <2> QED
    BY <2>1
<1>2. T # {}
  BY <1>1
<1>3. PICK k \in T : \A j \in T : k <= j
  BY <1>2, MinimumExists
<1>4. k \in 1 .. n /\ k \notin S /\ k # 1
  BY <1>1, <1>3
<1>5. k - 1 \in 1 .. n - 1 /\ k - 1 + 1 = k
  BY <1>4
<1>6. k - 1 \notin S
  BY <1>4, <1>5
<1>7. k - 1 \in T
  BY <1>1, <1>5, <1>6
<1> QED
  BY <1>3, <1>4, <1>7

\* f begins with base and gets each further value from the one before it.
Unrolls(f, n, base, next) ==
    \A k \in 1 .. n : f[k] = IF k = 1 THEN base ELSE next[<<k, f[k - 1]>>]

LEMMA UnrollingExists ==
    ASSUME NEW n \in Nat, NEW T, NEW base \in T, NEW next \in [(2 .. n) \X T -> T]
    PROVE  \E f \in [1 .. n -> T] : Unrolls(f, n, base, next)
<1> USE DEF Unrolls
<1> DEFINE S == {m \in 1 .. n : \E f \in [1 .. m -> T] : Unrolls(f, m, base, next)}
<1>1. CASE n = 0
  <2>1. [k \in 1 .. n |-> base] \in [1 .. n -> T] /\ 1 .. n = {}
    BY <1>1
  <2> QED
    BY <2>1
<1>2. CASE n # 0
  <2>1. 1 \in S
    <3>1. [k \in 1 .. 1 |-> base] \in [1 .. 1 -> T] /\ Unrolls([k \in 1 .. 1 |-> base], 1, base, next)
      OBVIOUS
    <3>2. 1 \in 1 .. n
      BY <1>2
    <3> QED
      BY <3>1, <3>2
  <2>2. ASSUME NEW m \in 1 .. n - 1, m \in S
        PROVE  m + 1 \in S
    <3>1. PICK f \in [1 .. m -> T] : Unrolls(f, m, base, next)
      BY <2>2
    <3>2. PICK g : g = [k \in 1 .. m + 1 |-> IF k = m + 1 THEN next[<<m + 1, f[m]>>] ELSE f[k]]
      OBVIOUS
    <3>3. f[m] \in T /\ <<m + 1, f[m]>> \in (2 .. n) \X T
      BY <3>1
    <3>4. next[<<m + 1, f[m]>>] \in T
      BY <3>3
    <3>5. g \in [1 .. m + 1 -> T]
      BY <3>1, <3>2, <3>4
    <3>6. ASSUME NEW k \in 1 .. m + 1
          PROVE  g[k] = IF k = 1 THEN base ELSE next[<<k, g[k - 1]>>]
      <4>1. CASE k = m + 1
        <5>1. k # 1 /\ k - 1 = m /\ m \in 1 .. m + 1 /\ m # m + 1
          BY <4>1
        <5>2. g[k] = next[<<m + 1, f[m]>>] /\ g[m] = f[m]
          BY <3>2, <4>1, <5>1
        <5> QED
          BY <4>1, <5>1, <5>2
      <4>2. CASE k # m + 1
        <5>1. k \in 1 .. m /\ (k # 1 => k - 1 \in 1 .. m)
          BY <4>2
        <5>2. g[k] = f[k] /\ (k # 1 => g[k - 1] = f[k - 1])
          BY <3>2, <5>1
        <5> QED
          BY <3>1, <5>1, <5>2
      <4> QED
        BY <4>1, <4>2
    <3>7. m + 1 \in 1 .. n
      BY <2>2
    <3> QED
      BY <3>5, <3>6, <3>7
  <2>3. 1 .. n \subseteq S
    <3> HIDE DEF S
    <3> QED
      BY <2>1, <2>2, CountedUp
  <2>4. n \in S
    BY <1>2, <2>3
  <2> QED
    BY <2>4
<1> QED
  BY <1>1, <1>2

-----------------------------------------------------------------------------
(* Segments, one after another.                                            *)

Concat(s, t) == s \o t

LEMMA ConcatType ==
    ASSUME NEW S, NEW s \in Seq(S), NEW t \in Seq(S)
    PROVE  Concat(s, t) \in Seq(S)
  BY ConcatProperties DEF Concat

LEMMA ConcatTwice ==
    ASSUME NEW S, NEW s \in Seq(S), NEW t \in Seq(S), NEW u \in Seq(S)
    PROVE  Concat(Concat(s, t), u) = Concat(s, Concat(t, u))
  BY SMT DEF Concat

\* f tells what comes of the first segments of ss.
Joins(f, ss) ==
    \A i \in 1 .. Len(ss) : f[i] = IF i = 1 THEN ss[i] ELSE Concat(f[i - 1], ss[i])

LEMMA FlattenParts ==
    ASSUME NEW P, NEW ss \in Seq(Seq(P)), ss # <<>>
    PROVE  \E f \in [1 .. Len(ss) -> Seq(P)] : Joins(f, ss) /\ FlattenSeq(ss) = f[Len(ss)]
<1>1. PICK n \in Nat \ {0} : n = Len(ss)
  BY EmptySeq
<1>2. PICK T : T = Seq(P)
  OBVIOUS
<1>3. ss \in Seq(T) /\ \A i \in 1 .. n : ss[i] \in T
  BY <1>1, <1>2
<1>4. \A i \in 2 .. n, s \in T : Concat(s, ss[i]) \in T
  BY <1>1, <1>2, <1>3, ConcatType
<1>5. PICK next \in [(2 .. n) \X T -> T] :
          \A i \in 2 .. n, s \in T : next[<<i, s>>] = Concat(s, ss[i])
  <2>1. [x \in (2 .. n) \X T |-> Concat(x[2], ss[x[1]])] \in [(2 .. n) \X T -> T]
    BY <1>4
  <2> QED
    BY <2>1
<1>6. PICK base \in T : base = ss[1]
  BY <1>1, <1>3
<1>7. PICK f \in [1 .. n -> T] : Unrolls(f, n, base, next)
  <2>1. n \in Nat
    BY <1>1
  <2> QED
    BY <2>1, UnrollingExists
<1> DEFINE Flatten(g) == [i \in 1 .. Len(ss) |-> IF i = 1 THEN ss[i] ELSE Concat(g[i - 1], ss[i])]
<1>8. \A i \in 1 .. n : f[i] = IF i = 1 THEN ss[i] ELSE Concat(f[i - 1], ss[i])
  <2>1. ASSUME NEW i \in 1 .. n, i # 1
        PROVE  f[i] = Concat(f[i - 1], ss[i])
    <3>1. i \in 2 .. n /\ i - 1 \in 1 .. n
      BY <2>1
    <3>2. f[i - 1] \in T
      BY <1>7, <3>1
    <3> QED
      BY <1>5, <1>7, <2>1, <3>1, <3>2 DEF Unrolls
  <2>2. 1 \in 1 .. n => f[1] = ss[1]
    BY <1>6, <1>7 DEF Unrolls
  <2> QED
    BY <2>1, <2>2
<1>9. f = Flatten(f)
  BY <1>1, <1>7, <1>8
<1>10. PICK g : g = CHOOSE h : h = Flatten(h)
  OBVIOUS
<1>11. g = Flatten(g)
  BY <1>9, <1>10
<1>12. FlattenSeq(ss) = g[Len(ss)]
  BY <1>1, <1>10 DEF FlattenSeq, Concat
<1>13. 1 .. n \subseteq {i \in 1 .. n : g[i] = f[i]}
  <2>1. 1 \in {i \in 1 .. n : g[i] = f[i]}
    <3>1. 1 \in 1 .. n /\ 1 \in 1 .. Len(ss)
      BY <1>1
    <3>2. g[1] = ss[1]
      BY <1>11, <3>1
    <3> QED
      BY <1>8, <3>1, <3>2
  <2>2. ASSUME NEW i \in 1 .. n - 1, g[i] = f[i]
        PROVE  g[i + 1] = f[i + 1]
    <3>1. PICK j \in 1 .. n : j = i + 1 /\ j # 1 /\ j - 1 = i
      BY <1>1
    <3>2. g[j] = Concat(g[j - 1], ss[j])
      BY <1>1, <1>11, <3>1
    <3>3. f[j] = Concat(f[j - 1], ss[j])
      BY <1>8, <3>1
    <3> QED
      BY <2>2, <3>1, <3>2, <3>3
  <2>3. \A i \in 1 .. n - 1 : i + 1 \in 1 .. n
    BY <1>1
  <2> QED
    BY <2>1, <2>2, <2>3, CountedUp
<1>14. FlattenSeq(ss) = f[Len(ss)]
  <2>1. n \in 1 .. n
    BY <1>1
  <2>2. g[n] = f[n]
    BY <1>13, <2>1
  <2> QED
    BY <1>1, <1>12, <2>2
<1>15. f \in [1 .. Len(ss) -> Seq(P)]
  BY <1>1, <1>2, <1>7
<1>16. Joins(f, ss)
  BY <1>1, <1>8 DEF Joins
<1> QED
  BY <1>14, <1>15, <1>16

\* What partial results end with is what FlattenSeq returns.
LEMMA FlattenIs ==
    ASSUME NEW P, NEW ss \in Seq(Seq(P)), ss # <<>>,
           NEW f \in [1 .. Len(ss) -> Seq(P)], Joins(f, ss)
    PROVE  FlattenSeq(ss) = f[Len(ss)]
<1>1. PICK n \in Nat \ {0} : n = Len(ss)
  BY EmptySeq
<1>2. PICK g \in [1 .. n -> Seq(P)] :
          /\ \A i \in 1 .. n : g[i] = IF i = 1 THEN ss[i] ELSE Concat(g[i - 1], ss[i])
          /\ FlattenSeq(ss) = g[n]
  BY <1>1, FlattenParts DEF Joins
<1> DEFINE Same == {i \in 1 .. n : g[i] = f[i]}
<1> USE DEF Joins
<1>3. 1 \in Same
  <2>1. 1 \in 1 .. n
    BY <1>1
  <2> QED
    BY <1>1, <1>2, <2>1
<1>4. ASSUME NEW i \in 1 .. n - 1, i \in Same
      PROVE  i + 1 \in Same
  <2>1. PICK j \in 1 .. n : j = i + 1 /\ j # 1 /\ j - 1 = i
    BY <1>1
  <2>2. g[j] = Concat(g[j - 1], ss[j]) /\ f[j] = Concat(f[j - 1], ss[j])
    BY <1>1, <1>2, <2>1
  <2> QED
    BY <1>4, <2>1, <2>2
<1>5. 1 .. n \subseteq Same
  <2> HIDE DEF Same
  <2> QED
    BY <1>3, <1>4, CountedUp
<1>6. n \in 1 .. n
  BY <1>1
<1> QED
  BY <1>1, <1>2, <1>5, <1>6

LEMMA FrontLast ==
    ASSUME NEW S, NEW s \in Seq(S), s # <<>>
    PROVE  /\ Front(s) \in Seq(S) /\ Len(Front(s)) = Len(s) - 1
           /\ \A i \in 1 .. Len(s) - 1 : Front(s)[i] = s[i]
           /\ Last(s) \in S
<1>1. PICK n \in Nat \ {0} : n = Len(s)
  BY EmptySeq
<1>2. \A i \in 1 .. n : s[i] \in S
  BY <1>1, ElementOfSeq
<1>3. 1 \in Int /\ n - 1 \in Int /\ n \in 1 .. n
  BY <1>1
<1>4. /\ SubSeq(s, 1, n - 1) \in Seq(S)
      /\ Len(SubSeq(s, 1, n - 1)) = IF 1 <= n - 1 THEN n - 1 - 1 + 1 ELSE 0
      /\ \A i \in 1 .. n - 1 - 1 + 1 : SubSeq(s, 1, n - 1)[i] = s[1 + i - 1]
  <2>1. \A i \in 1 .. n - 1 : s[i] \in S
    BY <1>1, <1>2
  <2> QED
    BY <1>3, <2>1, SubSeqProperties
<1>5. Len(SubSeq(s, 1, n - 1)) = n - 1
  BY <1>1, <1>4
<1>6. \A i \in 1 .. n - 1 : SubSeq(s, 1, n - 1)[i] = s[i]
  <2>1. \A i \in 1 .. n - 1 : i \in 1 .. n - 1 - 1 + 1 /\ 1 + i - 1 = i
    BY <1>1
  <2> QED
    BY <1>4, <2>1
<1> QED
  BY <1>1, <1>2, <1>3, <1>4, <1>5, <1>6 DEF Front, Last

\* r is ss with one more element.
Longer(r, ss, s) ==
    /\ r = Append(ss, s) /\ r # <<>> /\ Len(r) = Len(ss) + 1 /\ r[Len(ss) + 1] = s
    /\ \A i \in 1 .. Len(ss) : r[i] = ss[i]

LEMMA LongerExists ==
    ASSUME NEW S, NEW ss \in Seq(S), NEW s \in S
    PROVE  \E r \in Seq(S) : Longer(r, ss, s)
<1>1. /\ Append(ss, s) \in Seq(S) /\ Append(ss, s) # <<>>
      /\ Len(Append(ss, s)) = Len(ss) + 1 /\ Append(ss, s)[Len(ss) + 1] = s
      /\ \A i \in 1 .. Len(ss) : Append(ss, s)[i] = ss[i]
  BY AppendProperties
<1> QED
  BY <1>1 DEF Longer

\* r is ss with another last element.
Changed(r, ss, t) ==
    /\ r = Append(Front(ss), t) /\ r # <<>> /\ Len(r) = Len(ss) /\ r[Len(ss)] = t
    /\ \A i \in 1 .. Len(ss) - 1 : r[i] = ss[i]

LEMMA ChangedExists ==
    ASSUME NEW S, NEW ss \in Seq(S), ss # <<>>, NEW t \in S
    PROVE  \E r \in Seq(S) : Changed(r, ss, t)
<1>1. PICK front \in Seq(S) :
          /\ front = Front(ss) /\ Len(front) = Len(ss) - 1
          /\ \A i \in 1 .. Len(ss) - 1 : front[i] = ss[i]
  BY FrontLast
<1>2. PICK r \in Seq(S) : Longer(r, front, t)
  BY LongerExists
<1>3. Len(ss) \in Nat
  OBVIOUS
<1>4. Len(front) + 1 = Len(ss)
  BY <1>1, <1>3
<1>5. \A i \in 1 .. Len(ss) - 1 : r[i] = ss[i]
  BY <1>1, <1>2 DEF Longer
<1> QED
  BY <1>1, <1>2, <1>4, <1>5 DEF Longer, Changed

\* A new segment goes to the end of the line.
LEMMA FlattenLonger ==
    ASSUME NEW P, NEW ss \in Seq(Seq(P)), ss # <<>>, NEW s \in Seq(P),
           NEW r \in Seq(Seq(P)), Longer(r, ss, s)
    PROVE  FlattenSeq(r) = Concat(FlattenSeq(ss), s)
<1>1. PICK n \in Nat \ {0} : n = Len(ss)
  BY EmptySeq
<1>2. PICK f \in [1 .. n -> Seq(P)] : Joins(f, ss) /\ FlattenSeq(ss) = f[n]
  BY <1>1, FlattenParts
<1>3. /\ r # <<>> /\ Len(r) = n + 1 /\ r[n + 1] = s
      /\ \A i \in 1 .. n : r[i] = ss[i]
  BY <1>1 DEF Longer
<1>4. PICK g : g = [i \in 1 .. n + 1 |-> IF i = n + 1 THEN Concat(f[n], s) ELSE f[i]]
  OBVIOUS
<1>5. Concat(f[n], s) \in Seq(P)
  <2>1. n \in 1 .. n
    OBVIOUS
  <2>2. f[n] \in Seq(P)
    BY <2>1
  <2> QED
    BY <2>2, ConcatType
<1>6. g \in [1 .. Len(r) -> Seq(P)]
  BY <1>1, <1>3, <1>4, <1>5
<1>7. ASSUME NEW i \in 1 .. Len(r)
      PROVE  g[i] = IF i = 1 THEN r[i] ELSE Concat(g[i - 1], r[i])
  <2>1. CASE i = n + 1
    <3>1. i # 1 /\ i - 1 = n /\ n \in 1 .. n + 1 /\ n # n + 1
      BY <1>1, <2>1
    <3>2. g[i] = Concat(f[n], s) /\ g[n] = f[n]
      BY <1>3, <1>4, <2>1, <3>1
    <3> QED
      BY <1>3, <2>1, <3>1, <3>2
  <2>2. CASE i # n + 1
    <3>1. i \in 1 .. n /\ (i # 1 => i - 1 \in 1 .. n /\ i - 1 # n + 1 /\ i - 1 \in 1 .. n + 1)
      BY <1>1, <1>3, <2>2
    <3>2. g[i] = f[i] /\ r[i] = ss[i] /\ (i # 1 => g[i - 1] = f[i - 1])
      BY <1>3, <1>4, <2>2, <3>1
    <3>3. f[i] = IF i = 1 THEN ss[i] ELSE Concat(f[i - 1], ss[i])
      BY <1>1, <1>2, <3>1 DEF Joins
    <3> QED
      BY <3>1, <3>2, <3>3
  <2> QED
    BY <2>1, <2>2
<1>8. FlattenSeq(r) = g[Len(r)]
  <2>1. Joins(g, r)
    BY <1>7 DEF Joins
  <2> QED
    BY <1>3, <1>6, <2>1, FlattenIs
<1>9. g[n + 1] = Concat(f[n], s)
  BY <1>1, <1>4
<1> QED
  BY <1>2, <1>3, <1>8, <1>9

\* What is added to the last segment goes to the end of the line.
LEMMA FlattenChanged ==
    ASSUME NEW P, NEW ss \in Seq(Seq(P)), ss # <<>>, NEW s \in Seq(P), s = ss[Len(ss)],
           NEW u \in Seq(P), NEW t \in Seq(P), t = Concat(s, u),
           NEW r \in Seq(Seq(P)), Changed(r, ss, t)
    PROVE  FlattenSeq(r) = Concat(FlattenSeq(ss), u)
<1>1. PICK n \in Nat \ {0} : n = Len(ss)
  BY EmptySeq
<1>2. PICK f \in [1 .. n -> Seq(P)] : Joins(f, ss) /\ FlattenSeq(ss) = f[n]
  BY <1>1, FlattenParts
<1>3. /\ r # <<>> /\ Len(r) = n /\ r[n] = t
      /\ \A i \in 1 .. n - 1 : r[i] = ss[i]
  BY <1>1 DEF Changed
<1>4. PICK g : g = [i \in 1 .. n |-> IF i = n THEN Concat(f[n], u) ELSE f[i]]
  OBVIOUS
<1>5. f[n] \in Seq(P) /\ Concat(f[n], u) \in Seq(P)
  <2>1. n \in 1 .. n
    OBVIOUS
  <2>2. f[n] \in Seq(P)
    BY <2>1
  <2> QED
    BY <2>2, ConcatType
<1>6. g \in [1 .. Len(r) -> Seq(P)]
  BY <1>1, <1>3, <1>4, <1>5
<1>7. \A i \in 1 .. n : f[i] = IF i = 1 THEN ss[i] ELSE Concat(f[i - 1], ss[i])
  BY <1>1, <1>2 DEF Joins
<1>8. ASSUME NEW i \in 1 .. Len(r)
      PROVE  g[i] = IF i = 1 THEN r[i] ELSE Concat(g[i - 1], r[i])
  <2>1. CASE i = n /\ n = 1
    <3>1. f[n] = s /\ g[n] = Concat(f[n], u)
      BY <1>1, <1>4, <1>7, <2>1
    <3> QED
      BY <1>3, <2>1, <3>1
  <2>2. CASE i = n /\ n # 1
    <3>1. n - 1 \in 1 .. n /\ n - 1 # n /\ n \in 1 .. n
      BY <1>1, <2>2
    <3>2. PICK q \in Seq(P) : q = f[n - 1]
      BY <3>1
    <3>3. f[n] = Concat(q, s) /\ g[n - 1] = q /\ g[n] = Concat(f[n], u)
      BY <1>1, <1>4, <1>7, <2>2, <3>1, <3>2
    <3>4. Concat(Concat(q, s), u) = Concat(q, t)
      <4>1. Concat(Concat(q, s), u) = Concat(q, Concat(s, u))
        BY ConcatTwice
      <4> QED
        BY <4>1
    <3> QED
      BY <1>3, <2>2, <3>3, <3>4
  <2>3. CASE i # n
    <3>1. i \in 1 .. n /\ i \in 1 .. n - 1 /\ (i # 1 => i - 1 \in 1 .. n /\ i - 1 # n)
      BY <1>1, <1>3, <2>3
    <3>2. g[i] = f[i] /\ r[i] = ss[i] /\ (i # 1 => g[i - 1] = f[i - 1])
      BY <1>3, <1>4, <2>3, <3>1
    <3> QED
      BY <1>7, <3>1, <3>2
  <2> QED
    BY <2>1, <2>2, <2>3
<1>9. FlattenSeq(r) = g[Len(r)]
  <2>1. Joins(g, r)
    BY <1>8 DEF Joins
  <2> QED
    BY <1>3, <1>6, <2>1, FlattenIs
<1>10. g[n] = Concat(f[n], u)
  BY <1>1, <1>4
<1> QED
  BY <1>2, <1>3, <1>9, <1>10

LEMMA FlattenOne ==
    ASSUME NEW P, NEW s \in Seq(P)
    PROVE  FlattenSeq(<<s>>) = s
<1>1. PICK ss \in Seq(Seq(P)) : ss = <<s>> /\ ss # <<>> /\ Len(ss) = 1 /\ ss[1] = s
  <2>1. <<s>> \in Seq(Seq(P)) /\ <<s>> # <<>> /\ Len(<<s>>) = 1 /\ <<s>>[1] = s
    OBVIOUS
  <2> QED
    BY <2>1
<1>2. PICK f \in [1 .. 1 -> Seq(P)] : f[1] = ss[1] /\ FlattenSeq(ss) = f[1]
  <2>1. PICK f \in [1 .. Len(ss) -> Seq(P)] : Joins(f, ss) /\ FlattenSeq(ss) = f[Len(ss)]
    BY <1>1, FlattenParts
  <2>2. f \in [1 .. 1 -> Seq(P)] /\ f[1] = ss[1] /\ FlattenSeq(ss) = f[1]
    BY <1>1, <2>1 DEF Joins
  <2> QED
    BY <2>2
<1> QED
  BY <1>1, <1>2

-----------------------------------------------------------------------------
(* The segments on the map.                                                *)

\* What Split has made of the first n points.
Parts(ss, points, n) ==
    /\ ss # <<>>
    /\ FlattenSeq(ss) = SubSeq(points, 1, n)
    /\ \A i \in 1 .. Len(ss) :
           /\ ss[i] # <<>>
           /\ \A k \in 1 .. Len(ss[i]) - 1 : ~Crosses(ss[i][k], ss[i][k + 1])
    /\ \A i \in 1 .. Len(ss) - 1 : Crosses(Last(ss[i]), Head(ss[i + 1]))
    /\ Last(Last(ss)) = points[n]

LEMMA OneMorePoint ==
    ASSUME NEW P, NEW points \in Seq(P), NEW n \in 1 .. Len(points) - 1
    PROVE  /\ points[n + 1] \in P /\ <<points[n + 1]>> \in Seq(P)
           /\ SubSeq(points, 1, n) \in Seq(P)
           /\ SubSeq(points, 1, n + 1) = Concat(SubSeq(points, 1, n), <<points[n + 1]>>)
<1>1. 1 \in 1 .. Len(points) /\ n + 1 \in 1 .. Len(points) /\ n + 1 - 1 = n
  OBVIOUS
<1>2. SubSeq(points, 1, n + 1) = SubSeq(points, 1, n + 1 - 1) \o <<points[n + 1]>>
  BY <1>1, SubSeqRecursiveSecond
<1>3. points[n + 1] \in P
  BY <1>1, ElementOfSeq
<1>4. SubSeq(points, 1, n) \in Seq(P)
  OBVIOUS
<1> QED
  BY <1>1, <1>2, <1>3, <1>4 DEF Concat

LEMMA FirstPoint ==
    ASSUME NEW P, NEW points \in Seq(P), points # <<>>
    PROVE  SubSeq(points, 1, 1) = <<points[1]>>
<1>1. Len(points) \in Nat \ {0}
  BY EmptySeq
<1>2. 1 \in 1 .. Len(points) /\ 1 \in 1 .. 1
  BY <1>1
<1>3. \A i \in 1 .. 1 : points[i] \in P
  BY <1>2, ElementOfSeq
<1>4. PICK s \in Seq(P) : s = SubSeq(points, 1, 1) /\ Len(s) = 1 /\ s[1] = points[1]
  <2>1. PICK s : s = SubSeq(points, 1, 1)
    OBVIOUS
  <2>2. s \in Seq(P) /\ Len(s) = 1 - 1 + 1 /\ \A i \in 1 .. 1 - 1 + 1 : s[i] = points[1 + i - 1]
    BY <1>3, <2>1, SubSeqProperties
  <2>3. 1 - 1 + 1 = 1 /\ 1 \in 1 .. 1 /\ 1 + 1 - 1 = 1
    OBVIOUS
  <2>4. s[1] = points[1 + 1 - 1]
    BY <2>2, <2>3
  <2> QED
    BY <2>1, <2>2, <2>3, <2>4
<1>5. PICK t \in Seq(P) : t = <<points[1]>> /\ Len(t) = 1 /\ t[1] = points[1]
  <2>1. PICK p \in P : p = points[1]
    BY <1>2, ElementOfSeq
  <2>2. <<p>> \in Seq(P) /\ Len(<<p>>) = 1 /\ <<p>>[1] = p
    OBVIOUS
  <2> QED
    BY <2>1, <2>2
<1>6. \A i \in 1 .. Len(s) : s[i] = t[i]
  BY <1>4, <1>5
<1>7. s = t
  BY <1>4, <1>5, <1>6, SeqEqual
<1> QED
  BY <1>4, <1>5, <1>7

LEMMA HeadIs ==
    ASSUME NEW S, NEW s \in Seq(S), s # <<>>
    PROVE  Head(s) = s[1]
  OBVIOUS

\* A point on the other side of the dateline begins a segment.
LEMMA ExtendAcross ==
    ASSUME NEW P, NEW points \in Seq(P), NEW n \in 1 .. Len(points) - 1,
           NEW ss \in Seq(Seq(P)), Parts(ss, points, n), Crosses(points[n], points[n + 1]),
           NEW s \in Seq(P), s = <<points[n + 1]>>,
           NEW r \in Seq(Seq(P)), Longer(r, ss, s)
    PROVE  Parts(r, points, n + 1)
<1>1. PICK l \in Nat \ {0} : l = Len(ss)
  BY EmptySeq DEF Parts
<1>2. s # <<>> /\ Len(s) = 1 /\ s[1] = points[n + 1] /\ Head(s) = points[n + 1]
  OBVIOUS
<1>3. /\ r # <<>> /\ Len(r) = l + 1 /\ r[l + 1] = s
      /\ \A i \in 1 .. l : r[i] = ss[i]
  BY <1>1 DEF Longer
<1>4. FlattenSeq(r) = SubSeq(points, 1, n + 1)
  <2>1. FlattenSeq(r) = Concat(FlattenSeq(ss), s)
    BY FlattenLonger DEF Parts
  <2> QED
    BY <2>1, OneMorePoint DEF Parts
<1>5. ASSUME NEW i \in 1 .. Len(r)
      PROVE  /\ r[i] # <<>>
             /\ \A k \in 1 .. Len(r[i]) - 1 : ~Crosses(r[i][k], r[i][k + 1])
  <2>1. CASE i = l + 1
    <3>1. r[i] = s /\ 1 .. Len(s) - 1 = {}
      BY <1>2, <1>3, <2>1
    <3> QED
      BY <1>2, <3>1
  <2>2. CASE i # l + 1
    <3>1. i \in 1 .. l
      BY <1>1, <1>3, <2>2
    <3> QED
      BY <1>1, <1>3, <3>1 DEF Parts
  <2> QED
    BY <2>1, <2>2
<1>6. ASSUME NEW i \in 1 .. Len(r) - 1
      PROVE  Crosses(Last(r[i]), Head(r[i + 1]))
  <2>1. i \in 1 .. l
    BY <1>1, <1>3
  <2>2. CASE i = l
    <3>1. r[i] = Last(ss) /\ r[i + 1] = s
      BY <1>1, <1>3, <2>1, <2>2 DEF Last
    <3> QED
      BY <1>2, <3>1 DEF Parts
  <2>3. CASE i # l
    <3>1. i \in 1 .. Len(ss) - 1 /\ i + 1 \in 1 .. l
      BY <1>1, <2>1, <2>3
    <3> QED
      BY <1>3, <2>1, <3>1 DEF Parts
  <2> QED
    BY <2>2, <2>3
<1>7. Last(Last(r)) = points[n + 1]
  BY <1>2, <1>3 DEF Last
<1> QED
  BY <1>3, <1>4, <1>5, <1>6, <1>7 DEF Parts

\* A point on this side of it belongs to the last segment.
LEMMA ExtendWithin ==
    ASSUME NEW P, NEW points \in Seq(P), NEW n \in 1 .. Len(points) - 1,
           NEW ss \in Seq(Seq(P)), Parts(ss, points, n), ~Crosses(points[n], points[n + 1]),
           NEW s \in Seq(P), s = Last(ss),
           NEW t \in Seq(P), Longer(t, s, points[n + 1]),
           NEW r \in Seq(Seq(P)), Changed(r, ss, t)
    PROVE  Parts(r, points, n + 1)
<1>1. PICK l \in Nat \ {0} : l = Len(ss)
  BY EmptySeq DEF Parts
<1>2. l \in 1 .. l /\ s = ss[l] /\ s # <<>>
  BY <1>1 DEF Parts, Last
<1>3. PICK m \in Nat \ {0} : m = Len(s)
  BY <1>2, EmptySeq
<1>4. /\ t # <<>> /\ Len(t) = m + 1 /\ t[m + 1] = points[n + 1]
      /\ \A k \in 1 .. m : t[k] = s[k]
  BY <1>3 DEF Longer
<1>5. /\ r # <<>> /\ Len(r) = l /\ r[l] = t
      /\ \A i \in 1 .. l - 1 : r[i] = ss[i]
  BY <1>1 DEF Changed
<1>6. FlattenSeq(r) = SubSeq(points, 1, n + 1)
  <2>1. PICK u \in Seq(P) : u = <<points[n + 1]>>
    BY OneMorePoint
  <2>2. t = Concat(s, u)
    <3>1. points[n + 1] \in P
      BY OneMorePoint
    <3>2. Append(s, points[n + 1]) = s \o <<points[n + 1]>>
      BY <3>1, AppendIsConcat
    <3> QED
      BY <2>1, <3>2 DEF Longer, Concat
  <2>3. FlattenSeq(r) = Concat(FlattenSeq(ss), u)
    <3>1. ss # <<>> /\ s = ss[Len(ss)]
      BY <1>1, <1>2 DEF Parts
    <3> QED
      BY <2>2, <3>1, FlattenChanged
  <2> QED
    BY <2>1, <2>3, OneMorePoint DEF Parts
<1>7. ASSUME NEW k \in 1 .. m
      PROVE  ~Crosses(t[k], t[k + 1])
  <2>1. CASE k = m
    <3>1. t[k] = points[n] /\ t[k + 1] = points[n + 1]
      BY <1>1, <1>2, <1>3, <1>4, <2>1 DEF Parts, Last
    <3> QED
      BY <3>1
  <2>2. CASE k # m
    <3>1. k \in 1 .. m - 1 /\ k + 1 \in 1 .. m
      BY <1>3, <2>2
    <3>2. ~Crosses(s[k], s[k + 1])
      BY <1>1, <1>2, <1>3, <3>1 DEF Parts
    <3> QED
      BY <1>4, <3>1, <3>2
  <2> QED
    BY <2>1, <2>2
<1>8. ASSUME NEW i \in 1 .. Len(r)
      PROVE  /\ r[i] # <<>>
             /\ \A k \in 1 .. Len(r[i]) - 1 : ~Crosses(r[i][k], r[i][k + 1])
  <2>1. CASE i = l
    <3>1. r[i] = t /\ Len(t) - 1 = m
      BY <1>3, <1>4, <1>5, <2>1
    <3> QED
      BY <1>4, <1>7, <3>1
  <2>2. CASE i # l
    <3>1. i \in 1 .. l - 1 /\ i \in 1 .. Len(ss)
      BY <1>1, <1>5, <2>2
    <3> QED
      BY <1>5, <3>1 DEF Parts
  <2> QED
    BY <2>1, <2>2
<1>9. ASSUME NEW i \in 1 .. Len(r) - 1
      PROVE  Crosses(Last(r[i]), Head(r[i + 1]))
  <2>1. i \in 1 .. l - 1 /\ i \in 1 .. Len(ss) - 1
    BY <1>1, <1>5
  <2>2. Head(r[i + 1]) = Head(ss[i + 1])
    <3>1. CASE i + 1 = l
      <4>1. Head(t) = t[1] /\ Head(s) = s[1]
        BY <1>2, <1>4, HeadIs
      <4>2. 1 \in 1 .. m
        BY <1>3
      <4>3. t[1] = s[1]
        BY <1>4, <4>2
      <4> QED
        BY <1>2, <1>5, <3>1, <4>1, <4>3
    <3>2. CASE i + 1 # l
      <4>1. i + 1 \in 1 .. l - 1
        BY <2>1, <3>2
      <4> QED
        BY <1>5, <4>1
    <3> QED
      BY <3>1, <3>2
  <2>3. r[i] = ss[i] /\ Crosses(Last(ss[i]), Head(ss[i + 1]))
    BY <1>5, <2>1 DEF Parts
  <2> QED
    BY <2>2, <2>3
<1>10. Last(Last(r)) = points[n + 1]
  BY <1>4, <1>5 DEF Last
<1> QED
  BY <1>5, <1>6, <1>8, <1>9, <1>10 DEF Parts

LEMMA ExtendParts ==
    ASSUME NEW P, NEW points \in Seq(P), NEW n \in 1 .. Len(points) - 1,
           NEW ss \in Seq(Seq(P)), Parts(ss, points, n)
    PROVE  \E r \in Seq(Seq(P)) :
               r = Extend(ss, points[n], points[n + 1]) /\ Parts(r, points, n + 1)
<1>1. PICK T : T = Seq(P)
  OBVIOUS
<1>2. ss \in Seq(T) /\ ss # <<>>
  BY <1>1 DEF Parts
<1>3. CASE Crosses(points[n], points[n + 1])
  <2>1. PICK s \in T : s = <<points[n + 1]>>
    BY <1>1, OneMorePoint
  <2>2. PICK r \in Seq(T) : Longer(r, ss, s)
    BY <1>2, LongerExists
  <2>3. Parts(r, points, n + 1)
    BY <1>1, <1>3, <2>1, <2>2, ExtendAcross
  <2>4. r = Extend(ss, points[n], points[n + 1])
    BY <1>3, <2>1, <2>2 DEF Longer, Extend
  <2> QED
    BY <1>1, <2>3, <2>4
<1>4. CASE ~Crosses(points[n], points[n + 1])
  <2>1. PICK s \in T : s = Last(ss)
    BY <1>2, FrontLast
  <2>2. PICK t \in Seq(P) : Longer(t, s, points[n + 1])
    BY <1>1, OneMorePoint, LongerExists
  <2>3. PICK r \in Seq(T) : Changed(r, ss, t)
    BY <1>1, <1>2, ChangedExists
  <2>4. Parts(r, points, n + 1)
    BY <1>1, <1>4, <2>1, <2>2, <2>3, ExtendWithin
  <2>5. r = Extend(ss, points[n], points[n + 1])
    BY <1>4, <2>1, <2>2, <2>3 DEF Longer, Changed, Extend
  <2> QED
    BY <1>1, <2>4, <2>5
<1> QED
  BY <1>3, <1>4

LEMMA ExtendType ==
    ASSUME NEW P, NEW ss \in Seq(Seq(P)), ss # <<>>, NEW prev \in P, NEW curr \in P
    PROVE  Extend(ss, prev, curr) \in Seq(Seq(P)) /\ Extend(ss, prev, curr) # <<>>
<1>1. PICK T : T = Seq(P)
  OBVIOUS
<1>2. ss \in Seq(T) /\ <<curr>> \in T
  BY <1>1
<1>3. PICK r \in Seq(T) : Longer(r, ss, <<curr>>)
  BY <1>2, LongerExists
<1>4. PICK s \in T : s = Last(ss)
  BY <1>2, FrontLast
<1>5. PICK t \in T : Longer(t, s, curr)
  BY <1>1, LongerExists
<1>6. PICK q \in Seq(T) : Changed(q, ss, t)
  BY <1>2, ChangedExists
<1> QED
  BY <1>1, <1>3, <1>4, <1>5, <1>6 DEF Extend, Longer, Changed

LEMMA SplitParts ==
    ASSUME NEW P, NEW points \in Seq(P), points # <<>>
    PROVE  Split(points) \in Seq(Seq(P)) /\ Parts(Split(points), points, Len(points))
<1>1. PICK N \in Nat \ {0} : N = Len(points)
  BY EmptySeq
<1>2. \A n \in 1 .. N : points[n] \in P
  BY <1>1, ElementOfSeq
<1> DEFINE T == Seq(Seq(P)) \ {<<>>}
           Base == <<<<points[1]>>>>
           Again(f) == [n \in 1 .. Len(points) |->
                            IF n = 1 THEN Base
                            ELSE Extend(f[n - 1], points[n - 1], points[n])]
<1>3. PICK base \in T : base = Base
  <2>1. PICK p \in P : p = points[1]
    BY <1>1, <1>2
  <2>2. <<<<p>>>> \in Seq(Seq(P)) /\ <<<<p>>>> # <<>>
    OBVIOUS
  <2> QED
    BY <2>1, <2>2
<1>4. PICK next \in [(2 .. N) \X T -> T] :
          \A n \in 2 .. N, ss \in T : next[<<n, ss>>] = Extend(ss, points[n - 1], points[n])
  <2>1. ASSUME NEW n \in 2 .. N, NEW ss \in T
        PROVE  Extend(ss, points[n - 1], points[n]) \in T
    <3>1. points[n - 1] \in P /\ points[n] \in P
      BY <1>1, <1>2
    <3> QED
      BY <3>1, ExtendType
  <2> DEFINE next == [x \in (2 .. N) \X T |-> Extend(x[2], points[x[1] - 1], points[x[1]])]
  <2> HIDE DEF T
  <2>2. next \in [(2 .. N) \X T -> T]
    BY <2>1
  <2>3. \A n \in 2 .. N, ss \in T : next[<<n, ss>>] = Extend(ss, points[n - 1], points[n])
    OBVIOUS
  <2> HIDE DEF next
  <2> QED
    BY <2>2, <2>3
<1>5. PICK f \in [1 .. N -> T] : Unrolls(f, N, base, next)
  <2>1. N \in Nat
    BY <1>1
  <2> HIDE DEF T
  <2> QED
    BY <2>1, UnrollingExists
<1>6. f = Again(f)
  <2>1. ASSUME NEW n \in 1 .. N, n # 1
        PROVE  f[n] = Extend(f[n - 1], points[n - 1], points[n])
    <3>1. n \in 2 .. N /\ n - 1 \in 1 .. N
      BY <2>1
    <3>2. f[n - 1] \in T
      BY <1>5, <3>1
    <3> HIDE DEF T
    <3> QED
      BY <1>4, <1>5, <2>1, <3>1, <3>2 DEF Unrolls
  <2>2. 1 \in 1 .. N => f[1] = Base
    BY <1>3, <1>5 DEF Unrolls
  <2>3. \A n \in 1 .. N : f[n] = IF n = 1 THEN Base ELSE Extend(f[n - 1], points[n - 1], points[n])
    BY <2>1, <2>2
  <2>4. f = [n \in 1 .. N |-> f[n]]
    BY <1>5
  <2> QED
    BY <1>1, <2>3, <2>4
<1>7. PICK g : g = CHOOSE h : h = Again(h)
  OBVIOUS
<1>8. g = Again(g)
  <2> HIDE DEF Again
  <2> QED
    BY <1>6, <1>7
<1>9. Split(points) = g[N]
  BY <1>1, <1>7 DEF Split
<1> DEFINE S == {n \in 1 .. N : g[n] \in Seq(Seq(P)) /\ Parts(g[n], points, n)}
<1>10. 1 \in S
  <2>1. 1 \in 1 .. N /\ g[1] = Base
    BY <1>1, <1>8
  <2>2. PICK s \in Seq(P) : s = <<points[1]>> /\ s # <<>> /\ Len(s) = 1 /\ s[1] = points[1]
    <3>1. PICK p \in P : p = points[1]
      BY <1>2, <2>1
    <3>2. <<p>> \in Seq(P) /\ <<p>> # <<>> /\ Len(<<p>>) = 1 /\ <<p>>[1] = p
      OBVIOUS
    <3> QED
      BY <3>1, <3>2
  <2>3. PICK ss \in Seq(Seq(P)) : ss = <<s>> /\ ss # <<>> /\ Len(ss) = 1 /\ ss[1] = s
    <3>1. <<s>> \in Seq(Seq(P)) /\ <<s>> # <<>> /\ Len(<<s>>) = 1 /\ <<s>>[1] = s
      OBVIOUS
    <3> QED
      BY <3>1
  <2>4. FlattenSeq(ss) = s
    BY <2>3, FlattenOne
  <2>5. SubSeq(points, 1, 1) = s
    BY <2>2, FirstPoint
  <2>6. Last(Last(ss)) = points[1]
    BY <2>2, <2>3 DEF Last
  <2>7. Parts(ss, points, 1)
    BY <2>2, <2>3, <2>4, <2>5, <2>6 DEF Parts
  <2> QED
    BY <2>1, <2>2, <2>3, <2>7
<1>11. ASSUME NEW n \in 1 .. N - 1, n \in S
       PROVE  n + 1 \in S
  <2>1. PICK m \in 1 .. N : m = n + 1 /\ m # 1 /\ m - 1 = n
    BY <1>1
  <2>2. g[m] = Extend(g[n], points[n], points[n + 1])
    BY <1>1, <1>8, <2>1
  <2>3. PICK ss \in Seq(Seq(P)) : ss = g[n] /\ Parts(ss, points, n)
    BY <1>11
  <2>4. n \in 1 .. Len(points) - 1
    BY <1>1
  <2>5. PICK r \in Seq(Seq(P)) :
            r = Extend(ss, points[n], points[n + 1]) /\ Parts(r, points, n + 1)
    BY <2>3, <2>4, ExtendParts
  <2> QED
    BY <2>1, <2>2, <2>3, <2>5
<1>12. 1 .. N \subseteq S
  <2> HIDE DEF S
  <2> QED
    BY <1>10, <1>11, CountedUp
<1>13. N \in S
  <2>1. N \in 1 .. N
    BY <1>1
  <2> QED
    BY <1>12, <2>1
<1> QED
  BY <1>1, <1>9, <1>13

\* The places of the map.
Places == [latitude : Angles, longitude : Angles]

LEMMA CrossesIsJump ==
    ASSUME NEW p \in Places, NEW q \in Places
    PROVE  Crosses(p, q) <=> q.longitude - p.longitude \notin -180 .. 180
<1>1. p.longitude \in Int /\ q.longitude \in Int
  BY AnglesAre DEF Places
<1> QED
  BY <1>1 DEF Crosses, Abs

PointRows ==
    [kind : {"point"}, run : 1 .. MaxRuns, point : 1 .. MaxPoints, at : Places]

\* A part of a row is at most short of some of the longitude.
LEMMA ReadingIs ==
    ASSUME NEW r \in PointRows, NEW q \in Readings(r)
    PROVE  /\ q \in PointRows /\ q.run = r.run /\ q.point = r.point
           /\ q.at.latitude = r.at.latitude
           /\ \/ q.at.longitude = r.at.longitude
              \/ Abs(q.at.longitude) < Abs(r.at.longitude)
<1>1. PICK run \in 1 .. MaxRuns, point \in 1 .. MaxPoints, lat \in Angles, lon \in Angles :
          r = [kind |-> "point", run |-> run, point |-> point,
               at |-> [latitude |-> lat, longitude |-> lon]]
  BY DEF PointRows, Places
<1>2. PICK a \in Angles \cap ((0 .. lon) \cup (lon .. 0)) : q = [r EXCEPT !.at.longitude = a]
  <2>1. r # Header
    BY <1>1 DEF Header
  <2> QED
    BY <1>1, <2>1 DEF Readings
<1>3. q = [kind |-> "point", run |-> run, point |-> point,
           at |-> [latitude |-> lat, longitude |-> a]]
  BY <1>1, <1>2
<1>4. a = lon \/ Abs(a) < Abs(lon)
  <2>1. lon \in Int /\ a \in Int
    BY AnglesAre
  <2> QED
    BY <1>2, <2>1 DEF Abs
<1> QED
  BY <1>1, <1>2, <1>3, <1>4 DEF PointRows, Places

\* What build_map draws are the points of the file, the last of them perhaps
\* from a part of its row.
LEMMA DrawingIs ==
    ASSUME TypeOK, GridInv, FileInv, NEW rows \in Drawings
    PROVE  /\ rows \in Seq(PointRows) /\ Len(rows) = Len(file) - 1
           /\ \A k \in 1 .. Len(rows) :
                  /\ file[k + 1] \in PointRows
                  /\ \/ rows[k] = file[k + 1]
                     \/ torn /\ k = Len(rows) /\ rows[k] \in Readings(file[k + 1])
<1>1. PICK n \in Nat : n = Len(file)
  BY LenProperties DEF TypeOK
<1>2. file \in Seq(FileRows) /\ n >= 2 /\ file # <<>>
  <2>1. file \in Seq(FileRows)
    BY DEF TypeOK
  <2>2. ~(Len(file) < 2)
    BY DEF Drawings
  <2> QED
    BY <1>1, <2>1, <2>2
<1>3. ASSUME NEW k \in 1 .. n - 1
      PROVE  file[k + 1] \in PointRows
  <2>1. k + 1 \in 1 .. n /\ file[k + 1] \in FileRows
    BY <1>1, <1>2, ElementOfSeq
  <2>2. file[k + 1].kind = "point"
    BY <1>1, FileIsTrack DEF OneTrack
  <2> QED
    BY <2>1, <2>2 DEF FileRows, PointRows, Places, Header
<1>4. PICK t \in Seq(PointRows) :
          t = Tail(file) /\ Len(t) = n - 1 /\ \A k \in 1 .. n - 1 : t[k] = file[k + 1]
  <2>1. PICK t : t = Tail(file)
    OBVIOUS
  <2>2. t \in Seq(FileRows) /\ Len(t) = n - 1 /\ \A k \in 1 .. n - 1 : t[k] = file[k + 1]
    BY <1>1, <1>2, <2>1, HeadTailProperties
  <2>3. \A k \in 1 .. Len(t) : t[k] \in PointRows
    BY <1>3, <2>2
  <2>4. t \in Seq(PointRows)
    BY <2>2, <2>3
  <2> QED
    BY <2>1, <2>2, <2>4
<1>5. CASE ~torn
  <2>1. rows = t
    BY <1>1, <1>2, <1>4, <1>5 DEF Drawings
  <2> QED
    BY <1>1, <1>3, <1>4, <2>1
<1>6. CASE torn
  <2>1. PICK r \in Readings(Last(file)) : rows = Append(Front(t), r)
    BY <1>1, <1>2, <1>4, <1>6 DEF Drawings
  <2>2. n - 1 \in 1 .. n - 1 /\ n - 1 + 1 = n /\ Last(file) = file[n]
    BY <1>1, <1>2 DEF Last
  <2>3. file[n] \in PointRows
    BY <1>3, <2>2
  <2>4. r \in PointRows
    BY <2>1, <2>2, <2>3, ReadingIs
  <2>5. t # <<>>
    BY <1>1, <1>2, <1>4, EmptySeq
  <2>6. PICK s \in Seq(PointRows) : Changed(s, t, r)
    BY <2>4, <2>5, ChangedExists
  <2>7. /\ rows = s /\ Len(s) = n - 1 /\ s[n - 1] = r
        /\ \A k \in 1 .. n - 1 - 1 : s[k] = t[k]
    BY <1>4, <2>1, <2>6 DEF Changed
  <2>8. ASSUME NEW k \in 1 .. n - 1
        PROVE  \/ s[k] = file[k + 1]
               \/ k = Len(s) /\ s[k] \in Readings(file[k + 1])
    <3>1. CASE k = n - 1
      BY <2>1, <2>2, <2>7, <3>1
    <3>2. CASE k # n - 1
      <4>1. k \in 1 .. n - 1 - 1
        BY <1>1, <3>2
      <4> QED
        BY <1>4, <2>7, <4>1
    <3> QED
      BY <3>1, <3>2
  <2> QED
    BY <1>1, <1>3, <1>6, <2>7, <2>8
<1> QED
  BY <1>5, <1>6

LEMMA DrawnPlaces ==
    ASSUME NEW rows \in Seq(PointRows)
    PROVE  [k \in DOMAIN rows |-> rows[k].at] \in Seq(Places)
<1>1. PICK n \in Nat : n = Len(rows) /\ DOMAIN rows = 1 .. n
  BY LenProperties
<1>2. ASSUME NEW k \in 1 .. n
      PROVE  rows[k].at \in Places
  <2>1. rows[k] \in PointRows
    BY <1>1, ElementOfSeq
  <2> QED
    BY <2>1 DEF PointRows
<1>3. [k \in 1 .. n |-> rows[k].at] \in [1 .. n -> Places]
  BY <1>2
<1>4. [k \in 1 .. n |-> rows[k].at] \in Seq(Places)
  BY <1>3
<1> QED
  BY <1>1, <1>4

-----------------------------------------------------------------------------
(* What the states of the program have in common.                          *)

\* The inductive invariant: Propagate has laid its grid without a gap, main
\* writes only the track of a propagation that has returned, and what is in the
\* file when it writes are the first rows of it.
THEOREM Invariance == Spec => []IInv
  BY InitFile, StepFile, PTL DEF Spec

\* Every variable of the ground track keeps its type.
THEOREM TypeCorrect == Spec => []TypeOK
<1>1. IInv => TypeOK
  BY DEF IInv
<1> QED
  BY <1>1, Invariance, PTL

\* A trajectory that Propagate returns starts at zero, moves forward with every
\* point and ends at the duration exactly, in any floating-point format.
THEOREM SpansDuration == Spec => []TrajectorySpansDuration
<1>1. IInv => TrajectorySpansDuration
  <2> SUFFICES ASSUME IInv, outcome = "returned"
               PROVE  /\ times[1] = 0 /\ times[Len(times)] = duration
                      /\ \A k \in 1 .. Len(times) - 1 : times[k] < times[k + 1]
    BY DEF TrajectorySpansDuration
  <2>1. times # <<>> /\ ~More
    BY DEF IInv, GridInv
  <2>2. /\ times[1] = 0 /\ times[Len(times)] = time /\ time <= duration
        /\ \A k \in 1 .. Len(times) - 1 : times[k] < times[k + 1]
    BY <2>1 DEF IInv, GridInv
  <2>3. time \in Int /\ duration \in Int
    BY FloatsAreNatural DEF IInv, GridInv, IsArgument
  <2>4. time = duration
    BY <2>1, <2>2, <2>3 DEF More
  <2> QED
    BY <2>2, <2>4
<1> QED
  BY <1>1, Invariance, PTL

\* Whatever plot_ground_track.py makes of the file, also if main is writing it,
\* was killed or found the device full: the points on the map are the first of
\* one track, and those of the present run are right up to the last, of which the
\* longitude may be cut short if main did not get to the end of its row.
THEOREM OneTrackOnMap == Spec => []MapShowsOneTrack
<1>1. ASSUME IInv
      PROVE  MapShowsOneTrack
  <2> SUFFICES ASSUME NEW rows \in Drawings, NEW k \in DOMAIN rows
               PROVE  /\ rows[k].kind = "point" /\ rows[k].run = rows[1].run
                      /\ rows[k].point = k
                      /\ rows[k].run = runs =>
                             /\ k \in DOMAIN times
                             /\ rows[k].at.latitude = Geodetic(k).latitude
                             /\ \/ rows[k].at.longitude = Geodetic(k).longitude
                                \/ /\ torn /\ k = Len(rows)
                                   /\ Abs(rows[k].at.longitude)
                                          < Abs(Geodetic(k).longitude)
    BY DEF MapShowsOneTrack
  <2>1. TypeOK /\ GridInv /\ FileInv
    BY <1>1 DEF IInv
  <2>2. PICK n \in Nat : n = Len(rows) /\ n = Len(file) - 1 /\ DOMAIN rows = 1 .. n
    BY <2>1, DrawingIs, LenProperties
  <2>3. OneTrack(file) /\ k \in 1 .. n /\ 1 \in 1 .. n /\ 1 + 1 = 2
    BY <2>1, <2>2, FileIsTrack
  <2>4. ASSUME NEW i \in 1 .. n
        PROVE  /\ file[i + 1] \in PointRows
               /\ \/ rows[i] = file[i + 1]
                  \/ torn /\ i = n /\ rows[i] \in Readings(file[i + 1])
    BY <2>1, <2>2, DrawingIs
  <2>5. ASSUME NEW i \in 1 .. n
        PROVE  /\ rows[i] \in PointRows /\ rows[i].run = file[i + 1].run
               /\ rows[i].point = file[i + 1].point
               /\ rows[i].at.latitude = file[i + 1].at.latitude
               /\ \/ rows[i].at.longitude = file[i + 1].at.longitude
                  \/ /\ torn /\ i = n
                     /\ Abs(rows[i].at.longitude) < Abs(file[i + 1].at.longitude)
    BY <2>4, ReadingIs
  <2>6. file[k + 1].run = file[2].run /\ file[k + 1].point = k
    BY <2>2, <2>3 DEF OneTrack
  <2>7. rows[k].kind = "point" /\ rows[k].run = rows[1].run /\ rows[k].point = k
    <3>1. rows[k].run = file[k + 1].run /\ rows[1].run = file[2].run
      BY <2>3, <2>5
    <3> QED
      BY <2>3, <2>5, <2>6, <3>1 DEF PointRows
  <2>8. ASSUME rows[k].run = runs
        PROVE  file[k + 1] = Row(k) /\ k \in 1 .. Len(times)
    <3>1. ~(file[k + 1].run < runs)
      <4>1. runs \in 1 .. MaxRuns
        BY <2>1 DEF TypeOK
      <4>2. runs \in Nat
        BY <4>1, MaxRunsAssumption
      <4>3. file[k + 1].run = runs
        BY <2>3, <2>5, <2>8
      <4> QED
        BY <4>2, <4>3
    <3>2. file = SubSeq(Rows, 1, sent)
      BY <2>1, <2>2, <2>3, <3>1 DEF FileInv
    <3>3. sent \in 0 .. Len(Rows)
      <4>1. put \in 0 .. Len(Rows) /\ sent \in 0 .. put /\ Len(Rows) \in Nat
        BY <2>1, RowsLength DEF TypeOK
      <4> QED
        BY <4>1
    <3>4. Len(file) = sent /\ \A i \in 1 .. sent - 1 : file[i + 1] = Row(i) /\ i \in 1 .. Len(times)
      BY <2>1, <3>2, <3>3, FirstRows
    <3> QED
      BY <2>2, <2>3, <3>4
  <2>9. DOMAIN times = 1 .. Len(times)
    <3>1. times \in Seq(Floats)
      BY <2>1 DEF GridInv
    <3> QED
      BY <3>1, LenProperties
  <2>10. Row(k).at = Geodetic(k)
    BY DEF Row
  <2> QED
    BY <2>2, <2>3, <2>5, <2>7, <2>8, <2>9, <2>10
<1> QED
  BY <1>1, Invariance, PTL

\* When main says that the file was saved, it holds the whole track, unless the
\* device was full.
THEOREM SavedWhenRoom == Spec => []SavedUnlessDeviceFull
<1>1. IInv => SavedUnlessDeviceFull
  BY DEF IInv, FileInv
<1> QED
  BY <1>1, Invariance, PTL

\* EciToEcef turns the track against the rotation of the earth, and leaves the
\* latitude alone.
THEOREM LagsBehindStars == Spec => []TrackLagsBehindStars
<1>1. IInv => TrackLagsBehindStars
  <2> SUFFICES ASSUME IInv, NEW k \in DOMAIN times
               PROVE  LET star == EcefToGeodetic(orbit[k])
                          here == Geodetic(k)
                      IN  /\ here.latitude = star.latitude
                          /\ \/ orbit[k].x = 0 /\ orbit[k].y = 0
                             \/ (star.longitude - here.longitude - 90 * times[k]) % 360 = 0
    BY DEF TrackLagsBehindStars
  <2>1. times \in Seq(Floats)
    BY DEF IInv, GridInv
  <2>2. k \in 1 .. Len(times)
    BY <2>1, LenProperties
  <2>3. orbit[k] \in Vectors(Int) /\ times[k] \in Nat
    BY <2>2, OrbitPoints DEF IInv
  <2> QED
    BY <2>3, LagsByTime DEF Geodetic
<1> QED
  BY <1>1, Invariance, PTL

\* plot_ground_track.py draws each point once and in order, and parts the line
\* where it crosses the dateline and nowhere else, however long the track is.
THEOREM PartedAtDateline == Spec => []SegmentsPartAtDateline
<1>1. ASSUME IInv, NEW rows \in Drawings
      PROVE  LET points == [k \in DOMAIN rows |-> rows[k].at]
                 segments == Split(points)
                 Jump(p, q) == q.longitude - p.longitude
             IN  /\ FlattenSeq(segments) = points
                 /\ \A i \in DOMAIN segments :
                        /\ segments[i] # <<>>
                        /\ \A k \in 1 .. Len(segments[i]) - 1 :
                               Jump(segments[i][k], segments[i][k + 1]) \in -180 .. 180
                 /\ \A i \in 1 .. Len(segments) - 1 :
                        Jump(Last(segments[i]), Head(segments[i + 1])) \notin -180 .. 180
  <2>1. PICK points \in Seq(Places) : points = [k \in DOMAIN rows |-> rows[k].at]
    <3>1. rows \in Seq(PointRows)
      BY <1>1, DrawingIs DEF IInv
    <3> QED
      BY <3>1, DrawnPlaces
  <2>2. PICK ss \in Seq(Seq(Places)) :
            /\ ss = Split(points) /\ FlattenSeq(ss) = points
            /\ \A i \in 1 .. Len(ss) :
                   /\ ss[i] # <<>>
                   /\ \A k \in 1 .. Len(ss[i]) - 1 : ~Crosses(ss[i][k], ss[i][k + 1])
            /\ \A i \in 1 .. Len(ss) - 1 : Crosses(Last(ss[i]), Head(ss[i + 1]))
    <3>1. CASE points = <<>>
      <4>1. Split(points) = <<>>
        BY <3>1 DEF Split
      <4>2. PICK ss \in Seq(Seq(Places)) : ss = <<>> /\ Len(ss) = 0
        BY EmptySeq
      <4>3. FlattenSeq(ss) = ss
        BY <4>2 DEF FlattenSeq
      <4>4. 1 .. Len(ss) = {} /\ 1 .. Len(ss) - 1 = {}
        BY <4>2
      <4> QED
        BY <3>1, <4>1, <4>2, <4>3, <4>4
    <3>2. CASE points # <<>>
      <4>1. Split(points) \in Seq(Seq(Places)) /\ Parts(Split(points), points, Len(points))
        BY <3>2, SplitParts
      <4>2. SubSeq(points, 1, Len(points)) = points
        BY SubSeqFull
      <4> QED
        BY <4>1, <4>2 DEF Parts
    <3> QED
      BY <3>1, <3>2
  <2>3. PICK l \in Nat : l = Len(ss) /\ DOMAIN ss = 1 .. l
    BY LenProperties
  <2>4. \A i \in 1 .. l : ss[i] \in Seq(Places)
    BY <2>3
  <2>5. ASSUME NEW i \in 1 .. l, NEW k \in 1 .. Len(ss[i]) - 1
        PROVE  ss[i][k + 1].longitude - ss[i][k].longitude \in -180 .. 180
    <3>1. PICK s \in Seq(Places) : s = ss[i]
      BY <2>4
    <3>2. k \in 1 .. Len(s) /\ k + 1 \in 1 .. Len(s)
      BY <2>5, <3>1
    <3>3. s[k] \in Places /\ s[k + 1] \in Places
      BY <3>2, ElementOfSeq
    <3>4. ~Crosses(s[k], s[k + 1])
      BY <2>2, <2>3, <2>5, <3>1
    <3> QED
      BY <3>1, <3>3, <3>4, CrossesIsJump
  <2>6. ASSUME NEW i \in 1 .. l - 1
        PROVE  Head(ss[i + 1]).longitude - Last(ss[i]).longitude \notin -180 .. 180
    <3>1. i \in 1 .. l /\ i + 1 \in 1 .. l
      BY <2>3
    <3>2. ss[i] # <<>> /\ ss[i + 1] # <<>> /\ ss[i] \in Seq(Places) /\ ss[i + 1] \in Seq(Places)
      BY <2>2, <2>3, <2>4, <3>1
    <3>3. Last(ss[i]) \in Places /\ Head(ss[i + 1]) \in Places
      BY <3>2, FrontLast, HeadTailProperties
    <3>4. Crosses(Last(ss[i]), Head(ss[i + 1]))
      BY <2>2, <2>3
    <3> QED
      BY <3>3, <3>4, CrossesIsJump
  <2>7. \A i \in DOMAIN ss :
            /\ ss[i] # <<>>
            /\ \A k \in 1 .. Len(ss[i]) - 1 :
                   ss[i][k + 1].longitude - ss[i][k].longitude \in -180 .. 180
    BY <2>2, <2>3, <2>5
  <2>8. \A i \in 1 .. Len(ss) - 1 :
            Head(ss[i + 1]).longitude - Last(ss[i]).longitude \notin -180 .. 180
    BY <2>3, <2>6
  <2>9. FlattenSeq(ss) = points /\ ss = Split(points)
    BY <2>2
  <2> QED
    BY <2>1, <2>7, <2>8, <2>9, Zenon
<1>2. IInv => SegmentsPartAtDateline
  BY <1>1 DEF SegmentsPartAtDateline
<1> QED
  BY <1>2, Invariance, PTL

\* main touches the file of an earlier run only when Propagate has returned a
\* trajectory to replace it with.
THEOREM ReplacedByFullTrack == Spec => FileReplacedByFullTrack
<1>1. IInv /\ [Next]_vars => [file' # file => outcome = "returned"]_vars
  <2> SUFFICES ASSUME IInv, [Next]_vars, file' # file
               PROVE  outcome = "returned"
    OBVIOUS
  <2>1. Open \/ Flush \/ Close
    BY DEF Next, vars, Propagating, Catch, Put, DeviceFull, Kill, Rerun, Stop
  <2>2. outcome = "returned" \/ pc = "write"
    BY <2>1 DEF Open, Flush, Close
  <2> QED
    BY <2>2 DEF IInv, TypeOK
<1> QED
  BY <1>1, Invariance, PTL DEF Spec, FileReplacedByFullTrack

-----------------------------------------------------------------------------
(* RK4Step and the axes.                                                   *)

LEMMA SumExchanged ==
    ASSUME NEW u \in Vectors(Int), NEW v \in Vectors(Int), NEW w \in Ways
    PROVE  /\ Plus(u, v) \in Vectors(Int)
           /\ Plus(Exchanged(u, w), Exchanged(v, w)) = Exchanged(Plus(u, v), w)
  BY DEF Vectors, Vector, Plus, Exchanged

LEMMA ProductExchanged ==
    ASSUME NEW v \in Vectors(Int), NEW k \in Int, NEW w \in Ways
    PROVE  Times(v, k) \in Vectors(Int) /\ Times(Exchanged(v, w), k) = Exchanged(Times(v, k), w)
<1>1. PICK a \in Int, b \in Int, c \in Int : v = Vector(a, b, c)
  BY VectorParts
<1>2. a * k \in Int /\ b * k \in Int /\ c * k \in Int
  OBVIOUS
<1> QED
  BY <1>1, <1>2 DEF Vectors, Vector, Times, Exchanged

\* A state, or its slope, with the axes exchanged.
Turn(s, w) == [position |-> Exchanged(s.position, w), velocity |-> Exchanged(s.velocity, w)]
TurnSlope(d, w) == [dpos |-> Exchanged(d.dpos, w), dvel |-> Exchanged(d.dvel, w)]

Slopes == [dpos : Vectors(Int), dvel : Vectors(Int)]

\* The pull does not know one axis from another.
PullIsSymmetric ==
    \A v \in Vectors(Int), w \in Ways :
        Accel(v) \in Vectors(Int) /\ Accel(Exchanged(v, w)) = Exchanged(Accel(v), w)

LEMMA EvaluateTurned ==
    ASSUME PullIsSymmetric, NEW s \in States(Int), NEW w \in Ways
    PROVE  Evaluate(s) \in Slopes /\ Evaluate(Turn(s, w)) = TurnSlope(Evaluate(s), w)
<1>1. s.position \in Vectors(Int) /\ s.velocity \in Vectors(Int)
  BY DEF States
<1>2. /\ Accel(s.position) \in Vectors(Int)
      /\ Accel(Exchanged(s.position, w)) = Exchanged(Accel(s.position), w)
  BY <1>1 DEF PullIsSymmetric
<1> QED
  BY <1>1, <1>2 DEF Evaluate, Turn, TurnSlope, Slopes

LEMMA AddScaledTurned ==
    ASSUME NEW s \in States(Int), NEW d \in Slopes, NEW h \in Int,
           NEW w \in Ways
    PROVE  /\ AddScaled(s, d, h) \in States(Int)
           /\ AddScaled(Turn(s, w), TurnSlope(d, w), h) = Turn(AddScaled(s, d, h), w)
<1>1. /\ s.position \in Vectors(Int) /\ s.velocity \in Vectors(Int)
      /\ d.dpos \in Vectors(Int) /\ d.dvel \in Vectors(Int)
  BY DEF States, Slopes
<1>2. Times(d.dpos, h) \in Vectors(Int) /\ Times(d.dvel, h) \in Vectors(Int)
  BY <1>1, ProductExchanged
<1>3. /\ Plus(s.position, Times(d.dpos, h)) \in Vectors(Int)
      /\ Plus(s.velocity, Times(d.dvel, h)) \in Vectors(Int)
      /\ Plus(Exchanged(s.position, w), Exchanged(Times(d.dpos, h), w)) =
             Exchanged(Plus(s.position, Times(d.dpos, h)), w)
      /\ Plus(Exchanged(s.velocity, w), Exchanged(Times(d.dvel, h), w)) =
             Exchanged(Plus(s.velocity, Times(d.dvel, h)), w)
  BY <1>1, <1>2, SumExchanged
<1>4. /\ Times(Exchanged(d.dpos, w), h) = Exchanged(Times(d.dpos, h), w)
      /\ Times(Exchanged(d.dvel, w), h) = Exchanged(Times(d.dvel, h), w)
  BY <1>1, ProductExchanged
<1> QED
  BY <1>3, <1>4 DEF AddScaled, Turn, TurnSlope, States

\* Weigh does not know one axis from another.
WeighsAlike(v, a, b, c, d, h, w) ==
    Weigh(Exchanged(v, w), Exchanged(a, w), Exchanged(b, w), Exchanged(c, w),
          Exchanged(d, w), h) =
        Exchanged(Weigh(v, a, b, c, d, h), w)

LEMMA WeighTurned ==
    ASSUME NEW v \in Vectors(Int), NEW a \in Vectors(Int), NEW b \in Vectors(Int),
           NEW c \in Vectors(Int), NEW d \in Vectors(Int), NEW h \in Int,
           NEW w \in Ways
    PROVE  WeighsAlike(v, a, b, c, d, h, w)
<1>1. /\ Times(v, 6) \in Vectors(Int) /\ Times(Exchanged(v, w), 6) = Exchanged(Times(v, 6), w)
      /\ Times(b, 2) \in Vectors(Int) /\ Times(Exchanged(b, w), 2) = Exchanged(Times(b, 2), w)
      /\ Times(c, 2) \in Vectors(Int) /\ Times(Exchanged(c, w), 2) = Exchanged(Times(c, 2), w)
  BY ProductExchanged
<1>2. PICK p \in Vectors(Int) :
          /\ p = Plus(a, Times(b, 2))
          /\ Plus(Exchanged(a, w), Times(Exchanged(b, w), 2)) = Exchanged(p, w)
  BY <1>1, SumExchanged
<1>3. PICK q \in Vectors(Int) :
          /\ q = Plus(Times(c, 2), d)
          /\ Plus(Times(Exchanged(c, w), 2), Exchanged(d, w)) = Exchanged(q, w)
  BY <1>1, SumExchanged
<1>4. PICK r \in Vectors(Int) :
          r = Plus(p, q) /\ Plus(Exchanged(p, w), Exchanged(q, w)) = Exchanged(r, w)
  BY SumExchanged
<1>5. Times(r, h) \in Vectors(Int) /\ Times(Exchanged(r, w), h) = Exchanged(Times(r, h), w)
  BY ProductExchanged
<1>6. Plus(Exchanged(Times(v, 6), w), Exchanged(Times(r, h), w)) =
          Exchanged(Plus(Times(v, 6), Times(r, h)), w)
  BY <1>1, <1>5, SumExchanged
<1>7. Weigh(v, a, b, c, d, h) = Plus(Times(v, 6), Times(r, h))
  BY <1>2, <1>3, <1>4 DEF Weigh
<1>8. Weigh(Exchanged(v, w), Exchanged(a, w), Exchanged(b, w), Exchanged(c, w),
              Exchanged(d, w), h) =
          Plus(Exchanged(Times(v, 6), w), Exchanged(Times(r, h), w))
  BY <1>1, <1>2, <1>3, <1>4, <1>5 DEF Weigh
<1> QED
  BY <1>6, <1>7, <1>8 DEF WeighsAlike

LEMMA StepTurned ==
    ASSUME PullIsSymmetric, NEW s \in States(Int), NEW h \in Int, NEW w \in Ways
    PROVE  RK4Step(Turn(s, w), h) = Turn(RK4Step(s, h), w)
<1>1. PICK k1 \in Slopes : k1 = Evaluate(s) /\ Evaluate(Turn(s, w)) = TurnSlope(k1, w)
  BY EvaluateTurned
<1>2. PICK s2 \in States(Int) :
          s2 = AddScaled(s, k1, h) /\ AddScaled(Turn(s, w), TurnSlope(k1, w), h) = Turn(s2, w)
  BY AddScaledTurned
<1>3. PICK k2 \in Slopes : k2 = Evaluate(s2) /\ Evaluate(Turn(s2, w)) = TurnSlope(k2, w)
  BY EvaluateTurned
<1>4. PICK s3 \in States(Int) :
          s3 = AddScaled(s, k2, h) /\ AddScaled(Turn(s, w), TurnSlope(k2, w), h) = Turn(s3, w)
  BY AddScaledTurned
<1>5. PICK k3 \in Slopes : k3 = Evaluate(s3) /\ Evaluate(Turn(s3, w)) = TurnSlope(k3, w)
  BY EvaluateTurned
<1>6. PICK s4 \in States(Int) :
          s4 = AddScaled(s, k3, h) /\ AddScaled(Turn(s, w), TurnSlope(k3, w), h) = Turn(s4, w)
  BY AddScaledTurned
<1>7. PICK k4 \in Slopes : k4 = Evaluate(s4) /\ Evaluate(Turn(s4, w)) = TurnSlope(k4, w)
  BY EvaluateTurned
<1>8. PICK dt \in Int : dt = 2 * h
  OBVIOUS
<1>9. RK4Step(s, h) = Combine(s, k1, k2, k3, k4, dt)
  BY <1>1, <1>2, <1>3, <1>4, <1>5, <1>6, <1>7, <1>8 DEF RK4Step
<1>10. RK4Step(Turn(s, w), h) =
           Combine(Turn(s, w), TurnSlope(k1, w), TurnSlope(k2, w), TurnSlope(k3, w),
                   TurnSlope(k4, w), dt)
  BY <1>1, <1>2, <1>3, <1>4, <1>5, <1>6, <1>7, <1>8 DEF RK4Step
<1>11. /\ s.position \in Vectors(Int) /\ k1.dpos \in Vectors(Int) /\ k2.dpos \in Vectors(Int)
       /\ k3.dpos \in Vectors(Int) /\ k4.dpos \in Vectors(Int)
  BY DEF States, Slopes
<1>12. /\ s.velocity \in Vectors(Int) /\ k1.dvel \in Vectors(Int) /\ k2.dvel \in Vectors(Int)
       /\ k3.dvel \in Vectors(Int) /\ k4.dvel \in Vectors(Int)
  BY DEF States, Slopes
<1>13. /\ Turn(s, w).position = Exchanged(s.position, w)
       /\ Turn(s, w).velocity = Exchanged(s.velocity, w)
       /\ \A k : /\ TurnSlope(k, w).dpos = Exchanged(k.dpos, w)
                 /\ TurnSlope(k, w).dvel = Exchanged(k.dvel, w)
  BY DEF Turn, TurnSlope
<1>14. Weigh(Exchanged(s.position, w), Exchanged(k1.dpos, w), Exchanged(k2.dpos, w),
             Exchanged(k3.dpos, w), Exchanged(k4.dpos, w), dt)
           = Exchanged(Weigh(s.position, k1.dpos, k2.dpos, k3.dpos, k4.dpos, dt), w)
  <2>1. PICK v, a, b, c, d \in Vectors(Int) :
            /\ v = s.position /\ a = k1.dpos /\ b = k2.dpos /\ c = k3.dpos /\ d = k4.dpos
    BY <1>11
  <2>2. WeighsAlike(v, a, b, c, d, dt, w)
    BY WeighTurned
  <2> QED
    BY <2>1, <2>2 DEF WeighsAlike
<1>15. Weigh(Exchanged(s.velocity, w), Exchanged(k1.dvel, w), Exchanged(k2.dvel, w),
             Exchanged(k3.dvel, w), Exchanged(k4.dvel, w), dt)
           = Exchanged(Weigh(s.velocity, k1.dvel, k2.dvel, k3.dvel, k4.dvel, dt), w)
  <2>1. PICK v, a, b, c, d \in Vectors(Int) :
            /\ v = s.velocity /\ a = k1.dvel /\ b = k2.dvel /\ c = k3.dvel /\ d = k4.dvel
    BY <1>12
  <2>2. WeighsAlike(v, a, b, c, d, dt, w)
    BY WeighTurned
  <2> QED
    BY <2>1, <2>2 DEF WeighsAlike
<1>16. Combine(Turn(s, w), TurnSlope(k1, w), TurnSlope(k2, w), TurnSlope(k3, w),
               TurnSlope(k4, w), dt)
           = Turn(Combine(s, k1, k2, k3, k4, dt), w)
  BY <1>13, <1>14, <1>15 DEF Combine, Turn
<1> QED
  BY <1>9, <1>10, <1>16

\* A round of the loop is as long as a floating-point number says.
LEMMA DtIsFloat ==
    ASSUME GridInv, Running, More
    PROVE  Dt \in Floats
<1>1. /\ time \in Floats /\ time < duration /\ ~Rejects
      /\ IsArgument(duration) /\ IsArgument(step)
  BY DEF GridInv, Running, More
<1>2. duration \in Int /\ step \in Int /\ time \in Nat
  BY <1>1, FloatsAreNatural DEF IsArgument
<1>3. step \in Floats
  BY <1>1, <1>2 DEF Rejects, IsArgument
<1>4. PICK n \in Nat : n = duration - time
  BY <1>1, <1>2
<1>5. Round(n) \in Floats
  BY RoundIsNext
<1> QED
  BY <1>3, <1>4, <1>5 DEF Dt

\* If the pull treats the three coordinates alike, so does every step of the
\* integrator that Propagate makes.
THEOREM AxesAlike == PullIsSymmetric => (Spec => []NoAxisIsSpecial)
<1> SUFFICES ASSUME PullIsSymmetric
             PROVE  Spec => []NoAxisIsSpecial
  OBVIOUS
<1>1. ASSUME NEW dt \in Floats
      PROVE  dt \in SymmetricSteps
  <2>1. dt \in Nat
    BY FloatsAreNatural
  <2> SUFFICES ASSUME NEW s \in States(0 .. 1), NEW half \in 1 .. dt, NEW w \in Ways
               PROVE  RK4Step(Turn(s, w), half) = Turn(RK4Step(s, half), w)
    BY DEF SymmetricSteps, Turn
  <2>2. half \in Int
    BY <2>1
  <2>3. 0 .. 1 \subseteq Int
    OBVIOUS
  <2>4. s \in States(Int)
    BY <2>3 DEF States, Vectors
  <2> QED
    BY <2>2, <2>4, StepTurned
<1>2. IInv => NoAxisIsSpecial
  BY <1>1, DtIsFloat DEF IInv, NoAxisIsSpecial
<1> QED
  BY <1>2, Invariance, PTL

-----------------------------------------------------------------------------
(* How far a step gets.                                                    *)

\* In a binary format the gap above a number is at most twice the one below it.
LEMMA GapsAtMostDouble ==
    ASSUME Binary, NEW t \in Floats, NEW n \in Floats, NEW up \in Floats,
           t < n, n < up, \A f \in Floats : ~(n < f /\ f < up)
    PROVE  up - n <= 2 * (n - t)
<1>1. /\ Significands \in Nat \ {0} /\ Units \subseteq Nat \ {0}
      /\ t \in Nat /\ n \in Nat /\ up \in Nat
  BY SignificandsAssumption, UnitsAssumption, FloatsAreNatural
<1>2. PICK half \in Nat \ {0} : Significands = 2 * half
  BY <1>1 DEF Binary
<1>3. PICK T \in SUBSET Nat : T = {v \in Units : \E m \in 0 .. Significands : n = m * v}
  BY <1>1
<1>4. T # {}
  BY <1>3 DEF Floats
<1>5. PICK u \in T : \A v \in T : u <= v
  BY <1>4, MinimumExists
<1>6. PICK m \in 0 .. Significands : n = m * u
  BY <1>3, <1>5
<1>7. u \in Units /\ u \in Nat \ {0} /\ m \in Nat
  BY <1>1, <1>3, <1>5
<1>8. n - t >= u
  <2>1. PICK k \in 0 .. Significands, v \in Units : t = k * v
    BY DEF Floats
  <2>2. k \in Nat /\ v \in Nat \ {0}
    BY <1>1, <2>1
  <2>3. CASE u <= v
    <3>1. v % u = 0
      BY <1>7, <2>3, UnitsAssumption
    <3>2. PICK j \in Nat : v = j * u
      BY <1>7, <2>2, <3>1
    <3>3. PICK q \in Nat : q = k * j
      BY <2>2
    <3>4. t = q * u
      BY <1>7, <2>1, <2>2, <3>2, <3>3
    <3>5. q < m
      BY <1>6, <1>7, <3>4
    <3>6. (m - q) * u >= u
      BY <1>7, <3>5
    <3> QED
      BY <1>6, <1>7, <3>4, <3>6
  <2>4. CASE v < u
    <3>1. PICK h \in Units : u = 2 * h
      BY <1>7, <2>4 DEF Binary
    <3>2. h \in Nat \ {0}
      BY <1>1
    <3>3. v <= h
      <4>1. SUFFICES ASSUME h < v PROVE FALSE
        BY <2>2, <3>2
      <4>2. v % h = 0
        BY <4>1, <3>1, <2>1, UnitsAssumption
      <4>3. PICK j \in Nat : v = j * h
        BY <2>2, <3>2, <4>2
      <4>4. 1 < j /\ j < 2
        BY <2>2, <2>4, <3>1, <3>2, <4>1, <4>3
      <4> QED
        BY <4>4
    <3>4. n = (2 * m) * h
      BY <1>6, <1>7, <3>1, <3>2
    <3>5. 2 * m > Significands
      <4>1. h < u
        BY <3>1, <3>2
      <4>2. h \notin T
        BY <1>5, <1>7, <3>2, <4>1
      <4>3. 2 * m \notin 0 .. Significands
        BY <1>3, <3>1, <3>4, <4>2
      <4> QED
        BY <1>1, <1>7, <4>3
    <3>6. m >= half + 1
      BY <1>2, <1>7, <3>5
    <3>7. n >= 2 * (half + 1) * h
      <4>1. m * h >= (half + 1) * h
        BY <1>2, <1>7, <3>2, <3>6
      <4> QED
        BY <1>2, <1>7, <3>2, <3>4, <4>1
    <3>8. t <= 2 * half * h
      <4>1. k * v <= k * h
        BY <2>2, <3>2, <3>3
      <4>2. k * h <= Significands * h
        BY <1>1, <2>1, <2>2, <3>2
      <4>3. k * v \in Nat /\ k * h \in Nat /\ Significands * h \in Nat
        BY <1>1, <2>2, <3>2
      <4>4. k * v <= Significands * h
        BY <4>1, <4>2, <4>3
      <4> QED
        BY <1>2, <2>1, <4>4
    <3>9. 2 * (half + 1) * h = 2 * half * h + 2 * h
      BY <1>2, <3>2
    <3>10. 2 * half * h \in Nat
      BY <1>2, <3>2
    <3> QED
      BY <1>1, <3>1, <3>2, <3>7, <3>8, <3>9, <3>10
  <2> QED
    BY <1>7, <2>2, <2>3, <2>4
<1>9. up - n <= 2 * u
  <2>1. CASE m < Significands
    <3>1. n + u = (m + 1) * u /\ m + 1 \in 0 .. Significands
      BY <1>1, <1>6, <1>7, <2>1
    <3>2. n + u \in Floats
      BY <1>7, <3>1 DEF Floats
    <3>3. n < n + u
      BY <1>1, <1>7
    <3>4. up <= n + u
      BY <1>1, <1>7, <3>2, <3>3
    <3> QED
      BY <1>1, <1>7, <3>4
  <2>2. CASE m = Significands
    <3>1. PICK k \in 0 .. Significands, w \in Units : up = k * w
      BY DEF Floats
    <3>2. k \in Nat /\ w \in Nat \ {0}
      BY <1>1, <3>1
    <3>3. u < w
      <4>1. SUFFICES ASSUME w <= u PROVE FALSE
        BY <1>7, <3>2
      <4>2. k * w <= k * u
        BY <1>7, <3>2, <4>1
      <4>3. k * u <= Significands * u
        BY <1>1, <1>7, <3>1, <3>2
      <4>4. k * u \in Nat
        BY <1>7, <3>2
      <4>5. up <= n
        BY <1>1, <1>6, <2>2, <3>1, <4>2, <4>3, <4>4
      <4> QED
        BY <1>1, <4>5
    <3>4. 2 * u \in Units
      BY <1>7, <3>3 DEF Binary
    <3>5. n + 2 * u = (half + 1) * (2 * u) /\ half + 1 \in 0 .. Significands
      BY <1>2, <1>6, <1>7, <2>2
    <3>6. n + 2 * u \in Floats
      BY <3>4, <3>5 DEF Floats
    <3>7. n < n + 2 * u
      BY <1>1, <1>7
    <3>8. ~(n + 2 * u < up)
      BY <3>6, <3>7
    <3> QED
      BY <1>1, <1>7, <3>8
  <2> QED
    BY <1>1, <1>7, <2>1, <2>2
<1> QED
  BY <1>1, <1>7, <1>8, <1>9

\* A step that is not lost to rounding gets at least half of its way, unless it
\* leads to the largest number.
LEMMA HalfAStep ==
    ASSUME Binary, NEW t \in Floats, NEW s \in Nat, NEW f \in Floats,
           Round(t + s) # t, Round(t + s) < f
    PROVE  2 * Round(t + s) >= 2 * t + s
<1>1. t \in Nat /\ f \in Nat
  BY FloatsAreNatural
<1>2. PICK x \in Nat : x = t + s
  BY <1>1
<1>3. PICK n \in Floats : n = Round(x) /\ t <= n
  <2>1. Round(x) \in Floats /\ (t <= x => t <= Round(x))
    BY RoundIsNext
  <2>2. t <= x
    BY <1>1, <1>2
  <2> QED
    BY <2>1, <2>2
<1>4. n \in Nat /\ n # t /\ n < f
  BY <1>2, <1>3, FloatsAreNatural
<1>5. CASE x <= n
  BY <1>1, <1>2, <1>3, <1>4, <1>5
<1>6. CASE n < x
  <2>1. x <= f
    <3>1. SUFFICES ASSUME f <= x PROVE FALSE
      BY <1>1, <1>2
    <3>2. f <= n
      BY <1>3, <3>1, RoundIsNext
    <3> QED
      BY <1>1, <1>4, <3>2
  <2>2. PICK down \in Floats : down = Below(x) /\ down <= x
    BY BelowIsFloat
  <2>3. PICK up \in Floats :
            up = Above(x) /\ up >= x /\ \A y \in Floats : y >= x => y >= up
    BY <2>1, AboveIsFloat
  <2>4. down \in Nat /\ up \in Nat
    BY FloatsAreNatural
  <2>5. n # up
    BY <1>4, <1>6, <2>3, <2>4
  <2>6. n = down /\ x - n <= up - x
    <3>1. ~(\A y \in Floats : y < x)
      BY <1>1, <2>1
    <3>2. n = IF \/ x = down
                 \/ x - down < up - x
                 \/ x - down = up - x /\ down % (2 * (up - down)) = 0
              THEN down ELSE up
      BY <1>3, <2>2, <2>3, <3>1 DEF Round
    <3>3. n = down
      BY <2>5, <3>2
    <3>4. x - down < up - x \/ x - down = up - x
      BY <1>4, <1>6, <2>5, <3>2, <3>3
    <3> QED
      BY <2>4, <3>3, <3>4, <1>2
  <2>7. ASSUME NEW y \in Floats
        PROVE  ~(n < y /\ y < up)
    <3>1. y \in Nat
      BY FloatsAreNatural
    <3>2. y <= x => y <= n
      BY <1>3, RoundIsNext
    <3>3. y >= x => y >= up
      BY <2>3
    <3> QED
      BY <1>4, <2>4, <3>1, <3>2, <3>3
  <2>8. t < n /\ n < up
    BY <1>1, <1>3, <1>4, <1>6, <2>3, <2>4
  <2>9. up - n <= 2 * (n - t)
    BY <2>7, <2>8, GapsAtMostDouble
  <2>10. 2 * n >= 2 * t + s
    BY <1>1, <1>2, <1>4, <2>4, <2>6, <2>9
  <2> QED
    BY <1>2, <1>3, <2>10
<1> QED
  BY <1>2, <1>4, <1>5, <1>6

\* What is asked for, and how far a run has got.
RoomInv == duration \in Durations /\ step \in Steps /\ StopsUnlessAbsorbed

LEMMA CallRoom ==
    ASSUME NEW d \in Durations, NEW s \in Steps
    PROVE  (Called(d, s) => RoomInv) /\ (Call(d, s) => RoomInv')
  BY DEF Called, Call, RoomInv, StopsUnlessAbsorbed, Running

LEMMA StartRoom ==
    ASSUME RoomInv, GridInv, Start
    PROVE  RoomInv'
<1>1. duration \in Int /\ step \in Int
  BY DEF GridInv, IsArgument
<1>2. /\ UNCHANGED <<duration, step, time>> /\ time = 0
      /\ outcome' # "no memory" /\ (times' # <<>> => times' = <<0>>)
  BY DEF Start, GridInv
<1>3. Running' => 2 * time' >= step' * (Len(times') - 1)
  <2> SUFFICES ASSUME Running' PROVE 2 * time' >= step' * (Len(times') - 1)
    OBVIOUS
  <2>1. times' = <<0>>
    BY <1>2 DEF Running
  <2>2. Len(times') = 1
    BY <2>1
  <2>3. time' = 0 /\ step' \in Int
    BY <1>1, <1>2
  <2>4. \A k \in Int : 2 * 0 >= k * (1 - 1)
    OBVIOUS
  <2> QED
    BY <2>2, <2>3, <2>4
<1> QED
  BY <1>2, <1>3 DEF RoomInv, StopsUnlessAbsorbed

LEMMA AdvanceRoom ==
    ASSUME Binary, RoomInv, GridInv, Advance
    PROVE  RoomInv'
<1>1. PICK n \in Floats : n = Round(time + Dt)
  BY AdvanceTime DEF Advance
<1>2. /\ n = time' /\ (n = time => Absorbed(time))
      /\ (n < duration => n = Round(time + step))
  BY <1>1, AdvanceTime DEF Advance
<1>3. /\ times' = Append(times, n) /\ UNCHANGED <<duration, step, outcome>>
      /\ time < duration /\ Running /\ More /\ times # <<>>
  BY <1>2 DEF Advance, More, Running
<1>4. /\ times \in Seq(Floats) /\ time \in Floats /\ ~Rejects
      /\ IsArgument(duration) /\ IsArgument(step)
  BY <1>3 DEF GridInv
<1>5. step \in Nat /\ duration \in Floats /\ duration \in Nat /\ time \in Nat /\ n \in Nat
  BY <1>4, FloatsAreNatural DEF IsArgument, Rejects
<1>6. PICK l \in Nat : l = Len(times)
  BY <1>4
<1>7. Len(times') = l + 1
  BY <1>3, <1>4, <1>6
<1>8. Absorbed(time)' <=> Round(n + step) = n
  BY <1>2, <1>3 DEF Absorbed
<1>9. ASSUME More'
      PROVE  Absorbed(time)' \/ 2 * n >= step * l
  <2>1. n < duration
    BY <1>2, <1>3, <1>9 DEF More
  <2>2. n = Round(time + step)
    BY <1>2, <2>1
  <2>3. CASE n = time
    BY <1>8, <2>2, <2>3
  <2>4. CASE n # time
    <3>1. 2 * n >= 2 * time + step
      BY <1>4, <1>5, <2>1, <2>2, <2>4, HalfAStep
    <3>2. 2 * time >= step * (l - 1)
      BY <1>3, <1>6, <2>2, <2>4 DEF RoomInv, StopsUnlessAbsorbed, Absorbed
    <3>3. step * l = step * (l - 1) + step
      BY <1>5, <1>6
    <3>4. step * (l - 1) \in Int
      BY <1>5, <1>6
    <3> QED
      BY <1>5, <3>1, <3>2, <3>3, <3>4
  <2> QED
    BY <2>3, <2>4
<1>10. Len(times') - 1 = l
  BY <1>6, <1>7
<1>11. outcome' # "no memory"
  BY <1>3 DEF Running
<1> QED
  BY <1>2, <1>3, <1>9, <1>10, <1>11 DEF RoomInv, StopsUnlessAbsorbed

LEMMA EndRoom ==
    ASSUME EnoughMemory, RoomInv, GridInv, Collapse \/ Exhaust \/ Finish
    PROVE  RoomInv'
<1>1. /\ UNCHANGED <<duration, step, time, times>> /\ Running
      /\ outcome' # "none"
      /\ outcome' = "no memory" => More /\ Len(times) = MaxPoints
  BY DEF Collapse, Exhaust, Finish
<1>2. Absorbed(time)' = Absorbed(time) /\ ~Running'
  BY <1>1 DEF Absorbed, Running
<1>3. ASSUME outcome' = "no memory"
      PROVE  Absorbed(time)
  <2>1. SUFFICES ASSUME ~Absorbed(time) PROVE FALSE
    OBVIOUS
  <2>2. 2 * time >= step * (MaxPoints - 1)
    BY <1>1, <1>3, <2>1 DEF RoomInv, StopsUnlessAbsorbed
  <2>3. /\ time \in Floats /\ duration \in Durations /\ step \in Steps
        /\ step > 0 /\ step \in Int
    <3>1. ~Rejects /\ time \in Floats /\ IsArgument(step)
      BY <1>1 DEF GridInv, Running
    <3> QED
      BY <3>1 DEF RoomInv, Rejects, IsArgument
  <2>4. time < duration /\ Round(time + step) # time
    BY <1>1, <1>3, <2>1 DEF More, Absorbed
  <2>5. 2 * time < step * (MaxPoints - 1)
    BY <2>3, <2>4 DEF EnoughMemory
  <2>6. time \in Nat /\ step * (MaxPoints - 1) \in Int
    BY <2>3, MaxPointsAssumption, FloatsAreNatural
  <2> QED
    BY <2>2, <2>5, <2>6
<1> QED
  BY <1>1, <1>2, <1>3 DEF RoomInv, StopsUnlessAbsorbed

LEMMA SameRoom ==
    ASSUME RoomInv, UNCHANGED propagation
    PROVE  RoomInv'
<1>1. UNCHANGED <<duration, step, time, times, outcome>>
  BY DEF propagation
<1>2. Running' = Running /\ More' = More /\ Absorbed(time)' = Absorbed(time)
  BY <1>1 DEF Running, More, Absorbed
<1> QED
  BY <1>1, <1>2 DEF RoomInv, StopsUnlessAbsorbed

\* Propagate ends for lack of memory only if time stands still: with room for
\* two points per step it returns, because every step that counts gets at least
\* half of its way.
THEOREM StopsWithRoom == Binary /\ EnoughMemory => (Spec => []StopsUnlessAbsorbed)
<1> SUFFICES ASSUME Binary, EnoughMemory
             PROVE  Spec => []StopsUnlessAbsorbed
  OBVIOUS
<1>1. Init => RoomInv
  BY CallRoom DEF Init
<1>2. IInv /\ RoomInv /\ [Next]_vars => RoomInv'
  <2> SUFFICES ASSUME GridInv, RoomInv, [Next]_vars PROVE RoomInv'
    BY DEF IInv
  <2>1. CASE Propagating
    BY <2>1, StartRoom, AdvanceRoom, EndRoom DEF Propagating, Propagate
  <2>2. CASE Rerun
    BY <2>2, CallRoom DEF Rerun
  <2>3. CASE UNCHANGED propagation
    BY <2>3, SameRoom
  <2> QED
    BY <2>1, <2>2, <2>3
       DEF Next, Catch, Open, Put, Flush, DeviceFull, Close, Kill, Stop, vars
<1>3. RoomInv => StopsUnlessAbsorbed
  BY DEF RoomInv
<1> QED
  BY <1>1, <1>2, <1>3, Invariance, PTL DEF Spec
=============================================================================
