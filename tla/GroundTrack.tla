---------------------------- MODULE GroundTrack ----------------------------
(***************************************************************************)
(* The ground track of satellite-ground-sw/02_orbit-engine, from end to    *)
(* end: main propagates an orbit, converts its points and writes           *)
(* output/ground_track.csv; tools/plot_ground_track.py draws the map of    *)
(* what that file holds whenever it is run.  The two programs share        *)
(* nothing but the file and know nothing of each other.                    *)
(*                                                                         *)
(* The stream's buffer reaches the file when it is full, not at the end of *)
(* a row; the device may be full; main may be killed and run again.        *)
(* The duration, the step and the orbit are literals in main; here each    *)
(* run may have others, as after an edit of main.  The orbit is given as   *)
(* positions, and RK4Step is left to OrbitPropagator.                      *)
(***************************************************************************)
EXTENDS OrbitPropagator, CoordinateConverter, SequencesExt

CONSTANTS
    Durations, Steps,  \* what Propagate is asked for
    Orbits,            \* positions at the successive points of a trajectory
    MaxRuns            \* bound: how often main is run

ASSUME ArgumentsAssumption == \A x \in Durations \cup Steps : IsArgument(x)

ASSUME MaxRunsAssumption == MaxRuns \in Nat \ {0}

ASSUME OrbitsAssumption ==
    \A o \in Orbits : \A k \in 1 .. MaxPoints : o[k] \in Vectors(Int)

\* Memory has room for twice as many steps as lead to any time at which a step
\* is not lost to rounding; for the 5400 and 60 seconds of main, 181 points.
EnoughMemory ==
    \A d \in Durations, s \in Steps, t \in Floats :
        0 < s /\ t < d /\ Round(t + s) # t => 2 * t < s * (MaxPoints - 1)

VARIABLES
    runs,     \* how often main was started
    orbit,    \* the orbit of this run
    pc,       \* what main does next
    put,      \* how many rows main has handed to the stream
    sent,     \* how many of them have got to the file
    broken,   \* the stream has failed
    message,  \* what main has said of the file
    file,     \* the rows of ground_track.csv; <<>> if there is no file, too
    torn      \* only a part of the last of them is there

vars == <<propagation, runs, orbit, pc, put, sent, broken, message, file, torn>>

\* The line of column names.
Header == [kind |-> "header"]

\* Where point k of the trajectory is above the earth.
Geodetic(k) == EcefToGeodetic(EciToEcef(orbit[k], times[k]))

\* A row of the file; run and point tell for the properties where it is from.
Row(k) ==
    [kind |-> "point", run |-> runs, point |-> k, at |-> Geodetic(k)]

\* The rows that main writes.
Rows == <<Header>> \o [k \in 1 .. Len(times) |-> Row(k)]

Init ==
    /\ \E d \in Durations, s \in Steps : Called(d, s)
    /\ runs = 1
    /\ orbit \in Orbits
    /\ pc = "propagate"
    /\ put = 0
    /\ sent = 0
    /\ broken = FALSE
    /\ message = "none"
    /\ file = <<>>
    /\ torn = FALSE

-----------------------------------------------------------------------------
(* main and WriteCsv.                                                      *)

Propagating ==
    /\ pc = "propagate" /\ Propagate
    /\ UNCHANGED <<runs, orbit, pc, put, sent, broken, message, file, torn>>

\* mutant: main reports the exception and goes on
CatchGoesOn ==
    /\ pc = "propagate" /\ outcome \notin {"none", "returned"}
    /\ pc' = "write"
    /\ file' = <<>> /\ torn' = FALSE
    /\ UNCHANGED <<propagation, runs, orbit, put, sent, broken, message>>

\* main reports an exception and returns 1: that of Propagate, or that there is
\* no memory for the converted points.
Catch ==
    /\ pc = "propagate" /\ outcome # "none"
    /\ pc' = "exit 1"
    /\ UNCHANGED <<propagation, runs, orbit, put, sent, broken, message, file, torn>>

\* mutant: the file is opened before there is anything to write
OpenEarly ==
    /\ pc = "propagate"
    /\ \/ outcome = "none" /\ file # <<>> /\ UNCHANGED pc
       \/ outcome = "returned" /\ pc' = "write"
    /\ file' = <<>> /\ torn' = FALSE
    /\ UNCHANGED <<propagation, runs, orbit, put, sent, broken, message>>

\* mutant: the file is opened for appending
OpenAppend ==
    /\ pc = "propagate" /\ outcome = "returned"
    /\ pc' = "write"
    /\ UNCHANGED <<propagation, runs, orbit, put, sent, broken, message, file, torn>>

\* All points have been converted, and ofstream truncates the file.  If it cannot
\* be opened, main says so and returns 0.  There are as many points as times, so
\* WriteCsv never refuses them.
Open ==
    /\ pc = "propagate" /\ outcome = "returned"
    /\ \/ pc' = "write" /\ file' = <<>> /\ torn' = FALSE /\ UNCHANGED message
       \/ pc' = "exit 0" /\ message' = "failed" /\ UNCHANGED <<file, torn>>
    /\ UNCHANGED <<propagation, runs, orbit, put, sent, broken>>

\* One row, the names of the columns first.
Put ==
    /\ pc = "write" /\ put < Len(Rows)
    /\ put' = put + 1
    /\ UNCHANGED <<propagation, runs, orbit, pc, sent, broken, message, file, torn>>

\* A bit more of the buffer goes to the file: the first part of a row, or the
\* rest of it.
Flush ==
    /\ pc = "write" /\ ~broken
    /\ IF torn
       THEN torn' = FALSE /\ UNCHANGED <<sent, file>>
       ELSE /\ sent < put
            /\ file' = Append(file, Rows[sent + 1]) /\ torn' = TRUE
            /\ sent' = sent + 1
    /\ UNCHANGED <<propagation, runs, orbit, pc, put, broken, message>>

\* The device is full: the stream goes bad, which nobody asks it about.
DeviceFull ==
    /\ pc = "write" /\ ~broken
    /\ broken' = TRUE
    /\ UNCHANGED <<propagation, runs, orbit, pc, put, sent, message, file, torn>>

\* mutant: the stream is never closed, and its buffer is lost
CloseUnflushed ==
    /\ pc = "write" /\ put = Len(Rows)
    /\ pc' = "exit 0"
    /\ message' = "saved"
    /\ UNCHANGED <<propagation, runs, orbit, put, sent, broken, file, torn>>

\* WriteCsv returns true, and its stream is flushed and closed.
Close ==
    /\ pc = "write" /\ put = Len(Rows)
    /\ pc' = "exit 0"
    /\ message' = "saved"
    /\ IF broken
       THEN UNCHANGED <<sent, file, torn>>
       ELSE /\ file' = file \o SubSeq(Rows, sent + 1, put) /\ torn' = FALSE
            /\ sent' = put
    /\ UNCHANGED <<propagation, runs, orbit, put, broken>>

Kill ==
    /\ pc \in {"propagate", "write"}
    /\ pc' = "killed"
    /\ UNCHANGED <<propagation, runs, orbit, put, sent, broken, message, file, torn>>

\* main is started again; the file is what the last run has left.
Rerun ==
    /\ pc \in {"exit 0", "exit 1", "killed"}
    /\ runs < MaxRuns
    /\ runs' = runs + 1
    /\ \E d \in Durations, s \in Steps : Call(d, s)
    /\ orbit' \in Orbits
    /\ pc' = "propagate"
    /\ put' = 0 /\ sent' = 0 /\ broken' = FALSE /\ message' = "none"
    /\ UNCHANGED <<file, torn>>

\* All runs are over.
Stop ==
    /\ pc \in {"exit 0", "exit 1", "killed"}
    /\ runs = MaxRuns
    /\ UNCHANGED vars

Next ==
    \/ Propagating
    \/ Catch
    \/ Open
    \/ Put
    \/ Flush
    \/ DeviceFull
    \/ Close
    \/ Kill
    \/ Rerun
    \/ Stop

Spec == Init /\ [][Next]_vars

-----------------------------------------------------------------------------
(* plot_ground_track.py.                                                   *)

\* What it may take row r for when only a part of it is there, if it draws it:
\* of the longitude some digits may be missing, as in -1 for -177.08.  With
\* fewer columns than two coordinates, or names for them, it is an error.
Readings(r) ==
    LET full == r.at.longitude
    IN  IF r = Header THEN {}
        ELSE {[r EXCEPT !.at.longitude = a] : a \in Angles \cap ((0 .. full) \cup (full .. 0))}

\* The rows that build_map may draw if it is run now; it fails and draws nothing
\* if it finds no file, not all the column names, no point, or less of the last
\* one than it needs.
Drawings ==
    IF Len(file) < 2 THEN {}
    ELSE IF ~torn THEN {Tail(file)}
    ELSE {Append(Front(Tail(file)), r) : r \in Readings(Last(file))}

\* mutant: a jump across the dateline is measured without its sign
CrossesOneWay(prev, curr) == curr.longitude - prev.longitude > 180

Crosses(prev, curr) == Abs(curr.longitude - prev.longitude) > 180

\* split_by_dateline: one more point, which begins a segment after the dateline.
Extend(segments, prev, curr) ==
    IF Crosses(prev, curr)
    THEN Append(segments, <<curr>>)
    ELSE Append(Front(segments), Append(Last(segments), curr))

\* The segments of the line through these points.
Split(points) ==
    LET upTo[n \in 1 .. Len(points)] ==
            IF n = 1 THEN <<<<points[1]>>>>
            ELSE Extend(upTo[n - 1], points[n - 1], points[n])
    IN  IF points = <<>> THEN <<>> ELSE upTo[Len(points)]

-----------------------------------------------------------------------------
FileRows ==
    {Header} \cup
    [kind : {"point"}, run : 1 .. MaxRuns, point : 1 .. MaxPoints,
     at : [latitude : Angles, longitude : Angles]]

\* The stream never puts in the file what it has not been given, and main is
\* only ever writing a track that Propagate has returned.
TypeOK ==
    /\ runs \in 1 .. MaxRuns
    /\ orbit \in Orbits
    /\ outcome \in Outcomes
    /\ pc \in {"propagate", "write", "exit 0", "exit 1", "killed"}
    /\ sent \in 0 .. put /\ put \in 0 .. Len(Rows)
    /\ broken \in BOOLEAN
    /\ message \in {"none", "saved", "failed"}
    /\ file \in Seq(FileRows)
    /\ torn \in BOOLEAN
    /\ pc \in {"write", "exit 0"} => outcome = "returned"

\* The rows of f are the first of one track, in order, none missing in between.
OneTrack(f) ==
    /\ f # <<>> => f[1] = Header
    /\ \A k \in 1 .. Len(f) - 1 :
           f[k + 1].kind = "point" /\ f[k + 1].run = f[2].run /\ f[k + 1].point = k

\* Whatever the map tool makes of the file, also in the middle of a run, after
\* a full device, a kill, or a rerun over an older file: the points it draws are
\* the first of one track, none missing in between.  Those of the present run
\* are where the satellite was, all but the last, whose longitude is too near to
\* zero if its row is torn.
MapShowsOneTrack ==
    \A rows \in Drawings :
        \A k \in DOMAIN rows :
            /\ rows[k].kind = "point" /\ rows[k].run = rows[1].run /\ rows[k].point = k
            /\ rows[k].run = runs =>
                   /\ k \in DOMAIN times
                   /\ rows[k].at.latitude = Geodetic(k).latitude
                   /\ \/ rows[k].at.longitude = Geodetic(k).longitude
                      \/ /\ torn /\ k = Len(rows)
                         /\ Abs(rows[k].at.longitude) < Abs(Geodetic(k).longitude)

\* As long as the device has room, "saved" means that the whole track is there.
SavedUnlessDeviceFull == message = "saved" /\ ~broken => file = Rows /\ ~torn

\* Why: while main writes, the rows in the file are the first of its own.  What
\* another run has left is one track too, and nothing touches it before main
\* truncates the file.
FileInv ==
    /\ torn => file # <<>>
    /\ \/ pc # "propagate" /\ file = SubSeq(Rows, 1, sent)
       \/ /\ pc # "write" /\ OneTrack(file)
          /\ \A k \in 1 .. Len(file) - 1 : file[k + 1].run < runs
    /\ pc = "propagate" => put = 0 /\ sent = 0 /\ ~broken
    /\ pc # "exit 0" => message = "none"
    /\ SavedUnlessDeviceFull

IInv == TypeOK /\ GridInv /\ FileInv

\* Seen from the earth the satellite lags behind the stars by a quarter turn per
\* unit of time: the longitude of each point is the one it would have on an
\* earth at rest, less that, unless it is on the axis; the latitude is the same.
TrackLagsBehindStars ==
    \A k \in DOMAIN times :
        LET star == EcefToGeodetic(orbit[k])
            here == Geodetic(k)
        IN  /\ here.latitude = star.latitude
            /\ \/ orbit[k].x = 0 /\ orbit[k].y = 0
               \/ (star.longitude - here.longitude - 90 * times[k]) % 360 = 0

\* The segments on the map contain every point once and in order; none of them
\* crosses the dateline, and they part only where the track crosses it.
SegmentsPartAtDateline ==
    \A rows \in Drawings :
        LET points == [k \in DOMAIN rows |-> rows[k].at]
            segments == Split(points)
            Jump(p, q) == q.longitude - p.longitude
        IN  /\ FlattenSeq(segments) = points
            /\ \A i \in DOMAIN segments :
                   /\ segments[i] # <<>>
                   /\ \A k \in 1 .. Len(segments[i]) - 1 :
                          Jump(segments[i][k], segments[i][k + 1]) \in -180 .. 180
            /\ \A i \in 1 .. Len(segments) - 1 :
                   Jump(Last(segments[i]), Head(segments[i + 1])) \notin -180 .. 180

\* A run that fails to propagate leaves the file of the last run alone.
FileReplacedByFullTrack == [][file' # file => outcome = "returned"]_vars

-----------------------------------------------------------------------------
(* What main says and the code does not do.                                *)

\* main says that ground_track.csv was saved when it was.
SavedMeansSaved == message = "saved" => file = Rows /\ ~torn
=============================================================================
