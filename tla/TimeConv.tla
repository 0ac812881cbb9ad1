------------------------------ MODULE TimeConv -------------------------------
(***************************************************************************)
(* What the StartTimer overloads of include/msglib/TimerManager.h make of  *)
(* the time they are given: the conversions of detail/TimeConv.h and what  *)
(* timer_settime does with their results.  The program starts one timer    *)
(* after the other while its clock runs, one tick a nanosecond.            *)
(***************************************************************************)
EXTENDS Integers

CONSTANTS
  Second,       \* nanoseconds in a second (10^9)
  UsecToNsec,   \* USEC_TO_NSEC
  SecondsToUsec,\* SECONDS_TO_USEC
  Rates,        \* ticks of a duration per second: 1 / P::period
  Counts,       \* values of duration::count() that the program uses
  Secs, Usecs,  \* members of the timevals that the program uses
  MaxNow,       \* bound: readings of the clock
  Never

ASSUME TimeConvAssumption ==
  /\ Second \in Nat \ {0} /\ UsecToNsec \in Nat \ {0} /\ SecondsToUsec \in Nat \ {0}
  /\ Second = SecondsToUsec * UsecToNsec
  /\ Rates \subseteq Nat \ {0}
  /\ Counts \subseteq Int /\ Secs \subseteq Int /\ Usecs \subseteq Int
  /\ MaxNow \in Nat
  /\ Never \notin Int

VARIABLES
  now,      \* the clock, in nanoseconds since its epoch
  request,  \* the time that StartTimer was given
  at,       \* history: when that was
  result,   \* what became of the call
  due       \* when the kernel timer will expire

vars == <<now, request, at, result, due>>

\* A whole number of ticks of 1/rate seconds; duration -= seconds compiles for these.
Durations == [kind : {"duration", "time_point"}, count : Counts, rate : Rates]

Timevals == [kind : {"timeval"}, sec : Secs, usec : Usecs]

NoRequest == [kind |-> "none"]

Init ==
  /\ now \in 0 .. MaxNow
  /\ request = NoRequest
  /\ at = 0
  /\ result = "none"
  /\ due = Never

-----------------------------------------------------------------------------
\* Integer division in C++.
Trunc(a, b) == IF a >= 0 THEN a \div b ELSE -((-a) \div b)

\* Mutant: the nanoseconds of the whole duration.
Chrono2TimespecWhole(d) ==
  [sec |-> Trunc(d.count, d.rate), nsec |-> Trunc(d.count * Second, d.rate)]

\* Mutant: std::chrono::ceil for the nanoseconds.
Chrono2TimespecCeil(d) ==
  LET secs == Trunc(d.count, d.rate) IN
    [sec |-> secs, nsec |-> -Trunc(-((d.count - secs * d.rate) * Second) - d.rate + 1, d.rate)]

Chrono2Timespec(d) ==
  LET secs == Trunc(d.count, d.rate) IN
    [sec |-> secs, nsec |-> Trunc((d.count - secs * d.rate) * Second, d.rate)]

\* Mutant: microseconds are rounded up to the next second.
Timeval2TimespecLoose(tv) ==
  [ok |-> tv.usec <= SecondsToUsec, ts |-> [sec |-> tv.sec, nsec |-> tv.usec * UsecToNsec]]

Timeval2Timespec(tv) ==
  [ok |-> tv.usec < SecondsToUsec, ts |-> [sec |-> tv.sec, nsec |-> tv.usec * UsecToNsec]]

\* The overload for time points: time_since_epoch, in seconds and the rest.
TimePoint2Timespec(tp) ==
  LET secs == Trunc(tp.count, tp.rate) IN
    [sec |-> secs, nsec |-> Trunc(tp.count * Second, tp.rate) - secs * Second]

Valid(ts) == ts.sec >= 0 /\ ts.nsec >= 0 /\ ts.nsec < Second

Zero(ts) == ts.sec = 0 /\ ts.nsec = 0

\* timer_settime(m_timer, 0, ...) in the constructor of Timer: without
\* TIMER_ABSTIME the time is relative, and a zero time disarms.
SetTime(ts) ==
  \/ ~Valid(ts) /\ result' = "throws" /\ due' = Never
  \/ Valid(ts) /\ Zero(ts) /\ result' = "true" /\ due' = Never
  \/ Valid(ts) /\ ~Zero(ts) /\ result' = "true" /\ due' = now + ts.sec * Second + ts.nsec

StartDuration(d) == d.kind = "duration" /\ SetTime(Chrono2Timespec(d))

StartTimeval(tv) ==
  /\ tv.kind = "timeval"
  /\ LET converted == Timeval2Timespec(tv) IN
       \/ converted.ok /\ SetTime(converted.ts)
       \/ ~converted.ok /\ result' = "false" /\ due' = Never

StartTimePoint(tp) == tp.kind = "time_point" /\ SetTime(TimePoint2Timespec(tp))

\* StartTimer for a label that has no timer.
StartTimer(r) ==
  /\ StartDuration(r) \/ StartTimeval(r) \/ StartTimePoint(r)
  /\ request' = r
  /\ at' = now
  /\ UNCHANGED now

Tick ==
  /\ now < MaxNow
  /\ now' = now + 1
  /\ UNCHANGED <<request, at, result, due>>

Next == Tick \/ \E r \in Durations \cup Timevals : StartTimer(r)

Spec == Init /\ [][Next]_vars

-----------------------------------------------------------------------------
(***************************************************************************)
(* The exact time that was asked for is Asked / Scale nanoseconds.         *)
(***************************************************************************)
Asked(r) ==
  IF r.kind = "timeval" THEN (r.sec * SecondsToUsec + r.usec) * UsecToNsec ELSE r.count * Second

Scale(r) == IF r.kind = "timeval" THEN 1 ELSE r.rate

(***************************************************************************)
(* A timer that is armed for a duration or a timeval expires after that    *)
(* time, to the last whole nanosecond: nothing is lost or carried twice    *)
(* between the seconds and the rest.                                       *)
(***************************************************************************)
DelayExact ==
  request.kind \in {"duration", "timeval"} /\ due # Never =>
    /\ (due - at) * Scale(request) <= Asked(request)
    /\ Asked(request) < (due - at + 1) * Scale(request)

(***************************************************************************)
(* StartTimer with a duration throws if it is negative by a nanosecond or  *)
(* more; it succeeds and arms nothing if it is shorter than one, negative  *)
(* ones included; otherwise the timer is armed.                            *)
(***************************************************************************)
DurationOutcome ==
  request.kind = "duration" =>
    /\ result = "throws" <=> Asked(request) <= -Scale(request)
    /\ due # Never <=> Asked(request) >= Scale(request)
    /\ result # "false"

(***************************************************************************)
(* StartTimer with a timeval arms a timer only if it is normalized and not *)
(* zero; a second or more of microseconds is the only reason for false.    *)
(***************************************************************************)
TimevalOutcome ==
  request.kind = "timeval" =>
    /\ result = "false" <=> request.usec >= SecondsToUsec
    /\ due # Never <=> /\ request.sec >= 0
                       /\ request.usec >= 0 /\ request.usec < SecondsToUsec
                       /\ Asked(request) # 0

(***************************************************************************)
(* A timer for a time point that is yet to come expires at that time, "at  *)
(* a specific time" (TimerManager.h:93), not later.                        *)
(***************************************************************************)
AtTheTime ==
  request.kind = "time_point" /\ due # Never /\ Asked(request) > at * Scale(request) =>
    due * Scale(request) <= Asked(request)
=============================================================================
