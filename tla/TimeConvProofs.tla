--------------------------- MODULE TimeConvProofs ----------------------------
(***************************************************************************)
(* Proofs about TimeConv: the conversions are exact for every length of a  *)
(* second, every unit and every value.                                     *)
(***************************************************************************)
EXTENDS TimeConv, TLAPS

(***************************************************************************)
(* The quotient of natural numbers, which is Trunc for them.               *)
(***************************************************************************)
LEMMA Quotient ==
  ASSUME NEW a \in Nat, NEW b \in Nat \ {0}
  PROVE  /\ Trunc(a, b) \in Nat
         /\ Trunc(a, b) * b <= a
         /\ a < (Trunc(a, b) + 1) * b
  BY DEF Trunc

(***************************************************************************)
(* The quotient of a negative number is that of its absolute value.        *)
(***************************************************************************)
LEMMA NegativeQuotient ==
  ASSUME NEW a \in Nat, NEW b \in Nat \ {0}
  PROVE  Trunc(-a, b) = -Trunc(a, b)
<1>1. CASE a = 0
  <2>1. Trunc(0, b) = 0
    <3>1. Trunc(0, b) \in Nat /\ Trunc(0, b) * b <= 0
      BY Quotient
    <3> QED
      BY <3>1
  <2> QED
    BY <1>1, <2>1
<1>2. CASE a # 0
  BY <1>2 DEF Trunc
<1> QED
  BY <1>1, <1>2

(***************************************************************************)
(* A number lies between the products around it in one place only.         *)
(***************************************************************************)
LEMMA ProductOrder ==
  ASSUME NEW x \in Int, NEW y \in Int, NEW b \in Nat \ {0}, x * b < y * b
  PROVE  x < y
<1>1. SUFFICES ASSUME y <= x
               PROVE  y * b <= x * b
  OBVIOUS
<1>2. PICK d \in Nat : x = y + d
  <2>1. x - y \in Nat /\ x = y + (x - y)
    BY <1>1
  <2> QED
    BY <2>1
<1>3. x * b = y * b + d * b
  BY <1>2
<1>4. d * b >= 0
  BY <1>2
<1> QED
  BY <1>3, <1>4

-----------------------------------------------------------------------------
(***************************************************************************)
(* A count that is not negative: the seconds and nanoseconds are those of  *)
(* a valid timespec, and together the whole nanoseconds of the duration.   *)
(***************************************************************************)
LEMMA SplitNatural ==
  ASSUME NEW c \in Nat, NEW k \in Nat \ {0},
         NEW s, s = Trunc(c, k),
         NEW n, n = Trunc((c - s * k) * Second, k)
  PROVE  /\ s \in Nat /\ n \in Nat /\ n < Second
         /\ (s * Second + n) * k <= c * Second
         /\ c * Second < (s * Second + n + 1) * k
<1>1. Second \in Nat \ {0}
  BY TimeConvAssumption
<1>2. s \in Nat /\ s * k <= c /\ c < (s + 1) * k
  BY Quotient
<1>3. PICK r \in Nat : r = c - s * k
  <2>1. c - s * k \in Nat
    BY <1>2
  <2> QED
    BY <2>1
<1>4. r < k
  <2>1. (s + 1) * k = s * k + k
    BY <1>2
  <2> QED
    BY <1>2, <1>3, <2>1
<1>5. PICK x \in Nat : x = r * Second
  BY <1>1
<1>6. x < Second * k
  <2>1. PICK d \in Nat \ {0} : k = r + d
    <3>1. k - r \in Nat \ {0} /\ k = r + (k - r)
      BY <1>4
    <3> QED
      BY <3>1
  <2>2. Second * k = r * Second + Second * d
    BY <1>1, <2>1
  <2>3. Second * d > 0
    BY <1>1
  <2> QED
    BY <1>1, <1>5, <2>2, <2>3
<1>7. n \in Nat /\ n * k <= x /\ x < (n + 1) * k
  BY <1>3, <1>5, Quotient
<1>8. n < Second
  <2>1. n * k < Second * k
    BY <1>1, <1>6, <1>7
  <2> QED
    BY <1>1, <1>7, <2>1, ProductOrder
<1>9. c * Second = s * Second * k + x
  <2>1. c = s * k + r
    BY <1>2, <1>3
  <2>2. (s * k + r) * Second = s * Second * k + r * Second
    BY <1>1, <1>2
  <2> QED
    BY <2>1, <2>2, <1>5
<1>10. (s * Second + n) * k = s * Second * k + n * k
  BY <1>1, <1>2, <1>7
<1>11. (s * Second + n + 1) * k = s * Second * k + (n + 1) * k
  BY <1>1, <1>2, <1>7
<1>12. (s * Second + n) * k <= c * Second
  BY <1>1, <1>2, <1>7, <1>9, <1>10
<1>13. c * Second < (s * Second + n + 1) * k
  BY <1>1, <1>2, <1>7, <1>9, <1>11
<1> QED
  BY <1>2, <1>7, <1>8, <1>12, <1>13

(***************************************************************************)
(* A negative count is split like its absolute value: the conversions      *)
(* truncate towards zero, so that neither part becomes positive.           *)
(***************************************************************************)
LEMMA SplitNegative ==
  ASSUME NEW c \in Nat, NEW k \in Nat \ {0},
         NEW s, s = Trunc(c, k),
         NEW n, n = Trunc((c - s * k) * Second, k),
         NEW t, t = Trunc(-c, k)
  PROVE  t = -s /\ Trunc((-c - t * k) * Second, k) = -n
<1>1. Second \in Nat \ {0}
  BY TimeConvAssumption
<1>2. s \in Nat /\ s * k <= c
  BY Quotient
<1>3. t = -s
  BY NegativeQuotient
<1>4. PICK r \in Nat : r = c - s * k
  <2>1. c - s * k \in Nat
    BY <1>2
  <2> QED
    BY <2>1
<1>5. PICK x \in Nat : x = r * Second
  BY <1>1
<1>6. -c - t * k = -r
  <2>1. t * k = -(s * k)
    BY <1>2, <1>3
  <2> QED
    BY <1>2, <1>4, <2>1
<1>7. (-r) * Second = -x
  BY <1>1, <1>5
<1>8. Trunc(-x, k) = -Trunc(x, k)
  BY NegativeQuotient
<1>9. Trunc((-c - t * k) * Second, k) = Trunc(-x, k)
  BY <1>6, <1>7
<1>10. n = Trunc(x, k)
  BY <1>4, <1>5
<1> QED
  BY <1>3, <1>8, <1>9, <1>10

(***************************************************************************)
(* A product with a number that is not zero is at least the other factor.  *)
(***************************************************************************)
LEMMA ProductAtLeast ==
  ASSUME NEW m \in Nat \ {0}, NEW k \in Nat \ {0}
  PROVE  m * k >= k
<1>1. PICK d \in Nat : m = d + 1
  <2>1. m - 1 \in Nat /\ m = (m - 1) + 1
    OBVIOUS
  <2> QED
    BY <2>1
<1>2. m * k = d * k + k
  BY <1>1
<1>3. d * k >= 0
  OBVIOUS
<1> QED
  BY <1>2, <1>3

(***************************************************************************)
(* What timer_settime makes of a converted duration, for a count that is   *)
(* not negative: the total is zero exactly if the duration is shorter than *)
(* a nanosecond.                                                           *)
(***************************************************************************)
LEMMA TotalZero ==
  ASSUME NEW c \in Nat, NEW k \in Nat \ {0},
         NEW s, s = Trunc(c, k),
         NEW n, n = Trunc((c - s * k) * Second, k)
  PROVE  s = 0 /\ n = 0 <=> c * Second < k
<1>1. Second \in Nat \ {0}
  BY TimeConvAssumption
<1>2. /\ s \in Nat /\ n \in Nat
      /\ (s * Second + n) * k <= c * Second
      /\ c * Second < (s * Second + n + 1) * k
  BY SplitNatural
<1>3. ASSUME s = 0, n = 0
      PROVE  c * Second < k
  <2>1. s * Second + n + 1 = 1
    BY <1>1, <1>3
  <2>2. 1 * k = k
    OBVIOUS
  <2> QED
    BY <1>1, <1>2, <2>1, <2>2
<1>4. ASSUME ~(s = 0 /\ n = 0)
      PROVE  c * Second >= k
  <2>1. s # 0 => s * Second >= Second
    BY <1>1, <1>2, ProductAtLeast
  <2>2. s = 0 => s * Second = 0
    BY <1>1
  <2>3. PICK p \in Nat : p = s * Second
    BY <1>1, <1>2
  <2>4. s * Second + n \in Nat \ {0}
    <3>1. CASE s = 0
      BY <1>2, <1>4, <2>2, <2>3, <3>1
    <3>2. CASE s # 0
      BY <1>1, <1>2, <2>1, <2>3, <3>2
    <3> QED
      BY <3>1, <3>2
  <2>5. (s * Second + n) * k >= k
    BY <2>4, ProductAtLeast
  <2>6. (s * Second + n) * k \in Int /\ c * Second \in Int
    BY <1>1, <2>4
  <2> QED
    BY <1>2, <2>5, <2>6
<1>5. c * Second \in Int
  BY <1>1
<1> QED
  BY <1>3, <1>4, <1>5

(***************************************************************************)
(* The three cases of timer_settime for any count: a timespec is valid     *)
(* unless the duration is negative by a nanosecond or more, and armed if   *)
(* it is a nanosecond or more.                                             *)
(***************************************************************************)
SecOf(c, k) == Trunc(c, k)

NsecOf(c, k) == Trunc((c - SecOf(c, k) * k) * Second, k)

LEMMA Converted ==
  ASSUME NEW c \in Int, NEW k \in Nat \ {0}
  PROVE  /\ SecOf(c, k) \in Int /\ NsecOf(c, k) \in Int
         /\ SecOf(c, k) >= 0 /\ NsecOf(c, k) >= 0 /\ NsecOf(c, k) < Second
              <=> c * Second > -k
         /\ SecOf(c, k) = 0 /\ NsecOf(c, k) = 0 <=> c * Second > -k /\ c * Second < k
         /\ c * Second >= k =>
              /\ (SecOf(c, k) * Second + NsecOf(c, k)) * k <= c * Second
              /\ c * Second < (SecOf(c, k) * Second + NsecOf(c, k) + 1) * k
<1> DEFINE s == SecOf(c, k)
           n == NsecOf(c, k)
<1>0. s = Trunc(c, k) /\ n = Trunc((c - s * k) * Second, k)
  BY DEF SecOf, NsecOf
<1> HIDE DEF s, n
<1> SUFFICES /\ s \in Int /\ n \in Int
             /\ s >= 0 /\ n >= 0 /\ n < Second <=> c * Second > -k
             /\ s = 0 /\ n = 0 <=> c * Second > -k /\ c * Second < k
             /\ c * Second >= k =>
                  /\ (s * Second + n) * k <= c * Second
                  /\ c * Second < (s * Second + n + 1) * k
  BY DEF s, n
<1>1. Second \in Nat \ {0}
  BY TimeConvAssumption
<1>2. CASE c >= 0
  <2>1. c \in Nat
    BY <1>2
  <2>2. /\ s \in Nat /\ n \in Nat /\ n < Second
        /\ (s * Second + n) * k <= c * Second
        /\ c * Second < (s * Second + n + 1) * k
    BY <1>0, <2>1, SplitNatural
  <2>3. s = 0 /\ n = 0 <=> c * Second < k
    BY <1>0, <2>1, TotalZero
  <2>4. c * Second \in Nat
    BY <1>1, <2>1
  <2>5. c * Second > -k
    BY <2>4
  <2> QED
    BY <2>2, <2>3, <2>5
<1>3. CASE c < 0
  <2>1. PICK b \in Nat : c = -b
    <3>1. -c \in Nat /\ c = -(-c)
      BY <1>3
    <3> QED
      BY <3>1
  <2>2. PICK u : u = Trunc(b, k)
    OBVIOUS
  <2>3. PICK v : v = Trunc((b - u * k) * Second, k)
    OBVIOUS
  <2>4. u \in Nat /\ v \in Nat
    BY <2>2, <2>3, SplitNatural
  <2>5. s = -u /\ n = -v
    <3>1. s = Trunc(-b, k) /\ n = Trunc((-b - s * k) * Second, k)
      BY <1>0, <2>1
    <3> QED
      BY <2>2, <2>3, <3>1, SplitNegative
  <2>6. u = 0 /\ v = 0 <=> b * Second < k
    BY <2>2, <2>3, TotalZero
  <2>7. PICK q \in Nat : q = b * Second
    BY <1>1
  <2>8. c * Second = -q
    BY <1>1, <2>1, <2>7
  <2>9. c * Second < k /\ ~(c * Second >= k)
    BY <2>8
  <2>10. c * Second > -k <=> u = 0 /\ v = 0
    BY <2>6, <2>7, <2>8
  <2>11. s >= 0 /\ n >= 0 /\ n < Second <=> u = 0 /\ v = 0
    BY <1>1, <2>4, <2>5
  <2>12. s = 0 /\ n = 0 <=> u = 0 /\ v = 0
    BY <2>4, <2>5
  <2> QED
    BY <2>4, <2>5, <2>9, <2>10, <2>11, <2>12
<1> QED
  BY <1>2, <1>3

-----------------------------------------------------------------------------
Outcomes == DelayExact /\ DurationOutcome /\ TimevalOutcome

(***************************************************************************)
(* StartTimer with a duration.                                             *)
(***************************************************************************)
LEMMA DurationStep ==
  ASSUME now \in Int, NEW r \in Durations, r.kind = "duration", StartTimer(r)
  PROVE  Outcomes'
<1>1. r.count \in Int /\ r.rate \in Nat \ {0} /\ Second \in Nat \ {0}
  BY TimeConvAssumption DEF Durations
<1>2. PICK c \in Int : c = r.count
  BY <1>1
<1>3. PICK k \in Nat \ {0} : k = r.rate
  BY <1>1
<1>4. PICK s : s = SecOf(c, k)
  OBVIOUS
<1>5. PICK n : n = NsecOf(c, k)
  OBVIOUS
<1>6. PICK q \in Int : q = c * Second
  BY <1>1
<1>7. /\ s \in Int /\ n \in Int
      /\ s >= 0 /\ n >= 0 /\ n < Second <=> q > -k
      /\ s = 0 /\ n = 0 <=> q > -k /\ q < k
      /\ q >= k => (s * Second + n) * k <= q /\ q < (s * Second + n + 1) * k
  BY <1>4, <1>5, <1>6, Converted
<1>8. Chrono2Timespec(r) = [sec |-> s, nsec |-> n]
  BY <1>2, <1>3, <1>4, <1>5 DEF Chrono2Timespec, SecOf, NsecOf
<1>9. SetTime([sec |-> s, nsec |-> n]) /\ request' = r /\ at' = now
  BY <1>8 DEF StartTimer, StartDuration, StartTimeval, StartTimePoint
<1>10. Asked(r) = q /\ Scale(r) = k
  BY <1>2, <1>3, <1>6 DEF Asked, Scale
<1>11. \/ ~(q > -k) /\ result' = "throws" /\ due' = Never
       \/ q > -k /\ q < k /\ result' = "true" /\ due' = Never
       \/ q > -k /\ ~(q < k) /\ result' = "true" /\ due' = now + s * Second + n
  BY <1>7, <1>9 DEF SetTime, Valid, Zero
<1>12. PICK p \in Int : p = s * Second
  BY <1>1, <1>7
<1>13. now + s * Second + n \in Int /\ Never \notin Int
  BY <1>7, <1>12, TimeConvAssumption
<1>15. result' = "throws" <=> q <= -k
  BY <1>11
<1>16. due' # Never <=> q >= k
  BY <1>11, <1>13
<1>17. DurationOutcome'
  BY <1>9, <1>10, <1>11, <1>15, <1>16 DEF DurationOutcome, Asked, Scale
<1>18. TimevalOutcome'
  BY <1>9 DEF TimevalOutcome
<1>19. ASSUME due' # Never
       PROVE  (due' - at') * k <= q /\ q < (due' - at' + 1) * k
  <2>1. due' = now + s * Second + n
    BY <1>11, <1>19
  <2>2. at' = now
    BY <1>9
  <2>3. PICK e \in Int : e = now + s * Second + n
    BY <1>13
  <2>4. e - now = s * Second + n
    BY <1>7, <1>12, <2>3
  <2>5. due' - at' = s * Second + n
    BY <2>1, <2>2, <2>3, <2>4
  <2> QED
    BY <1>7, <1>16, <1>19, <2>5
<1>20. DelayExact'
  BY <1>9, <1>10, <1>19 DEF DelayExact, Asked, Scale
<1> QED
  BY <1>17, <1>18, <1>20 DEF Outcomes

(***************************************************************************)
(* StartTimer with a timeval.                                              *)
(***************************************************************************)
LEMMA TimevalStep ==
  ASSUME now \in Int, NEW r \in Timevals, StartTimer(r)
  PROVE  Outcomes'
<1>1. /\ r.kind = "timeval" /\ r.sec \in Int /\ r.usec \in Int
      /\ Second \in Nat \ {0} /\ UsecToNsec \in Nat \ {0} /\ SecondsToUsec \in Nat \ {0}
      /\ Second = SecondsToUsec * UsecToNsec /\ Never \notin Int
  BY TimeConvAssumption DEF Timevals
<1>2. PICK n \in Int : n = r.usec * UsecToNsec
  BY <1>1
<1>3. PICK p \in Int : p = r.sec * Second
  BY <1>1
<1>4. request' = r /\ at' = now
  BY DEF StartTimer
<1>5. \/ /\ r.usec < SecondsToUsec
         /\ SetTime([sec |-> r.sec, nsec |-> n])
      \/ ~(r.usec < SecondsToUsec) /\ result' = "false" /\ due' = Never
  BY <1>1, <1>2 DEF StartTimer, StartDuration, StartTimeval, StartTimePoint, Timeval2Timespec
<1>6. Asked(r) = p + n /\ Scale(r) = 1
  <2>1. (r.sec * SecondsToUsec + r.usec) * UsecToNsec
          = r.sec * (SecondsToUsec * UsecToNsec) + r.usec * UsecToNsec
    BY <1>1
  <2> QED
    BY <1>1, <1>2, <1>3, <2>1 DEF Asked, Scale
<1>7. r.usec >= 0 <=> n >= 0
  BY <1>1, <1>2
<1>8. r.usec < SecondsToUsec => n < Second
  BY <1>1, <1>2
<1>9. r.sec >= 0 <=> p >= 0
  BY <1>1, <1>3
<1>10. r.sec = 0 <=> p = 0
  BY <1>1, <1>3
<1>11. \/ ~(r.usec < SecondsToUsec) /\ result' = "false" /\ due' = Never
       \/ /\ r.usec < SecondsToUsec
          /\ result' # "false"
          /\ \/ ~(p >= 0 /\ n >= 0) /\ due' = Never
             \/ p >= 0 /\ n >= 0 /\ p = 0 /\ n = 0 /\ due' = Never
             \/ p >= 0 /\ n >= 0 /\ ~(p = 0 /\ n = 0) /\ due' = now + p + n
  BY <1>3, <1>5, <1>7, <1>8, <1>9, <1>10 DEF SetTime, Valid, Zero
<1>12. DelayExact'
  <2>1. due' # Never => due' - at' = p + n
    BY <1>4, <1>11
  <2> QED
    BY <1>4, <1>6, <2>1 DEF DelayExact, Asked, Scale
<1>13. DurationOutcome'
  BY <1>1, <1>4 DEF DurationOutcome
<1>14. result' = "false" <=> r.usec >= SecondsToUsec
  BY <1>1, <1>11
<1>15. due' # Never <=> /\ r.sec >= 0 /\ r.usec >= 0 /\ r.usec < SecondsToUsec
                       /\ p + n # 0
  BY <1>1, <1>7, <1>9, <1>11
<1>16. TimevalOutcome'
  BY <1>4, <1>6, <1>14, <1>15 DEF TimevalOutcome, Asked
<1> QED
  BY <1>12, <1>13, <1>16 DEF Outcomes

-----------------------------------------------------------------------------
(***************************************************************************)
(* The outcomes of every call, with a clock that is a number.              *)
(***************************************************************************)
LEMMA OutcomesHold == Spec => [](now \in Int /\ Outcomes)
<1> DEFINE Inv == now \in Int /\ Outcomes
<1>1. Init => Inv
  BY TimeConvAssumption
  DEF Init, Outcomes, DelayExact, DurationOutcome, TimevalOutcome, NoRequest
<1>2. Inv /\ [Next]_vars => Inv'
  <2> SUFFICES ASSUME now \in Int, Outcomes, [Next]_vars
               PROVE  now' \in Int /\ Outcomes'
    OBVIOUS
  <2>1. CASE Tick
    BY <2>1
    DEF Tick, Outcomes, DelayExact, DurationOutcome, TimevalOutcome, Asked, Scale
  <2>2. CASE UNCHANGED vars
    BY <2>2
    DEF vars, Outcomes, DelayExact, DurationOutcome, TimevalOutcome, Asked, Scale
  <2>3. ASSUME NEW r \in Durations \cup Timevals, StartTimer(r)
        PROVE  now' \in Int /\ Outcomes'
    <3>1. now' \in Int
      BY <2>3 DEF StartTimer
    <3>2. CASE r \in Timevals
      BY <2>3, <3>1, <3>2, TimevalStep
    <3>3. CASE r \in Durations /\ r.kind = "duration"
      BY <2>3, <3>1, <3>3, DurationStep
    <3>4. CASE r \in Durations /\ r.kind = "time_point"
      <4>1. request'.kind = "time_point"
        BY <2>3, <3>4 DEF StartTimer
      <4> QED
        BY <3>1, <4>1 DEF Outcomes, DelayExact, DurationOutcome, TimevalOutcome
    <3> QED
      BY <2>3, <3>2, <3>3, <3>4 DEF Durations
  <2> QED
    BY <2>1, <2>2, <2>3 DEF Next
<1> QED
  BY <1>1, <1>2, PTL DEF Spec

(***************************************************************************)
(* Chrono2Timespec and Timeval2Timespec lose less than a nanosecond, for   *)
(* every unit and every value.                                             *)
(***************************************************************************)
THEOREM TimeConvDelayExact == Spec => []DelayExact
<1>1. now \in Int /\ Outcomes => DelayExact
  BY DEF Outcomes
<1> QED
  BY <1>1, OutcomesHold, PTL

(***************************************************************************)
(* Which durations StartTimer refuses, and for which it arms no timer.     *)
(***************************************************************************)
THEOREM TimeConvDurationOutcome == Spec => []DurationOutcome
<1>1. now \in Int /\ Outcomes => DurationOutcome
  BY DEF Outcomes
<1> QED
  BY <1>1, OutcomesHold, PTL

(***************************************************************************)
(* Which timevals StartTimer refuses, and for which it arms no timer.      *)
(***************************************************************************)
THEOREM TimeConvTimevalOutcome == Spec => []TimevalOutcome
<1>1. now \in Int /\ Outcomes => TimevalOutcome
  BY DEF Outcomes
<1> QED
  BY <1>1, OutcomesHold, PTL
=============================================================================
