--------------------------- MODULE ExamplesProofs ---------------------------
(***************************************************************************)
(* Proofs about the example programs, for all sizes of pools and queues:   *)
(* their calls are calls the library allows, so that its guarantees hold   *)
(* of them, and mbox.cpp gives every block back.                           *)
(***************************************************************************)
EXTENDS Examples, MsglibProofs, SequenceTheorems

-----------------------------------------------------------------------------
(***************************************************************************)
(* The calls that a script is made of.                                     *)
(***************************************************************************)
Names == {"main", "thread1", "thread2", "thread3"}

Workers == {"thread1", "thread2", "thread3"}

PlainCalls ==
  {<<"construct">>, <<"destroy">>, <<"timers">>, <<"mailboxes">>, <<"sleep">>, <<"shutdown">>}

LabelCalls ==
  {"register", "unregister", "receive", "signal", "periodic", "oneshot", "cancel"} \X Labels

ThreadCalls == {"spawn", "join"} \X Workers

SendCalls == {"send"} \X Labels \X Sizes

\* timer.cpp sends signals only.
TimerCalls == PlainCalls \cup LabelCalls \cup ThreadCalls

Calls == TimerCalls \cup SendCalls

LEMMA LabelsTyped ==
  /\ 1 \in Labels /\ 2 \in Labels /\ 3 \in Labels /\ 4 \in Labels /\ 5 \in Labels
  /\ 999 \in Labels
  /\ 1 \in Sizes /\ 2 \in Sizes /\ 3 \in Sizes
  /\ Last \in Nat /\ \A l \in 5 .. Last : l \in Labels
BY ExamplesAssumption

LEMMA CountTyped ==
  ASSUME NEW to \in {Last, Last - 1}
  PROVE  Count(5, to) \in Seq(Labels)
<1> DEFINE n == to - 5 + 1
<1>1. Count(5, to) = [i \in 1 .. n |-> 5 + i - 1]
  BY DEF Count
<1>2. \A i \in 1 .. n : 5 + i - 1 \in Labels
  BY LabelsTyped
<1>3. \A m \in Nat : (\A i \in 1 .. m : 5 + i - 1 \in Labels)
                      => [i \in 1 .. m |-> 5 + i - 1] \in Seq(Labels)
  OBVIOUS
<1>4. n \in Nat \/ 1 .. n = 1 .. 0
  BY LabelsTyped
<1> HIDE DEF n
<1> QED BY <1>1, <1>2, <1>3, <1>4

LEMMA EachTyped ==
  ASSUME NEW op \in {"register", "unregister", "oneshot"}, NEW labels \in Seq(Labels)
  PROVE  Each(op, labels) \in Seq(TimerCalls)
<1>1. DOMAIN labels = 1 .. Len(labels) /\ Len(labels) \in Nat
  BY LenProperties
<1>2. \A i \in 1 .. Len(labels) : <<op, labels[i]>> \in TimerCalls
  BY <1>1, ElementOfSeq DEF TimerCalls, LabelCalls
<1> QED BY <1>1, <1>2 DEF Each

\* What the concatenation c of two scripts holds.
Joins(c, s, t) ==
  /\ c \in Seq(Calls)
  /\ Len(c) = Len(s) + Len(t)
  /\ \A i \in 1 .. Len(s) + Len(t) : c[i] = IF i <= Len(s) THEN s[i] ELSE t[i - Len(s)]

LEMMA CallsConcat ==
  ASSUME NEW s \in Seq(Calls), NEW t \in Seq(Calls)
  PROVE  Joins(s \o t, s, t)
BY ConcatProperties, Zenon DEF Joins

(***************************************************************************)
(* w is the script of a thread of mbox.cpp that registers for a, b and     *)
(* Exit, and unregisters from d, e and Exit.                               *)
(***************************************************************************)
IsWorker(w, a, b, d, e) ==
  /\ w \in Seq(Calls) /\ Len(w) = 9
  /\ w[1] = <<"construct">>
  /\ w[2] = <<"register", a>> /\ w[3] = <<"register", b>> /\ w[4] = <<"register", 999>>
  /\ w[5] = <<"receive", 999>>
  /\ w[6] = <<"unregister", d>> /\ w[7] = <<"unregister", e>> /\ w[8] = <<"unregister", 999>>
  /\ w[9] = <<"destroy">>

LEMMA WorkerScript ==
  ASSUME NEW a \in Labels, NEW b \in Labels, NEW d \in Labels, NEW e \in Labels,
         NEW labels, labels = <<a, b, 999>>, NEW undone, undone = <<d, e, 999>>
  PROVE  IsWorker(Worker(labels, undone), a, b, d, e)
<1> DEFINE s1 == <<<<"construct">>>>
           s2 == <<<<"register", a>>, <<"register", b>>, <<"register", 999>>>>
           s3 == <<<<"receive", 999>>>>
           s4 == <<<<"unregister", d>>, <<"unregister", e>>, <<"unregister", 999>>>>
           s5 == <<<<"destroy">>>>
           c2 == s1 \o s2
           c3 == c2 \o s3
           c4 == c3 \o s4
           c5 == c4 \o s5
<1>1. Each("register", labels) = s2
  BY DEF Each
<1>2. Each("unregister", undone) = s4
  BY DEF Each
<1>0. Worker(labels, undone) = c5
  <2> DEFINE r == Each("register", labels)
             u == Each("unregister", undone)
  <2>1. Worker(labels, undone) = (((s1 \o r) \o s3) \o u) \o s5
    BY DEF Worker
  <2>2. r = s2 /\ u = s4
    BY <1>1, <1>2
  <2> HIDE DEF s1, s2, s3, s4, s5, r, u
  <2>3. \A x, y : x = s2 /\ y = s4 => (((s1 \o x) \o s3) \o y) \o s5 = c5
    BY Zenon
  <2> HIDE DEF c2, c3, c4, c5
  <2>4. (((s1 \o r) \o s3) \o u) \o s5 = c5
    BY <2>2, <2>3, Zenon
  <2> DEFINE w == Worker(labels, undone)
             x == (((s1 \o r) \o s3) \o u) \o s5
  <2>5. w = x /\ x = c5
    BY <2>1, <2>4
  <2> HIDE DEF w, x
  <2>6. w = c5
    BY <2>5
  <2> QED BY <2>6 DEF w
<1>3. s1 \in Seq(Calls) /\ s2 \in Seq(Calls) /\ s3 \in Seq(Calls) /\ s4 \in Seq(Calls) /\ s5 \in Seq(Calls)
  BY LabelsTyped DEF Calls, TimerCalls, PlainCalls, LabelCalls
<1>4. /\ Len(s1) = 1 /\ Len(s2) = 3 /\ Len(s3) = 1 /\ Len(s4) = 3 /\ Len(s5) = 1
      /\ s1[1] = <<"construct">>
      /\ s2[1] = <<"register", a>> /\ s2[2] = <<"register", b>> /\ s2[3] = <<"register", 999>>
      /\ s3[1] = <<"receive", 999>>
      /\ s4[1] = <<"unregister", d>> /\ s4[2] = <<"unregister", e>> /\ s4[3] = <<"unregister", 999>>
      /\ s5[1] = <<"destroy">>
  OBVIOUS
<1>5. Joins(c2, s1, s2) /\ Joins(c3, c2, s3) /\ Joins(c4, c3, s4) /\ Joins(c5, c4, s5)
  <2> HIDE DEF s1, s2, s3, s4, s5
  <2>1. Joins(c2, s1, s2) /\ c2 \in Seq(Calls)
    BY <1>3, CallsConcat, Zenon DEF Joins
  <2> HIDE DEF c2
  <2>2. Joins(c3, c2, s3) /\ c3 \in Seq(Calls)
    BY <1>3, <2>1, CallsConcat, Zenon DEF Joins
  <2> HIDE DEF c3
  <2>3. Joins(c4, c3, s4) /\ c4 \in Seq(Calls)
    BY <1>3, <2>2, CallsConcat, Zenon DEF Joins
  <2> HIDE DEF c4
  <2> QED BY <1>3, <2>1, <2>2, <2>3, CallsConcat, Zenon
<1> HIDE DEF s1, s2, s3, s4, s5, c2, c3, c4, c5
<1>6. /\ c2 \in Seq(Calls) /\ Len(c2) = 4
      /\ c2[1] = s1[1] /\ c2[2] = s2[1] /\ c2[3] = s2[2] /\ c2[4] = s2[3]
  BY <1>4, <1>5 DEF Joins
<1>7. /\ c3 \in Seq(Calls) /\ Len(c3) = 5
      /\ \A i \in 1 .. 4 : c3[i] = c2[i]
      /\ c3[5] = s3[1]
  BY <1>4, <1>5, <1>6 DEF Joins
<1>8. /\ c4 \in Seq(Calls) /\ Len(c4) = 8
      /\ \A i \in 1 .. 5 : c4[i] = c3[i]
      /\ c4[6] = s4[1] /\ c4[7] = s4[2] /\ c4[8] = s4[3]
  BY <1>4, <1>5, <1>7 DEF Joins
<1>9. /\ c5 \in Seq(Calls) /\ Len(c5) = 9
      /\ \A i \in 1 .. 8 : c5[i] = c4[i]
      /\ c5[9] = s5[1]
  BY <1>4, <1>5, <1>8 DEF Joins
<1>10. /\ c5[1] = s1[1]
       /\ c5[2] = s2[1] /\ c5[3] = s2[2] /\ c5[4] = s2[3]
       /\ c5[5] = s3[1]
       /\ c5[6] = s4[1] /\ c5[7] = s4[2] /\ c5[8] = s4[3]
       /\ c5[9] = s5[1]
  BY <1>6, <1>7, <1>8, <1>9
<1>11. c5[1] = <<"construct">> /\ c5[9] = <<"destroy">> /\ c5[5] = <<"receive", 999>>
  BY <1>4, <1>10
<1>12. c5[2] = <<"register", a>> /\ c5[3] = <<"register", b>> /\ c5[4] = <<"register", 999>>
  BY <1>4, <1>10
<1>13. c5[6] = <<"unregister", d>> /\ c5[7] = <<"unregister", e>> /\ c5[8] = <<"unregister", 999>>
  BY <1>4, <1>10
<1>14. IsWorker(c5, a, b, d, e)
  BY <1>9, <1>11, <1>12, <1>13 DEF IsWorker
<1> QED BY <1>0, <1>14, Zenon

LEMMA WorkerScripts ==
  /\ IsWorker(MboxThread1, 1, 2, 1, 2)
  /\ IsWorker(MboxThread2, 1, 3, 1, 3)
  /\ IsWorker(MboxThread3, 4, 5, 1, 3)
<1>1. ASSUME NEW a \in Labels, NEW b \in Labels, NEW d \in Labels, NEW e \in Labels
      PROVE  IsWorker(Worker(<<a, b, 999>>, <<d, e, 999>>), a, b, d, e)
  BY WorkerScript
<1> QED BY <1>1, LabelsTyped DEF MboxThread1, MboxThread2, MboxThread3

LEMMA ScriptsTyped ==
  ASSUME NEW p \in {"mbox", "timer"}, NEW t \in DOMAIN Scripts[p]
  PROVE  /\ t \in Names /\ Scripts[p][t] \in Seq(Calls)
         /\ p = "timer" => Scripts[p][t] \in Seq(TimerCalls)
<1>2. /\ MboxThread1 \in Seq(Calls) /\ MboxThread2 \in Seq(Calls) /\ MboxThread3 \in Seq(Calls)
  BY WorkerScripts DEF IsWorker
<1>3. MboxMain \in Seq(Calls)
  BY LabelsTyped DEF MboxMain, SizeOf, Calls, TimerCalls, PlainCalls, LabelCalls, ThreadCalls, SendCalls, Workers
<1>4. TimerThread1 \in Seq(TimerCalls)
  BY LabelsTyped DEF TimerThread1, TimerCalls, PlainCalls, LabelCalls
<1>5. TimerThread2 \in Seq(TimerCalls)
  <2>1. <<<<"construct">>, <<"register", 2>>>> \in Seq(TimerCalls)
    BY LabelsTyped DEF TimerCalls, PlainCalls, LabelCalls
  <2>2. <<<<"register", 4>>, <<"receive", 4>>, <<"unregister", 2>>>> \in Seq(TimerCalls)
    BY LabelsTyped DEF TimerCalls, LabelCalls
  <2>3. <<<<"unregister", 4>>, <<"destroy">>>> \in Seq(TimerCalls)
    BY LabelsTyped DEF TimerCalls, PlainCalls, LabelCalls
  <2>4. /\ Each("register", Count(5, Last)) \in Seq(TimerCalls)
        /\ Each("register", Count(5, Last - 1)) \in Seq(TimerCalls)
    BY CountTyped, EachTyped
  <2> QED BY <2>1, <2>2, <2>3, <2>4, ConcatProperties DEF TimerThread2
<1>6. TimerMain \in Seq(TimerCalls)
  <2>1. <<<<"construct">>, <<"timers">>, <<"mailboxes">>,
          <<"spawn", "thread1">>, <<"spawn", "thread2">>, <<"periodic", 1>>>> \in Seq(TimerCalls)
    BY LabelsTyped DEF TimerCalls, PlainCalls, LabelCalls, ThreadCalls, Workers
  <2>2. <<<<"oneshot", 2>>, <<"register", 3>>, <<"receive", 3>>, <<"cancel", 1>>,
          <<"signal", 4>>, <<"join", "thread1">>, <<"join", "thread2">>, <<"destroy">>,
          <<"shutdown">>>> \in Seq(TimerCalls)
    BY LabelsTyped DEF TimerCalls, PlainCalls, LabelCalls, ThreadCalls, Workers
  <2>3. Each("oneshot", Count(5, Last)) \in Seq(TimerCalls)
    BY CountTyped, EachTyped
  <2> QED BY <2>1, <2>2, <2>3, ConcatProperties DEF TimerMain
<1>7. Seq(TimerCalls) \subseteq Seq(Calls)
  BY DEF Calls
<1> QED BY <1>2, <1>3, <1>4, <1>5, <1>6, <1>7 DEF Scripts, Names

-----------------------------------------------------------------------------
(***************************************************************************)
(* The program is one of the two, and the calls its threads make are calls *)
(* of the library: every step of the program is a step of its components.  *)
(***************************************************************************)
ProgramOK == program \in {"mbox", "timer"}

LEMMA RunningNames ==
  ASSUME ProgramOK, NEW t \in Running
  PROVE  /\ t \in Names /\ t \in Threads /\ t \in Mailboxes
         /\ Script[t] \in Seq(Calls)
BY ScriptsTyped, ExamplesAssumption DEF ProgramOK, Running, Script, Names

LEMMA CallTyped ==
  ASSUME ProgramOK, NEW t \in Running, pc[t] \in DOMAIN Script[t]
  PROVE  Script[t][pc[t]] \in Calls
BY RunningNames

LEMMA LabelTyped ==
  ASSUME ProgramOK, NEW t \in Running,
         At(t, "register") \/ At(t, "unregister") \/ At(t, "receive") \/ At(t, "signal")
           \/ At(t, "periodic") \/ At(t, "oneshot") \/ At(t, "cancel") \/ At(t, "send")
  PROVE  Arg(t) \in Labels
<1> DEFINE c == Script[t][pc[t]]
<1>1. c \in Calls /\ c[1] \in {"register", "unregister", "receive", "signal", "periodic",
                              "oneshot", "cancel", "send"}
  BY CallTyped DEF At
<1> HIDE DEF c
<1>2. c \in LabelCalls \cup SendCalls
  BY <1>1 DEF Calls, TimerCalls, PlainCalls, ThreadCalls
<1>3. c[2] \in Labels
  BY <1>2 DEF LabelCalls, SendCalls
<1> QED BY <1>3 DEF Arg, c

LEMMA SizeTyped ==
  ASSUME ProgramOK, NEW t \in Running, At(t, "send")
  PROVE  Script[t][pc[t]][3] \in Sizes
<1> DEFINE c == Script[t][pc[t]]
<1>1. c \in Calls /\ c[1] = "send"
  BY CallTyped DEF At
<1> HIDE DEF c
<1>2. c \in SendCalls
  BY <1>1 DEF Calls, TimerCalls, PlainCalls, ThreadCalls, LabelCalls
<1>3. c[3] \in Sizes
  BY <1>2 DEF SendCalls
<1> QED BY <1>3 DEF c

LEMMA ProgramsStay == ProgramOK /\ [ProgramNext]_<<vars, programVars>> => ProgramOK'
BY DEF ProgramNext, Step, Call, Spawn, Receive, Handle, Proceed, TimerExpires, SignalArrives,
       SignalStep, programVars, ProgramOK

-----------------------------------------------------------------------------
(***************************************************************************)
(* A call of the program, as the library sees it.                          *)
(***************************************************************************)
LEMMA MailCalls ==
  ASSUME ProgramOK, NEW t \in Running, MailCall(t)
  PROVE  Mail!CarelessNext
<1>1. t \in Threads /\ t \in Mailboxes
  BY RunningNames
<1>2. CASE At(t, "construct") /\ Mail!Construct(t)
  BY <1>1, <1>2 DEF Mail!CarelessNext, Mail!Next
<1>3. CASE At(t, "destroy") /\ Mail!Destruct(t)
  BY <1>1, <1>3 DEF Mail!CarelessNext
<1>4. CASE At(t, "register") /\ Mail!RegisterForLabel(t, Arg(t))
  BY <1>1, <1>4, LabelTyped DEF Mail!CarelessNext, Mail!Next
<1>5. CASE At(t, "unregister") /\ Mail!UnregisterForLabel(t, Arg(t))
  BY <1>1, <1>5, LabelTyped DEF Mail!CarelessNext, Mail!Next
<1>6. CASE At(t, "send") /\ Mail!SendMessage(t, Arg(t), Script[t][pc[t]][3])
  BY <1>1, <1>6, LabelTyped, SizeTyped DEF Mail!CarelessNext, Mail!Next
<1>7. CASE At(t, "signal") /\ Mail!SendSignal(t, Arg(t))
  BY <1>1, <1>7, LabelTyped DEF Mail!CarelessNext, Mail!Next
<1> QED BY <1>2, <1>3, <1>4, <1>5, <1>6, <1>7 DEF MailCall

LEMMA ProgramTimingStep ==
  ProgramOK /\ [ProgramNext]_<<vars, programVars>> => [Timing!Next]_Timing!vars
<1> SUFFICES ASSUME ProgramOK, [ProgramNext]_<<vars, programVars>>
             PROVE  Timing!Next \/ UNCHANGED Timing!vars
  OBVIOUS
<1>0. UNCHANGED timerVars => UNCHANGED Timing!vars
  BY DEF timerVars, Timing!vars, Timing!kernelVars, Timing!historyVars
<1>1. ASSUME NEW t \in Running, Call(t) PROVE Timing!Next \/ UNCHANGED timerVars
  <2>1. CASE UNCHANGED <<timerVars, eventVars>>
    BY <2>1
  <2>2. CASE LibraryCall(t)
    <3>1. CASE (At(t, "timers") /\ InitializeTimers) \/ (At(t, "shutdown") /\ Shutdown)
      BY <3>1 DEF InitializeTimers, Shutdown, Timing!Next
    <3>2. CASE At(t, "mailboxes") /\ InitializeMailboxes
      BY <3>2 DEF InitializeMailboxes
    <3>3. CASE At(t, "periodic") /\ StartTimer(Arg(t), "PERIODIC", "later")
      BY <3>3, LabelTyped, ExamplesAssumption DEF StartTimer, Timing!Next, Timing!Types
    <3>4. CASE At(t, "oneshot") /\ StartTimer(Arg(t), "ONE_SHOT", "later")
      BY <3>4, LabelTyped, ExamplesAssumption DEF StartTimer, Timing!Next, Timing!Types
    <3>5. CASE At(t, "cancel") /\ CancelTimer(Arg(t))
      BY <3>5, LabelTyped DEF CancelTimer, Timing!Next
    <3> QED BY <2>2, <3>1, <3>2, <3>3, <3>4, <3>5 DEF LibraryCall
  <2>3. CASE UNCHANGED vars
    BY <2>3 DEF vars
  <2> QED BY <1>1, <2>1, <2>2, <2>3, Zenon DEF Call
<1>2. ASSUME NEW t \in Running, Spawn(t) \/ Receive(t) \/ Handle(t) \/ Proceed(t)
      PROVE  UNCHANGED timerVars
  BY <1>2 DEF Spawn, Receive, Handle, Proceed, ProgramProceed, vars
<1>3. ASSUME NEW k \in Timing!Addresses, TimerExpires(k) PROVE Timing!Next
  BY <1>3 DEF TimerExpires, Expire, Timing!Next
<1>4. ASSUME NEW a \in Timing!Addresses, SignalArrives(a) PROVE Timing!Next
  BY <1>4 DEF SignalArrives, Dequeue, Timing!Next
<1>5. CASE SignalStep
  BY <1>0, <1>5 DEF SignalStep, LockEvent, EventSignal, EventProceed, EventEnds, Exit, Timing!Next
<1>6. CASE UNCHANGED <<vars, programVars>>
  BY <1>0, <1>6 DEF vars
<1> QED BY <1>0, <1>1, <1>2, <1>3, <1>4, <1>5, <1>6 DEF ProgramNext, Step

LEMMA ProgramHandlerOK ==
  HandlerOK /\ [ProgramNext]_<<vars, programVars>> => HandlerOK'
<1> SUFFICES ASSUME HandlerOK, [ProgramNext]_<<vars, programVars>> PROVE HandlerOK'
  OBVIOUS
<1>0. ASSUME UNCHANGED <<timerVars, eventVars>> PROVE HandlerOK'
  BY <1>0 DEF HandlerOK, timerVars, eventVars
<1>1. ASSUME NEW t \in Running, Call(t) PROVE HandlerOK'
  <2>1. CASE LibraryCall(t)
    BY <2>1, <1>0 DEF LibraryCall, InitializeTimers, InitializeMailboxes, StartTimer, CancelTimer,
       Shutdown, HandlerOK, eventVars, Timing!Initialize, Timing!StartTimer, Timing!CancelTimer,
       Timing!Shutdown
  <2>2. CASE UNCHANGED vars
    BY <1>0, <2>2 DEF vars
  <2> QED BY <1>0, <1>1, <2>1, <2>2 DEF Call
<1>2. ASSUME NEW t \in Running, Spawn(t) \/ Receive(t) \/ Handle(t) \/ Proceed(t) PROVE HandlerOK'
  BY <1>0, <1>2 DEF Spawn, Receive, Handle, Proceed, ProgramProceed, vars
<1>3. ASSUME NEW k \in Timing!Addresses, TimerExpires(k) PROVE HandlerOK'
  BY <1>3 DEF TimerExpires, Expire, Timing!Expire, eventVars, HandlerOK
<1>4. ASSUME NEW a \in Timing!Addresses, SignalArrives(a) PROVE HandlerOK'
  BY <1>4 DEF SignalArrives, Dequeue, Timing!Dequeue, eventVars, HandlerOK
<1>5. CASE SignalStep
  BY <1>5 DEF SignalStep, LockEvent, EventSignal, EventProceed, EventEnds, Exit, HandlerOK,
     timerVars, eventVars, Timing!Exit
<1>6. CASE UNCHANGED <<vars, programVars>>
  BY <1>0, <1>6 DEF vars
<1> QED BY <1>1, <1>2, <1>3, <1>4, <1>5, <1>6 DEF ProgramNext, Step

LEMMA ProgramMailStep ==
  ProgramOK /\ Timing!TypeOK /\ HandlerOK /\ [ProgramNext]_<<vars, programVars>>
    => [Mail!CarelessNext]_Mail!vars
<1> SUFFICES ASSUME ProgramOK, Timing!TypeOK, HandlerOK,
                    [ProgramNext]_<<vars, programVars>>
             PROVE  Mail!CarelessNext \/ UNCHANGED Mail!vars
  OBVIOUS
<1>0. UNCHANGED mailVars => UNCHANGED Mail!vars
  BY DEF mailVars, Mail!vars, Mail!poolVars, Mail!historyVars
<1>1. ASSUME NEW t \in Running, Call(t) PROVE Mail!CarelessNext \/ UNCHANGED mailVars
  <2>1. CASE MailCall(t)
    BY <2>1, MailCalls
  <2>2. CASE LibraryCall(t)
    BY <2>2 DEF LibraryCall, InitializeTimers, InitializeMailboxes, StartTimer, CancelTimer,
       Shutdown, Mail!CarelessNext, Mail!Next
  <2>3. CASE UNCHANGED vars
    BY <2>3 DEF vars
  <2> QED BY <1>1, <2>1, <2>2, <2>3 DEF Call
<1>2. ASSUME NEW t \in Running, Spawn(t) PROVE UNCHANGED mailVars
  BY <1>2 DEF Spawn, vars
<1>3. ASSUME NEW t \in Running, Receive(t) PROVE Mail!CarelessNext
  BY <1>3, RunningNames DEF Receive, Mail!CarelessNext, Mail!Next
<1>4. ASSUME NEW t \in Running, Handle(t) PROVE Mail!CarelessNext \/ UNCHANGED mailVars
  <2>1. CASE Mail!SendSignal(t, 3)
    BY <2>1, RunningNames, LabelsTyped DEF Mail!CarelessNext, Mail!Next
  <2>2. CASE Release(hand[t])
    BY <2>2 DEF Release, Mail!Release, Mail!CarelessNext, Mail!Next
  <2> QED BY <1>4, <2>1, <2>2 DEF Handle
<1>5. ASSUME NEW t \in Running, Proceed(t) PROVE Mail!CarelessNext
  BY <1>5, RunningNames DEF Proceed, ProgramProceed, Mail!CarelessNext, Mail!Next
<1>6. ASSUME \/ \E k \in Timing!Addresses : TimerExpires(k)
             \/ \E a \in Timing!Addresses : SignalArrives(a)
      PROVE  UNCHANGED mailVars
  BY <1>6 DEF TimerExpires, SignalArrives, Expire, Dequeue
<1>7. CASE SignalStep
  <2>1. CASE EventSignal
    BY <2>1, EventLabel DEF EventSignal, Mail!CarelessNext, Mail!Next
  <2>2. CASE EventProceed
    BY <2>2 DEF EventProceed, Mail!CarelessNext, Mail!Next
  <2> QED BY <1>0, <1>7, <2>1, <2>2 DEF SignalStep, LockEvent, EventEnds, Exit
<1>8. CASE UNCHANGED <<vars, programVars>>
  BY <1>0, <1>8 DEF vars
<1> QED BY <1>0, <1>1, <1>2, <1>3, <1>4, <1>5, <1>6, <1>7, <1>8 DEF ProgramNext, Step

-----------------------------------------------------------------------------
(***************************************************************************)
(* The instance that brings the theorems about mailboxes is the library's. *)
(***************************************************************************)
LEMMA SameCareless == [Mail!CarelessNext]_Mail!vars => [MailP!CarelessNext]_MailP!vars
<1>1. Mail!CarelessNext => MailP!CarelessNext
  BY DEF Mail!CarelessNext, Mail!Next, Mail!Initialize, Mail!RegisterForLabel,
         Mail!UnregisterForLabel,
         Mail!Construct, Mail!Destroy, Mail!Destruct, Mail!Receive, Mail!SendSignal,
         Mail!SendMessage, Mail!StartCall, Mail!Lock, Mail!Proceed, Mail!Skip, Mail!Allocate,
         Mail!Emplace, Mail!EmplaceFull, Mail!Return, Mail!Release, Mail!Queued, Mail!LimitOf,
         Mail!PoolFor, Mail!Receiver, Mail!InLoop, Mail!Advance, Mail!Take, Mail!GiveBack,
         Mail!MessageOf, Mail!AtEmplace, Mail!Slots, Mail!NoCall, Mail!AllBlocks,
         Mail!poolVars, Mail!historyVars,
         MailP!CarelessNext, MailP!Next, MailP!Initialize, MailP!RegisterForLabel,
         MailP!UnregisterForLabel,
         MailP!Construct, MailP!Destroy, MailP!Destruct, MailP!Receive, MailP!SendSignal,
         MailP!SendMessage, MailP!StartCall, MailP!Lock, MailP!Proceed, MailP!Skip, MailP!Allocate,
         MailP!Emplace, MailP!EmplaceFull, MailP!Return, MailP!Release, MailP!Queued, MailP!LimitOf,
         MailP!PoolFor, MailP!Receiver, MailP!InLoop, MailP!Advance, MailP!Take, MailP!GiveBack,
         MailP!MessageOf, MailP!AtEmplace, MailP!Slots, MailP!NoCall, MailP!AllBlocks,
         MailP!poolVars, MailP!historyVars
<1>2. UNCHANGED Mail!vars => UNCHANGED MailP!vars
  BY DEF Mail!vars, Mail!poolVars, Mail!historyVars,
         MailP!vars, MailP!poolVars, MailP!historyVars
<1> QED BY <1>1, <1>2

(***************************************************************************)
(* What the library guarantees to any program, of these programs, which    *)
(* also destroy mailboxes that are registered.                             *)
(***************************************************************************)
MailInv == MailP!TypeOK /\ MailP!CurrentSend /\ MailP!Ordered /\ MailP!BlocksInv

LibraryInv == ProgramOK /\ Timing!TypeOK /\ HandlerOK /\ MailInv

LEMMA InitMail == ProgramInit => MailInv
<1>1. ProgramInit => MailP!Init
  BY DEF ProgramInit, Init, Mail!Init, Mail!Pools, Mail!Slots, Mail!NoCall,
         MailP!Init, MailP!Pools, MailP!Slots, MailP!NoCall
<1> QED BY <1>1, MailAssumed, MailP!InitTyped, MailP!InitOrdered, MailP!InitBlocks DEF MailInv

(***************************************************************************)
(* The timers of the example programs behave as TimerManager.              *)
(***************************************************************************)
THEOREM ExamplesKeepTimers == ProgramSpec => Timing!Spec
<1>1. ProgramInit => ProgramOK /\ Timing!Init
  BY ExamplesAssumption DEF ProgramInit, Init, ProgramOK
<1> QED BY <1>1, ProgramsStay, ProgramTimingStep, PTL DEF ProgramSpec, Timing!Spec

LEMMA LibraryInvHolds == ProgramSpec => []LibraryInv
<1>1. ProgramInit => ProgramOK /\ HandlerOK
  BY ExamplesAssumption DEF ProgramInit, Init, ProgramOK, HandlerOK
<1>2. ProgramSpec => []Timing!TypeOK
  BY ExamplesKeepTimers, TimingTyped, PTL
<1>3. /\ ProgramOK /\ Timing!TypeOK /\ HandlerOK /\ MailInv
      /\ [ProgramNext]_<<vars, programVars>>
      => MailInv'
  BY ProgramMailStep, SameCareless, MailAssumed, MailP!TypeOKInductive,
     MailP!CurrentSendInductive, MailP!OrderedInductive, MailP!BlocksInvInductive DEF MailInv
<1> QED BY <1>1, <1>2, <1>3, InitMail, ProgramsStay, ProgramHandlerOK, PTL
        DEF ProgramSpec, LibraryInv

(***************************************************************************)
(* The example programs never release a block twice or lose track of one,  *)
(* although they destroy mailboxes that are registered.                    *)
(***************************************************************************)
THEOREM ExamplesBlocksSafe == ProgramSpec => [](Mail!OneOwner /\ Mail!BlocksAccounted)
<1>1. MailP!OneOwner /\ MailP!BlocksAccounted <=> Mail!OneOwner /\ Mail!BlocksAccounted
  BY DEF Mail!OneOwner, Mail!BlocksAccounted, Mail!Sending, Mail!InHand, Mail!InQueues, Mail!InUse,
         Mail!Queued,
         MailP!OneOwner, MailP!BlocksAccounted, MailP!Sending, MailP!InHand, MailP!InQueues,
         MailP!InUse, MailP!Queued
<1>2. LibraryInv => MailP!OneOwner /\ MailP!BlocksAccounted
  BY MailAssumed, MailP!BlocksOwned, MailP!BlocksPlaced DEF LibraryInv, MailInv
<1> QED BY <1>1, <1>2, LibraryInvHolds, PTL

-----------------------------------------------------------------------------
(***************************************************************************)
(* mbox.cpp: where in its script a thread is when it makes a call.         *)
(***************************************************************************)
Mbox == program = "mbox"

LEMMA MboxScripts ==
  ASSUME Mbox
  PROVE  /\ Running = Names
         /\ Script["main"] = MboxMain
         /\ Script["thread1"] = MboxThread1
         /\ Script["thread2"] = MboxThread2
         /\ Script["thread3"] = MboxThread3
BY DEF Mbox, Running, Script, Scripts, Names

LEMMA MboxWorker ==
  ASSUME Mbox, NEW w \in Workers
  PROVE  \E a, b, d, e \in Labels : IsWorker(Script[w], a, b, d, e) /\ a # b /\ a # 999 /\ b # 999
<1>1. CASE w = "thread1"
  BY <1>1, MboxScripts, WorkerScripts, LabelsTyped
<1>2. CASE w = "thread2"
  BY <1>2, MboxScripts, WorkerScripts, LabelsTyped
<1>3. CASE w = "thread3"
  BY <1>3, MboxScripts, WorkerScripts, LabelsTyped
<1> QED BY <1>1, <1>2, <1>3 DEF Workers

LEMMA WorkerAt ==
  ASSUME Mbox, NEW w \in Workers, NEW op, At(w, op)
  PROVE  /\ op \in {"construct", "register", "receive", "unregister", "destroy"}
         /\ op = "construct" => pc[w] = 1
         /\ op = "register" => pc[w] \in 2 .. 4
         /\ op = "receive" => pc[w] = 5 /\ Arg(w) = 999
         /\ op = "unregister" => pc[w] \in 6 .. 8
         /\ op = "destroy" => pc[w] = 9
<1>1. PICK a \in Labels, b \in Labels, d \in Labels, e \in Labels :
        IsWorker(Script[w], a, b, d, e)
  BY MboxWorker
<1>2. pc[w] \in 1 .. 9 /\ op = Script[w][pc[w]][1]
  BY <1>1, LenProperties DEF At, IsWorker
<1> QED BY <1>1, <1>2 DEF IsWorker, Arg

LEMMA WorkerRegisters ==
  ASSUME Mbox, NEW w \in Workers, NEW i \in 2 .. 4, NEW j \in 2 .. 4,
         Script[w][i] = Script[w][j]
  PROVE  i = j
<1>1. PICK a \in Labels, b \in Labels, d \in Labels, e \in Labels :
        IsWorker(Script[w], a, b, d, e) /\ a # b /\ a # 999 /\ b # 999
  BY MboxWorker
<1> QED BY <1>1 DEF IsWorker

LEMMA MainAt ==
  ASSUME Mbox, NEW op, At("main", op)
  PROVE  /\ pc["main"] \in 1 .. 19
         /\ op = MboxMain[pc["main"]][1] /\ Arg("main") = MboxMain[pc["main"]][2]
         /\ op \in {"construct", "timers", "mailboxes", "spawn", "sleep", "send", "signal", "join",
                    "destroy", "shutdown"}
         /\ op = "mailboxes" => pc["main"] = 3
         /\ op = "spawn" => /\ pc["main"] \in 4 .. 6
                             /\ Arg("main") = <<"thread1", "thread2", "thread3">>[pc["main"] - 3]
         /\ op = "send" => pc["main"] \in 8 .. 10 /\ Arg("main") \in 1 .. 3
         /\ op = "signal" => \/ pc["main"] \in 11 .. 12 /\ Arg("main") = pc["main"] - 7
                             \/ pc["main"] = 14 /\ Arg("main") = 999
         /\ op = "destroy" => pc["main"] = 18
         /\ op \notin {"mailboxes", "spawn", "send", "signal"} =>
              pc["main"] \in {1, 2, 7, 13, 15, 16, 17, 18, 19}
<1>1. Script["main"] = MboxMain
  BY MboxScripts
<1>2. DOMAIN MboxMain = 1 .. 19
  BY DEF MboxMain
<1>3. pc["main"] \in 1 .. 19 /\ op = MboxMain[pc["main"]][1] /\ Arg("main") = MboxMain[pc["main"]][2]
  BY <1>1, <1>2 DEF At, Arg
<1> QED BY <1>3 DEF MboxMain
-----------------------------------------------------------------------------
(***************************************************************************)
(* The inductive invariant of mbox.cpp, in parts: behind BlocksReturned,   *)
(* with MboxKept, and SendsToLiving.                                       *)
(* Only main sends, one message per call, in the order of its script.      *)
(***************************************************************************)
SentAt(p) == IF p <= 8 THEN 0 ELSE IF p <= 13 THEN p - 8 ELSE IF p = 14 THEN 5 ELSE 6

Spawns == [thread1 |-> 4, thread2 |-> 5, thread3 |-> 6]

\* No timer is ever started, so that the signal thread has nothing to do.
MboxQuiet == kernel = <<>> /\ pending = {} /\ handler = NoTimer /\ event = "none"

MboxControl ==
  /\ pc \in [Threads -> Nat]
  /\ pc["main"] \in 1 .. 20
  /\ \A w \in Workers : pc[w] \in 0 .. 10 /\ (pc["main"] <= Spawns[w] => pc[w] = 0)
  /\ \A t \in Threads \cup {SignalThread} : t # "main" => call[t] = Mail!NoCall
  /\ call["main"] # Mail!NoCall => pc["main"] \in 9 .. 15
  /\ sent = SentAt(pc["main"])
  /\ pc["main"] >= 4 => initialized
  /\ \A w \in Workers : pc[w] \in 2 .. 9 => w \in alive

\* A label's slots hold the threads that have come to register for it, each once.
RegisteredOnce(l, s) ==
  receivers[l][s] # NoMailbox =>
    /\ receivers[l][s] \in Workers
    /\ \E i \in 2 .. 4 : i < pc[receivers[l][s]] /\ Script[receivers[l][s]][i] = <<"register", l>>
    /\ \A r \in Mail!Slots : receivers[l][r] = receivers[l][s] => r = s

MboxRegistered == \A l \in Labels : \A s \in Mail!Slots : RegisteredOnce(l, s)

\* The first three sends are those with data, the sixth is Exit.
Numbered(l, n) == (l = 4 <=> n = 4) /\ (l = 5 <=> n = 5) /\ (l = 999 <=> n = 6)

OfMain(msg) == (msg.data # NoBlock => msg.id <= 3) /\ Numbered(msg.label, msg.id)

MboxMessages ==
  /\ \A m \in Mailboxes : \A i \in DOMAIN queue[m] : OfMain(queue[m][i])
  /\ \A t \in Threads : hand[t] # NoMessage => OfMain(hand[t])
  /\ call["main"] # Mail!NoCall =>
       (call["main"].op = "send" => sent <= 3) /\ Numbered(call["main"].label, sent)

\* A thread leaves its loop with the sixth send, and has then released the others.
MboxHands ==
  /\ hand \in [Threads -> Mail!Message \cup {NoMessage}]
  /\ \A t \in Threads : hand[t] # NoMessage => t \in Workers /\ pc[t] = 5 /\ hand[t].id = last[t]
  /\ \A msg \in held : \E w \in Workers : hand[w] = msg /\ pc[w] = 5
  /\ \A w \in Workers : pc[w] >= 6 => last[w] = 6

\* The mailboxes that main's loop has still to come to lack the current send.
Awaits(m) ==
  /\ call["main"] # Mail!NoCall
  /\ \E s \in Mail!Slots : s >= call["main"].slot /\ receivers[call["main"].label][s] = m

Room(m) ==
  /\ Len(queue[m]) <= sent
  /\ Awaits(m) => /\ Len(queue[m]) < sent /\ last[m] < sent
                  /\ \A i \in DOMAIN queue[m] : queue[m][i].id < sent

MboxRoom == \A m \in Mailboxes : Room(m)

MboxKept == lost = {} /\ \A m \in Mailboxes \ Workers : queue[m] = <<>>

MboxInv ==
  /\ MboxQuiet /\ MboxControl /\ MboxRegistered
  /\ MboxMessages /\ MboxHands /\ MboxRoom

-----------------------------------------------------------------------------
(***************************************************************************)
(* The steps of mbox.cpp, as far as its threads and mailboxes go.          *)
(***************************************************************************)
WorkerCalls(w) ==
  /\ pc' = [pc EXCEPT ![w] = @ + 1] /\ UNCHANGED hand
  /\ \/ pc[w] = 1 /\ Mail!Construct(w)
     \/ /\ pc[w] \in 2 .. 4
        /\ \E l \in Labels : Script[w][pc[w]] = <<"register", l>> /\ Mail!RegisterForLabel(w, l)
     \/ /\ pc[w] \in 6 .. 8
        /\ \E l \in Labels : Script[w][pc[w]] = <<"unregister", l>> /\ Mail!UnregisterForLabel(w, l)
     \/ pc[w] = 9 /\ Mail!Destruct(w)

WorkerReceives(w) ==
  /\ pc[w] = 5 /\ hand[w] = NoMessage
  /\ Mail!Receive(w)
  /\ hand' = [hand EXCEPT ![w] = Head(queue[w])] /\ UNCHANGED pc

WorkerHandles(w) ==
  /\ hand[w] # NoMessage
  /\ Release(hand[w])
  /\ hand' = [hand EXCEPT ![w] = NoMessage]
  /\ \/ hand[w].label = 999 /\ pc' = [pc EXCEPT ![w] = @ + 1]
     \/ hand[w].label # 999 /\ UNCHANGED pc

MainSends ==
  \/ pc["main"] \in 8 .. 10 /\ \E l \in 1 .. 3, n \in Sizes : Mail!StartCall("main", "send", l, n)
  \/ pc["main"] \in 11 .. 12 /\ Mail!StartCall("main", "signal", pc["main"] - 7, 0)
  \/ pc["main"] = 14 /\ Mail!StartCall("main", "signal", 999, 0)

MainCalls ==
  /\ pc' = [pc EXCEPT !["main"] = @ + 1] /\ UNCHANGED hand /\ call["main"] = Mail!NoCall
  /\ \/ MainSends
     \/ pc["main"] = 3 /\ Mail!Initialize
     \/ pc["main"] \in {1, 2, 7, 13, 15, 16, 17, 18, 19}
          /\ (Mail!Construct("main") \/ Mail!Destruct("main") \/ UNCHANGED mailVars)

MainSpawns(w) ==
  /\ pc["main"] = Spawns[w]
  /\ pc' = [pc EXCEPT !["main"] = @ + 1, ![w] = 1]
  /\ UNCHANGED <<mailVars, hand>> /\ call["main"] = Mail!NoCall

MainProceeds == Mail!Proceed("main") /\ UNCHANGED <<pc, hand>>

MboxStep ==
  \/ \E w \in Workers : WorkerCalls(w) \/ WorkerReceives(w) \/ WorkerHandles(w) \/ MainSpawns(w)
  \/ MainCalls \/ MainProceeds
  \/ UNCHANGED <<mailVars, pc, hand>>

\* Only a thread that is in the middle of a send proceeds with it.
LEMMA ProceedsInSend ==
  ASSUME NEW t, Mail!Proceed(t)
  PROVE  call[t] # Mail!NoCall
<1>1. call[t].op \in {"send", "signal"}
  BY DEF Mail!Proceed, Mail!Skip, Mail!Allocate, Mail!Emplace, Mail!EmplaceFull, Mail!Return,
     Mail!AtEmplace, Mail!InLoop
<1> QED BY <1>1 DEF Mail!NoCall

LEMMA WorkerSteps ==
  ASSUME Mbox, ProgramOK, MboxControl, MboxHands, NEW w \in Workers, Step(w)
  PROVE  WorkerCalls(w) \/ WorkerReceives(w) \/ WorkerHandles(w)
<1>0. w \in Running /\ w \in Threads /\ w \in Mailboxes
  BY MboxScripts, ExamplesAssumption DEF Workers, Names
<1>1. CASE Call(w)
  <2>1. ASSUME NEW op, At(w, op)
        PROVE  op \in {"construct", "register", "receive", "unregister", "destroy"}
    BY <2>1, WorkerAt
  <2>2. MailCall(w) /\ pc' = [pc EXCEPT ![w] = @ + 1] /\ UNCHANGED hand
    BY <1>1, <2>1 DEF Call, LibraryCall
  <2>3. CASE At(w, "construct") /\ Mail!Construct(w)
    BY <2>2, <2>3, WorkerAt DEF WorkerCalls
  <2>4. CASE At(w, "destroy") /\ Mail!Destruct(w)
    BY <2>2, <2>4, WorkerAt DEF WorkerCalls
  <2>5. CASE At(w, "register") /\ Mail!RegisterForLabel(w, Arg(w))
    <3>1. pc[w] \in 2 .. 4 /\ Arg(w) \in Labels
      BY <1>0, <2>5, WorkerAt, LabelTyped
    <3>2. Script[w][pc[w]] = <<"register", Arg(w)>>
      <4>1. PICK a \in Labels, b \in Labels, d \in Labels, e \in Labels :
              IsWorker(Script[w], a, b, d, e)
        BY MboxWorker
      <4> QED BY <3>1, <4>1 DEF IsWorker, Arg
    <3> QED BY <2>2, <2>5, <3>1, <3>2 DEF WorkerCalls
  <2>6. CASE At(w, "unregister") /\ Mail!UnregisterForLabel(w, Arg(w))
    <3>1. pc[w] \in 6 .. 8 /\ Arg(w) \in Labels
      BY <1>0, <2>6, WorkerAt, LabelTyped
    <3>2. Script[w][pc[w]] = <<"unregister", Arg(w)>>
      <4>1. PICK a \in Labels, b \in Labels, d \in Labels, e \in Labels :
              IsWorker(Script[w], a, b, d, e)
        BY MboxWorker
      <4> QED BY <3>1, <4>1 DEF IsWorker, Arg
    <3> QED BY <2>2, <2>6, <3>1, <3>2 DEF WorkerCalls
  <2> QED BY <2>1, <2>2, <2>3, <2>4, <2>5, <2>6 DEF MailCall
<1>2. CASE Spawn(w)
  BY <1>2, WorkerAt DEF Spawn
<1>3. CASE Receive(w)
  BY <1>3, WorkerAt DEF Receive, At, WorkerReceives
<1>4. CASE Handle(w)
  <2>1. pc[w] = 5 /\ hand[w] # NoMessage
    BY <1>0, <1>4 DEF Handle, MboxHands
  <2>2. Arg(w) = 999
    <3>1. PICK a \in Labels, b \in Labels, d \in Labels, e \in Labels :
            IsWorker(Script[w], a, b, d, e)
      BY MboxWorker
    <3> QED BY <2>1, <3>1 DEF IsWorker, Arg
  <2> QED BY <1>4, <2>1, <2>2 DEF Handle, Answers, Mbox, WorkerHandles
<1>5. CASE Proceed(w)
  BY <1>0, <1>5, ProceedsInSend DEF Proceed, ProgramProceed, MboxControl, Workers
<1> QED BY <1>1, <1>2, <1>3, <1>4, <1>5 DEF Step

LEMMA MainSteps ==
  ASSUME Mbox, ProgramOK, MboxControl, MboxHands, Step("main")
  PROVE  MainCalls \/ MainProceeds \/ \E w \in Workers : MainSpawns(w)
<1>0. "main" \in Running /\ "main" \in Threads /\ "main" \notin Workers
  BY MboxScripts, ExamplesAssumption DEF Workers, Names
<1>1. CASE Call("main")
  <2>1. pc' = [pc EXCEPT !["main"] = @ + 1] /\ UNCHANGED hand
    BY <1>1 DEF Call
  <2>2. ASSUME NEW op, At("main", op)
        PROVE  /\ op \in {"construct", "timers", "mailboxes", "spawn", "sleep", "send", "signal",
                           "join", "destroy", "shutdown"}
               /\ call["main"] = Mail!NoCall
    BY <2>2, MainAt DEF At
  <2>3. CASE At("main", "send") /\ Mail!SendMessage("main", Arg("main"), Script["main"][pc["main"]][3])
    BY <1>0, <2>1, <2>2, <2>3, MainAt, SizeTyped DEF Mail!SendMessage, MainCalls, MainSends
  <2>4. CASE At("main", "signal") /\ Mail!SendSignal("main", Arg("main"))
    BY <2>1, <2>2, <2>4, MainAt DEF Mail!SendSignal, MainCalls, MainSends
  <2>5. CASE At("main", "construct") /\ Mail!Construct("main")
    BY <2>1, <2>2, <2>5, MainAt DEF MainCalls
  <2>6. CASE At("main", "destroy") /\ Mail!Destruct("main")
    BY <2>1, <2>2, <2>6, MainAt DEF MainCalls
  <2>7. CASE At("main", "mailboxes") /\ InitializeMailboxes
    BY <2>1, <2>2, <2>7, MainAt DEF MainCalls, InitializeMailboxes
  <2>8. ASSUME NEW op \in {"timers", "sleep", "join", "shutdown"}, At("main", op), UNCHANGED mailVars
        PROVE  MainCalls
    BY <2>1, <2>2, <2>8, MainAt DEF MainCalls
  <2>9. CASE LibraryCall("main")
    BY <2>2, <2>7, <2>8, <2>9 DEF LibraryCall, InitializeTimers, Shutdown
  <2>10. CASE MailCall("main")
    BY <2>2, <2>3, <2>4, <2>5, <2>6, <2>10 DEF MailCall
  <2> QED BY <1>1, <2>8, <2>9, <2>10 DEF Call, vars
<1>2. CASE Spawn("main")
  <2>1. At("main", "spawn") /\ UNCHANGED <<mailVars, hand>> /\ call["main"] = Mail!NoCall
    BY <1>2 DEF Spawn, vars, At
  <2>2. /\ pc["main"] \in 4 .. 6
        /\ Arg("main") = <<"thread1", "thread2", "thread3">>[pc["main"] - 3]
    BY <2>1, MainAt
  <2>3. Arg("main") \in Workers /\ pc["main"] = Spawns[Arg("main")]
    BY <2>2 DEF Workers, Spawns
  <2> QED BY <1>2, <2>1, <2>3 DEF Spawn, MainSpawns
<1>3. CASE Receive("main")
  BY <1>3, MainAt DEF Receive
<1>4. CASE Handle("main")
  BY <1>0, <1>4 DEF Handle, MboxHands
<1>5. CASE Proceed("main")
  BY <1>5 DEF Proceed, ProgramProceed, MainProceeds, programVars
<1> QED BY <1>1, <1>2, <1>3, <1>4, <1>5 DEF Step

LEMMA MboxSteps ==
  ASSUME Mbox, ProgramOK, MboxQuiet, MboxControl, MboxHands, [ProgramNext]_<<vars, programVars>>
  PROVE  MboxStep
<1>1. ASSUME NEW t \in Running, Step(t) PROVE MboxStep
  <2>1. t = "main" \/ t \in Workers
    BY MboxScripts DEF Names, Workers
  <2> QED BY <1>1, <2>1, WorkerSteps, MainSteps DEF MboxStep
<1>2. ASSUME NEW k \in Timing!Addresses, TimerExpires(k) PROVE FALSE
  BY <1>2 DEF TimerExpires, MboxQuiet
<1>3. ASSUME NEW a \in Timing!Addresses, SignalArrives(a) PROVE FALSE
  BY <1>3 DEF SignalArrives, MboxQuiet
<1>4. CASE SignalStep
  <2>1. ~(LockEvent \/ EventSignal \/ EventEnds)
    BY DEF LockEvent, EventSignal, EventEnds, MboxQuiet
  <2>2. ~EventProceed
    BY ProceedsInSend, ExamplesAssumption, MsglibAssumption DEF EventProceed, MboxControl
  <2> QED BY <1>4, <2>1, <2>2 DEF SignalStep, Exit, programVars, MboxStep
<1>5. CASE UNCHANGED <<vars, programVars>>
  BY <1>5 DEF vars, programVars, MboxStep
<1> QED BY <1>1, <1>2, <1>3, <1>4, <1>5 DEF ProgramNext

LEMMA MboxQuietInductive ==
  ASSUME Mbox, ProgramOK, MboxQuiet, MboxControl, [ProgramNext]_<<vars, programVars>>
  PROVE  MboxQuiet'
<1>0. ASSUME UNCHANGED <<timerVars, eventVars>> PROVE MboxQuiet'
  BY <1>0 DEF MboxQuiet, timerVars, eventVars
<1>1. ASSUME NEW t \in Running, Call(t) PROVE MboxQuiet'
  <2>1. CASE UNCHANGED <<timerVars, eventVars>>
    BY <1>0, <2>1
  <2>2. CASE InitializeTimers \/ InitializeMailboxes \/ Shutdown
    BY <2>2 DEF InitializeTimers, InitializeMailboxes, Shutdown, MboxQuiet, timerVars, eventVars,
       Timing!Initialize, Timing!Shutdown, Timing!kernelVars
  <2>3. ~(At(t, "periodic") \/ At(t, "oneshot") \/ At(t, "cancel"))
    BY MboxScripts, WorkerAt, MainAt DEF Names, Workers
  <2>4. CASE LibraryCall(t)
    BY <2>2, <2>3, <2>4 DEF LibraryCall
  <2> QED BY <1>1, <2>1, <2>4 DEF Call, vars
<1>2. ASSUME NEW t \in Running, Spawn(t) \/ Receive(t) \/ Handle(t) \/ Proceed(t) PROVE MboxQuiet'
  BY <1>0, <1>2 DEF Spawn, Receive, Handle, Proceed, ProgramProceed, vars
<1>3. ASSUME NEW k \in Timing!Addresses, TimerExpires(k) PROVE FALSE
  BY <1>3 DEF TimerExpires, MboxQuiet
<1>4. ASSUME NEW a \in Timing!Addresses, SignalArrives(a) PROVE FALSE
  BY <1>4 DEF SignalArrives, MboxQuiet
<1>5. CASE SignalStep
  <2>1. ~(LockEvent \/ EventSignal \/ EventEnds)
    BY DEF LockEvent, EventSignal, EventEnds, MboxQuiet
  <2>2. ~EventProceed
    BY ProceedsInSend, ExamplesAssumption, MsglibAssumption DEF EventProceed, MboxControl
  <2> QED BY <1>5, <2>1, <2>2 DEF SignalStep, Exit, Timing!Exit, Timing!kernelVars, MboxQuiet, eventVars
<1>6. CASE UNCHANGED <<vars, programVars>>
  BY <1>0, <1>6 DEF vars
<1> QED BY <1>1, <1>2, <1>3, <1>4, <1>5, <1>6 DEF ProgramNext, Step

-----------------------------------------------------------------------------
(***************************************************************************)
(* Each part of the invariant is kept by each step.                        *)
(***************************************************************************)
MboxAssumed == Mail!TypeOK /\ MboxControl /\ MboxHands

LEMMA NamesTyped ==
  /\ "main" \in Threads /\ "main" \in Mailboxes /\ "main" \notin Workers
  /\ Workers \subseteq Threads /\ Workers \subseteq Mailboxes
BY ExamplesAssumption DEF Workers

\* What a send does to the variables that only few steps change.
LEMMA MainSendsOnly ==
  ASSUME MboxAssumed, MainSends
  PROVE  /\ sent' = sent + 1 /\ UNCHANGED <<initialized, alive, receivers, queue, held, last, lost>>
         /\ \A t \in Threads \cup {SignalThread} : t # "main" => call'[t] = call[t]
         /\ call'["main"].slot = 1 /\ call'["main"].id = sent + 1
         /\ call'["main"] # Mail!NoCall
BY NamesTyped DEF MboxAssumed, MainSends, Mail!StartCall, Mail!historyVars, Mail!TypeOK, Mail!NoCall

LEMMA MainProceedsOnly ==
  ASSUME MboxAssumed, MainProceeds
  PROVE  /\ UNCHANGED <<initialized, alive, receivers, held, sent, last, pc, hand>>
         /\ call["main"] # Mail!NoCall
         /\ \A t \in Threads \cup {SignalThread} : t # "main" => call'[t] = call[t]
<1>1. call["main"] # Mail!NoCall
  BY ProceedsInSend DEF MainProceeds
<1> QED BY <1>1, NamesTyped DEF MboxAssumed, MainProceeds, Mail!Proceed, Mail!Skip, Mail!Allocate,
        Mail!Emplace, Mail!EmplaceFull, Mail!Return, Mail!Advance, Mail!historyVars, Mail!TypeOK

LEMMA MboxControlKept ==
  ASSUME MboxAssumed, MboxStep
  PROVE  MboxControl'
<1> USE DEF MboxAssumed
<1>0. SentAt(pc["main"]) \in Nat
  BY DEF MboxControl, SentAt
<1>1. ASSUME NEW w \in Workers, WorkerCalls(w) PROVE MboxControl'
  <2>1. UNCHANGED <<call, sent>> /\ (initialized => initialized')
    BY <1>1 DEF WorkerCalls, Mail!Construct, Mail!RegisterForLabel, Mail!UnregisterForLabel, Mail!Destruct
  <2>2. \A v \in Workers \ {w} : v \in alive => v \in alive'
    BY <1>1 DEF WorkerCalls, Mail!Construct, Mail!RegisterForLabel, Mail!UnregisterForLabel, Mail!Destruct
  <2>3. pc[w] + 1 \in 2 .. 9 => w \in alive'
    BY <1>1, NamesTyped DEF WorkerCalls, MboxControl, Mail!Construct, Mail!RegisterForLabel,
       Mail!UnregisterForLabel
  <2>4. pc[w] \in 1 .. 9
    BY <1>1 DEF WorkerCalls
  <2>5. pc' = [pc EXCEPT ![w] = @ + 1]
    BY <1>1 DEF WorkerCalls
  <2> QED BY <2>1, <2>2, <2>3, <2>4, <2>5, NamesTyped DEF MboxControl
<1>2. ASSUME NEW w \in Workers, WorkerReceives(w) PROVE MboxControl'
  BY <1>2 DEF WorkerReceives, Mail!Receive, MboxControl
<1>3. ASSUME NEW w \in Workers, WorkerHandles(w) PROVE MboxControl'
  <2>1. UNCHANGED <<call, sent, initialized, alive>>
    BY <1>3 DEF WorkerHandles, Release, Mail!Release, mailVars
  <2>2. pc[w] = 5 /\ (pc' = [pc EXCEPT ![w] = @ + 1] \/ UNCHANGED pc)
    BY <1>3, NamesTyped DEF WorkerHandles, MboxHands
  <2> QED BY <2>1, <2>2, NamesTyped DEF MboxControl
<1>4. ASSUME NEW w \in Workers, MainSpawns(w) PROVE MboxControl'
  <2>1. UNCHANGED <<call, sent, initialized, alive>> /\ call["main"] = Mail!NoCall
    BY <1>4 DEF MainSpawns, mailVars
  <2>2. pc["main"] = Spawns[w] /\ pc' = [pc EXCEPT !["main"] = @ + 1, ![w] = 1]
    BY <1>4 DEF MainSpawns
  <2> QED BY <2>1, <2>2, NamesTyped DEF MboxControl, SentAt, Spawns, Workers
<1>5. CASE MainCalls
  <2>0. pc' = [pc EXCEPT !["main"] = @ + 1] /\ call["main"] = Mail!NoCall
    BY <1>5 DEF MainCalls
  <2>1. CASE MainSends
    <3>1. pc["main"] \in 8 .. 12 \cup {14}
      BY <2>1 DEF MainSends
    <3> QED BY <2>0, <2>1, <3>1, MainSendsOnly, NamesTyped DEF MboxControl, SentAt, Spawns, Workers
  <2>2. CASE pc["main"] = 3 /\ Mail!Initialize
    BY <2>0, <2>2, NamesTyped DEF Mail!Initialize, MboxControl, SentAt, Spawns, Workers
  <2>3. CASE /\ pc["main"] \in {1, 2, 7, 13, 15, 16, 17, 18, 19}
             /\ (Mail!Construct("main") \/ Mail!Destruct("main") \/ UNCHANGED mailVars)
    <3>1. UNCHANGED <<call, sent, initialized>> /\ \A w \in Workers : w \in alive => w \in alive'
      BY <2>3, NamesTyped DEF Mail!Construct, Mail!Destruct, mailVars
    <3> QED BY <2>0, <2>3, <3>1, NamesTyped DEF MboxControl, SentAt, Spawns, Workers
  <2> QED BY <1>5, <2>1, <2>2, <2>3 DEF MainCalls
<1>6. CASE MainProceeds
  BY <1>6, MainProceedsOnly DEF MboxControl
<1>7. CASE UNCHANGED <<mailVars, pc, hand>>
  BY <1>7 DEF mailVars, MboxControl
<1> QED BY <1>1, <1>2, <1>3, <1>4, <1>5, <1>6, <1>7 DEF MboxStep

\* The calls of a thread that registers do not go back.
LEMMA PcForward ==
  ASSUME MboxAssumed, MboxStep, NEW w \in Workers
  PROVE  pc[w] \in Nat /\ pc'[w] \in Nat /\ (pc[w] <= pc'[w])
<1>1. MboxControl'
  BY MboxControlKept
<1> QED BY <1>1, NamesTyped DEF MboxAssumed, MboxStep, WorkerCalls, WorkerReceives, WorkerHandles,
        MainSpawns, MainCalls, MainProceeds, MboxControl

LEMMA MboxRegisteredKept ==
  ASSUME Mbox, MboxAssumed, MboxRegistered, MboxStep, UNCHANGED program
  PROVE  MboxRegistered'
<1> USE DEF MboxAssumed
<1>0. UNCHANGED Script
  BY DEF Script
<1>1. ASSUME NEW l \in Labels, NEW s \in Mail!Slots, receivers'[l] = receivers[l]
      PROVE  RegisteredOnce(l, s)'
  <2> SUFFICES ASSUME receivers[l][s] # NoMailbox PROVE RegisteredOnce(l, s)'
    BY <1>1 DEF RegisteredOnce
  <2> DEFINE v == receivers[l][s]
  <2>1. /\ v \in Workers
        /\ \A r \in Mail!Slots : receivers[l][r] = v => r = s
    BY <1>1 DEF MboxRegistered, RegisteredOnce
  <2>2. PICK i \in 2 .. 4 : i < pc[v] /\ Script[v][i] = <<"register", l>>
    BY <1>1 DEF MboxRegistered, RegisteredOnce
  <2>3. i < pc'[v]
    BY <2>1, <2>2, PcForward
  <2> QED BY <1>0, <1>1, <2>1, <2>2, <2>3 DEF RegisteredOnce
<1>2. CASE UNCHANGED receivers
  BY <1>1, <1>2 DEF MboxRegistered
<1>3. ASSUME NEW w \in Workers, NEW l \in Labels, pc[w] \in 2 .. 4, pc'[w] = pc[w] + 1,
             Script[w][pc[w]] = <<"register", l>>, Mail!RegisterForLabel(w, l)
      PROVE  MboxRegistered'
  <2>1. PICK n \in Mail!Slots : receivers' = [receivers EXCEPT ![l][n] = w]
    BY <1>3 DEF Mail!RegisterForLabel
  <2>2. /\ receivers \in [Labels -> [Mail!Slots -> Mailboxes \cup {NoMailbox}]]
        /\ \A k \in Labels \ {l} : receivers'[k] = receivers[k]
        /\ receivers'[l] = [receivers[l] EXCEPT ![n] = w]
        /\ \A r \in Mail!Slots \ {n} : receivers'[l][r] = receivers[l][r]
        /\ receivers'[l][n] = w
    BY <2>1 DEF Mail!TypeOK
  <2>3. ASSUME NEW r \in Mail!Slots, receivers[l][r] = w PROVE FALSE
    <3>1. w # NoMailbox
      BY NamesTyped, MailAssumption DEF Mail!MailboxAssumption
    <3>2. PICK i \in 2 .. 4 : i < pc[w] /\ Script[w][i] = <<"register", l>>
      BY <2>3, <3>1 DEF MboxRegistered, RegisteredOnce
    <3> QED BY <1>3, <3>2, WorkerRegisters
  <2>4. ASSUME NEW s \in Mail!Slots, receivers'[l][s] # NoMailbox PROVE RegisteredOnce(l, s)'
    <3>1. CASE s = n
      <4>1. pc[w] < pc'[w]
        BY <1>3
      <4> QED BY <1>0, <1>3, <2>2, <2>3, <3>1, <4>1 DEF RegisteredOnce
    <3>2. CASE s # n
      <4> DEFINE v == receivers[l][s]
      <4>1. receivers'[l][s] = v /\ v # NoMailbox
        BY <2>2, <2>4, <3>2
      <4>2. v \in Workers /\ \A r \in Mail!Slots : receivers[l][r] = v => r = s
        BY <4>1 DEF MboxRegistered, RegisteredOnce
      <4>3. PICK i \in 2 .. 4 : i < pc[v] /\ Script[v][i] = <<"register", l>>
        BY <4>1 DEF MboxRegistered, RegisteredOnce
      <4>4. i < pc'[v]
        BY <4>2, <4>3, PcForward
      <4>5. v # w
        BY <2>3
      <4> HIDE DEF v
      <4> QED BY <1>0, <2>2, <4>1, <4>2, <4>3, <4>4, <4>5 DEF RegisteredOnce
    <3> QED BY <3>1, <3>2
  <2>5. \A s \in Mail!Slots : RegisteredOnce(l, s)'
    BY <2>4 DEF RegisteredOnce
  <2> QED BY <1>1, <2>2, <2>5 DEF MboxRegistered
<1>4. ASSUME NEW w \in Workers, NEW l \in Labels, Mail!UnregisterForLabel(w, l)
      PROVE  MboxRegistered'
  <2>1. /\ receivers \in [Labels -> [Mail!Slots -> Mailboxes \cup {NoMailbox}]]
        /\ \A k \in Labels \ {l} : receivers'[k] = receivers[k]
        /\ \A r \in Mail!Slots : receivers'[l][r] # NoMailbox => receivers'[l][r] = receivers[l][r]
    BY <1>4 DEF Mail!TypeOK, Mail!UnregisterForLabel
  <2>2. ASSUME NEW s \in Mail!Slots, receivers'[l][s] # NoMailbox PROVE RegisteredOnce(l, s)'
    <3> DEFINE v == receivers[l][s]
    <3>1. receivers'[l][s] = v /\ v # NoMailbox
      BY <2>1, <2>2
    <3>2. v \in Workers /\ \A r \in Mail!Slots : receivers[l][r] = v => r = s
      BY <3>1 DEF MboxRegistered, RegisteredOnce
    <3>3. PICK i \in 2 .. 4 : i < pc[v] /\ Script[v][i] = <<"register", l>>
      BY <3>1 DEF MboxRegistered, RegisteredOnce
    <3>4. i < pc'[v]
      BY <3>2, <3>3, PcForward
    <3> HIDE DEF v
    <3> QED BY <1>0, <2>1, <3>1, <3>2, <3>3, <3>4 DEF RegisteredOnce
  <2>3. \A s \in Mail!Slots : RegisteredOnce(l, s)'
    BY <2>2 DEF RegisteredOnce
  <2> QED BY <1>1, <2>1, <2>3 DEF MboxRegistered
<1>5. ASSUME NEW w \in Workers, WorkerCalls(w) PROVE MboxRegistered'
  <2>1. CASE Mail!Construct(w) \/ Mail!Destruct(w)
    BY <1>2, <2>1 DEF Mail!Construct, Mail!Destruct
  <2>2. pc'[w] = pc[w] + 1
    BY <1>5, NamesTyped DEF WorkerCalls, MboxControl
  <2> QED BY <1>3, <1>4, <1>5, <2>1, <2>2 DEF WorkerCalls
<1>6. ASSUME NEW w \in Workers, WorkerReceives(w) \/ WorkerHandles(w) \/ MainSpawns(w)
      PROVE  UNCHANGED receivers
  BY <1>6 DEF WorkerReceives, WorkerHandles, MainSpawns, Mail!Receive, Release, Mail!Release, mailVars
<1>7. CASE MainCalls
  BY <1>2, <1>7, MainSendsOnly DEF MainCalls, Mail!Initialize, Mail!Construct, Mail!Destruct, mailVars
<1>8. CASE MainProceeds
  BY <1>2, <1>8, MainProceedsOnly
<1>9. CASE UNCHANGED <<mailVars, pc, hand>>
  BY <1>2, <1>9 DEF mailVars
<1> QED BY <1>2, <1>5, <1>6, <1>7, <1>8, <1>9 DEF MboxStep

(***************************************************************************)
(* What the library guarantees that these proofs use.                      *)
(***************************************************************************)
MailFacts ==
  /\ \A m \in Mailboxes : /\ last[m] <= sent
                         /\ \A i \in DOMAIN queue[m] : last[m] <= queue[m][i].id
                                                       /\ queue[m][i].id <= sent
  /\ call["main"].op \in {"send", "signal"} =>
       call["main"].id = sent /\ (call["main"].block # NoBlock => call["main"].op = "send")
  /\ \A msg \in held : msg.data # NoBlock

LEMMA MailTypeOK == MailP!TypeOK <=> Mail!TypeOK
BY DEF Mail!TypeOK, Mail!Slots, Mail!Pools, Mail!AllBlocks, Mail!Message, Mail!SendCall,
       Mail!NoCall, Mail!StuckCall,
       MailP!TypeOK, MailP!Slots, MailP!Pools, MailP!AllBlocks, MailP!Message, MailP!SendCall,
       MailP!NoCall, MailP!StuckCall

LEMMA MailInvFacts == MailInv => Mail!TypeOK /\ MailFacts
<1> SUFFICES ASSUME MailInv PROVE Mail!TypeOK /\ MailFacts
  OBVIOUS
<1>1. Mail!TypeOK
  BY MailTypeOK DEF MailInv
<1>2. MailP!NothingNewer
  BY MailAssumed, MailP!OrderedNothingNewer DEF MailInv
<1>3. /\ call["main"].op \in {"send", "signal"} =>
           call["main"].id = sent /\ (call["main"].block # NoBlock => call["main"].op = "send")
      /\ \A msg \in held : msg.data # NoBlock
  BY NamesTyped DEF MailInv, MailP!CurrentSend, MailP!BlocksInv, MailP!HandInv
<1> QED BY <1>1, <1>2, <1>3 DEF MailFacts, MailP!NothingNewer

LEMMA QueueTyped ==
  ASSUME Mail!TypeOK, NEW m \in Mailboxes
  PROVE  /\ queue[m] \in Seq(Mail!Message) /\ DOMAIN queue[m] = 1 .. Len(queue[m])
         /\ Len(queue[m]) \in Nat
         /\ \A i \in DOMAIN queue[m] : queue[m][i] \in Mail!Message /\ queue[m][i].id \in Nat
         /\ last[m] \in Nat /\ sent \in Nat
<1>1. queue[m] \in Seq(Mail!Message) /\ last[m] \in 0 .. MaxSends /\ sent \in 0 .. MaxSends
  BY DEF Mail!TypeOK
<1>2. MaxSends \in Nat
  BY MailAssumption DEF Mail!MailboxAssumption
<1>3. \A i \in DOMAIN queue[m] : queue[m][i] \in Mail!Message
  BY <1>1
<1>4. \A i \in DOMAIN queue[m] : queue[m][i].id \in Nat
  BY <1>2, <1>3 DEF Mail!Message
<1> QED BY <1>1, <1>2, <1>3, <1>4, LenProperties

\* A message that is received leaves the rest of the queue.
LEMMA TailOfQueue ==
  ASSUME Mail!TypeOK, NEW m \in Mailboxes, Mail!Receive(m)
  PROVE  /\ 1 \in DOMAIN queue[m] /\ Head(queue[m]) = queue[m][1]
         /\ Head(queue[m]) \in Mail!Message
         /\ Len(queue'[m]) = Len(queue[m]) - 1
         /\ DOMAIN queue'[m] = 1 .. Len(queue[m]) - 1
         /\ \A i \in DOMAIN queue'[m] : i + 1 \in DOMAIN queue[m] /\ queue'[m][i] = queue[m][i + 1]
         /\ \A n \in Mailboxes \ {m} : queue'[n] = queue[n]
<1>1. queue[m] # <<>> /\ queue' = [queue EXCEPT ![m] = Tail(@)]
  BY DEF Mail!Receive
<1>2. queue'[m] = Tail(queue[m]) /\ \A n \in Mailboxes \ {m} : queue'[n] = queue[n]
  BY <1>1 DEF Mail!TypeOK
<1> DEFINE q == queue[m]
           S == Mail!Message
<1>3. q \in Seq(S) /\ q # <<>> /\ DOMAIN q = 1 .. Len(q) /\ Len(q) \in Nat
  BY <1>1, QueueTyped
<1> HIDE DEF q, S
<1>4. /\ 1 \in DOMAIN q /\ Head(q) = q[1] /\ Head(q) \in S
      /\ Len(Tail(q)) = Len(q) - 1 /\ DOMAIN Tail(q) = 1 .. Len(q) - 1
      /\ \A i \in DOMAIN Tail(q) : i + 1 \in DOMAIN q /\ Tail(q)[i] = q[i + 1]
  BY <1>3
<1> QED BY <1>2, <1>4 DEF q, S

LEMMA NoMessageApart == NoMessage \notin Mail!Message
BY DEF NoMessage, Mail!Message

LEMMA MboxHandsKept ==
  ASSUME MboxAssumed, MailFacts, MboxMessages, MboxStep
  PROVE  MboxHands'
<1> USE DEF MboxAssumed
<1>1. ASSUME UNCHANGED <<hand, held, last>>,
             \A w \in Workers : \/ pc'[w] = pc[w]
                                \/ pc[w] # 5 /\ pc'[w] = pc[w] + 1
      PROVE  MboxHands'
  BY <1>1, NamesTyped DEF MboxHands, MboxControl
<1>2. ASSUME NEW w \in Workers, WorkerCalls(w) PROVE MboxHands'
  <2>1. UNCHANGED <<hand, held, last>>
    BY <1>2 DEF WorkerCalls, Mail!Construct, Mail!RegisterForLabel, Mail!UnregisterForLabel,
       Mail!Destruct, Mail!historyVars
  <2> QED BY <1>1, <1>2, <2>1, NamesTyped DEF WorkerCalls, MboxControl
<1>3. ASSUME NEW w \in Workers, WorkerReceives(w) PROVE MboxHands'
  <2>1. /\ Head(queue[w]) \in Mail!Message /\ UNCHANGED pc /\ pc[w] = 5 /\ hand[w] = NoMessage
        /\ hand' = [hand EXCEPT ![w] = Head(queue[w])]
        /\ last' = [last EXCEPT ![w] = Head(queue[w]).id]
        /\ held' \subseteq held \cup {Head(queue[w])}
    BY <1>3, NamesTyped, TailOfQueue DEF WorkerReceives, Mail!Receive
  <2>2. /\ hand' \in [Threads -> Mail!Message \cup {NoMessage}]
        /\ hand'[w] = Head(queue[w]) /\ last'[w] = Head(queue[w]).id
        /\ \A t \in Threads \ {w} : hand'[t] = hand[t]
        /\ \A m \in Mailboxes \ {w} : last'[m] = last[m]
    BY <2>1, NamesTyped DEF MboxHands, Mail!TypeOK
  <2>3. \A t \in Threads : hand'[t] # NoMessage => t \in Workers /\ pc'[t] = 5 /\ hand'[t].id = last'[t]
    BY <2>1, <2>2, NamesTyped DEF MboxHands
  <2>4. \A u \in Workers : pc'[u] >= 6 => last'[u] = 6
    BY <2>1, <2>2, NamesTyped DEF MboxHands
  <2>5. ASSUME NEW msg \in held PROVE \E u \in Workers : hand'[u] = msg /\ pc'[u] = 5
    <3>1. PICK u \in Workers : hand[u] = msg /\ pc[u] = 5
      BY DEF MboxHands
    <3>2. u # w
      BY <2>1, <3>1, NoMessageApart DEF Mail!TypeOK
    <3> QED BY <2>1, <2>2, <3>1, <3>2, NamesTyped
  <2> QED BY <2>1, <2>2, <2>3, <2>4, <2>5 DEF MboxHands
<1>4. ASSUME NEW w \in Workers, WorkerHandles(w) PROVE MboxHands'
  <2>1. /\ hand[w] # NoMessage /\ pc[w] = 5 /\ hand' = [hand EXCEPT ![w] = NoMessage]
        /\ UNCHANGED last
        /\ held' \subseteq held /\ hand[w] \notin held'
    BY <1>4, NamesTyped DEF WorkerHandles, MboxHands, Release, Mail!Release, Mail!historyVars,
       mailVars, MailFacts
  <2>2. /\ hand' \in [Threads -> Mail!Message \cup {NoMessage}]
        /\ hand'[w] = NoMessage
        /\ \A t \in Threads \ {w} : hand'[t] = hand[t]
    BY <2>1, NamesTyped DEF MboxHands
  <2>3. /\ \A t \in Threads \ {w} : pc'[t] = pc[t]
        /\ pc'[w] = 6 => hand[w].label = 999
        /\ pc'[w] \in 5 .. 6
    BY <1>4, <2>1, NamesTyped DEF WorkerHandles, MboxControl
  <2>4. pc'[w] >= 6 => last'[w] = 6
    BY <2>1, <2>3, NamesTyped DEF MboxHands, MboxMessages, OfMain, Numbered
  <2>5. \A u \in Workers : pc'[u] >= 6 => last'[u] = 6
    BY <2>1, <2>3, <2>4, NamesTyped DEF MboxHands
  <2>6. \A t \in Threads : hand'[t] # NoMessage => t \in Workers /\ pc'[t] = 5 /\ hand'[t].id = last'[t]
    BY <2>1, <2>2, <2>3, NamesTyped DEF MboxHands
  <2>7. \A msg \in held' : \E u \in Workers : hand'[u] = msg /\ pc'[u] = 5
    BY <2>1, <2>2, <2>3, NamesTyped DEF MboxHands
  <2> QED BY <2>2, <2>5, <2>6, <2>7 DEF MboxHands
<1>5. ASSUME NEW w \in Workers, MainSpawns(w) PROVE MboxHands'
  BY <1>1, <1>5, NamesTyped DEF MainSpawns, mailVars, MboxControl
<1>6. CASE MainCalls
  <2>1. UNCHANGED <<hand, held, last>>
    BY <1>6, MainSendsOnly DEF MainCalls, Mail!Initialize, Mail!Construct, Mail!Destruct, mailVars,
       Mail!historyVars
  <2>2. \A w \in Workers : pc'[w] = pc[w]
    BY <1>6, NamesTyped DEF MainCalls, MboxControl
  <2> QED BY <1>1, <2>1, <2>2
<1>7. CASE MainProceeds
  BY <1>1, <1>7, MainProceedsOnly
<1>8. CASE UNCHANGED <<mailVars, pc, hand>>
  BY <1>1, <1>8 DEF mailVars
<1> QED BY <1>2, <1>3, <1>4, <1>5, <1>6, <1>7, <1>8 DEF MboxStep

\* What main's loop does with the receiver it has come to, and its call.
LEMMA LoopStep ==
  ASSUME MboxAssumed, MainProceeds
  PROVE  /\ call["main"].op \in {"send", "signal"}
         /\ call["main"] \in Mail!SendCall /\ call["main"].slot \in Nat
         /\ \/ call'["main"] = Mail!NoCall
            \/ /\ call'["main"].op = call["main"].op /\ call'["main"].label = call["main"].label
               /\ call'["main"].slot \in {call["main"].slot, call["main"].slot + 1}
<1>1. call["main"].op \in {"send", "signal"}
  BY DEF MainProceeds, Mail!Proceed, Mail!Skip, Mail!Allocate, Mail!Emplace, Mail!EmplaceFull,
     Mail!Return, Mail!AtEmplace, Mail!InLoop
<1>2. call["main"] \in Mail!SendCall
  BY <1>1, NamesTyped DEF MboxAssumed, Mail!TypeOK, Mail!NoCall, Mail!StuckCall
<1>3. call["main"].slot \in Nat
  BY <1>2, MailAssumption DEF Mail!SendCall, Mail!MailboxAssumption
<1>4. /\ call \in [Threads \cup {SignalThread} -> Mail!SendCall \cup {Mail!NoCall, Mail!StuckCall}]
      /\ "main" \in Threads \cup {SignalThread}
  BY NamesTyped DEF MboxAssumed, Mail!TypeOK
<1> QED BY <1>1, <1>2, <1>3, <1>4
        DEF MainProceeds, Mail!Proceed, Mail!Skip, Mail!Allocate, Mail!Emplace,
            Mail!EmplaceFull, Mail!Return, Mail!Advance, Mail!SendCall

\* The queue of a mailbox after main's step: as before, or with the message added.
Emplaced(m) ==
  /\ m = Mail!Receiver("main") /\ m # NoMailbox
  /\ Mail!InLoop("main")
  /\ queue'[m] = Append(queue[m], Mail!MessageOf("main"))
  /\ call'["main"].slot = call["main"].slot + 1
  /\ call'["main"].label = call["main"].label

LEMMA LoopQueues ==
  ASSUME MboxAssumed, MainProceeds, NEW m \in Mailboxes
  PROVE  queue'[m] = queue[m] \/ Emplaced(m)
<1>1. CASE Mail!Emplace("main")
  <2>1. /\ Mail!InLoop("main") /\ Mail!Receiver("main") # NoMailbox
        /\ queue' = [queue EXCEPT ![Mail!Receiver("main")] = Append(@, Mail!MessageOf("main"))]
    BY <1>1 DEF Mail!Emplace, Mail!AtEmplace
  <2>2. call'["main"].slot = call["main"].slot + 1 /\ call'["main"].label = call["main"].label
    <3>1. call["main"] \in Mail!SendCall
      BY LoopStep
    <3> QED BY <1>1, <3>1, NamesTyped
            DEF Mail!Emplace, Mail!Advance, MboxAssumed, Mail!TypeOK, Mail!SendCall
  <2> QED BY <2>1, <2>2 DEF MboxAssumed, Mail!TypeOK, Emplaced
<1>2. CASE ~Mail!Emplace("main")
  BY <1>2 DEF MainProceeds, Mail!Proceed, Mail!Skip, Mail!Allocate, Mail!EmplaceFull, Mail!Return
<1> QED BY <1>1, <1>2

LEMMA AppendTo ==
  ASSUME Mail!TypeOK, NEW m \in Mailboxes, NEW msg, queue'[m] = Append(queue[m], msg)
  PROVE  /\ Len(queue'[m]) = Len(queue[m]) + 1
         /\ DOMAIN queue'[m] = 1 .. Len(queue[m]) + 1
         /\ \A i \in DOMAIN queue[m] : queue'[m][i] = queue[m][i]
         /\ queue'[m][Len(queue[m]) + 1] = msg
BY QueueTyped

LEMMA MboxMessagesKept ==
  ASSUME MboxAssumed, MailFacts, MboxMessages, MboxStep
  PROVE  MboxMessages'
<1> USE DEF MboxAssumed
<1> DEFINE QueuesOf == \A m \in Mailboxes : \A i \in DOMAIN queue[m] : OfMain(queue[m][i])
           HandsOf == \A t \in Threads : hand[t] # NoMessage => OfMain(hand[t])
           CallOf == call["main"] # Mail!NoCall =>
                       (call["main"].op = "send" => sent <= 3) /\ Numbered(call["main"].label, sent)
<1>0. QueuesOf /\ HandsOf /\ CallOf /\ (QueuesOf' /\ HandsOf' /\ CallOf' => MboxMessages')
  BY DEF MboxMessages
<1>1. UNCHANGED hand => HandsOf'
  BY <1>0 DEF OfMain
<1>2. UNCHANGED queue => QueuesOf'
  BY <1>0 DEF OfMain
<1>3. UNCHANGED <<call, sent>> => CallOf'
  BY <1>0
<1>4. ASSUME NEW m \in Mailboxes, Mail!Destruct(m) PROVE QueuesOf'
  <2>1. queue' = [queue EXCEPT ![m] = <<>>]
    BY <1>4 DEF Mail!Destruct
  <2> QED BY <1>0, <2>1 DEF Mail!TypeOK, OfMain
<1> HIDE DEF QueuesOf, HandsOf, CallOf
<1>5. ASSUME NEW w \in Workers, WorkerCalls(w) PROVE MboxMessages'
  <2>1. QueuesOf'
    BY <1>2, <1>4, <1>5, NamesTyped DEF WorkerCalls, Mail!Construct, Mail!RegisterForLabel,
       Mail!UnregisterForLabel
  <2>2. UNCHANGED <<hand, call, sent>>
    BY <1>5 DEF WorkerCalls, Mail!Construct, Mail!RegisterForLabel, Mail!UnregisterForLabel,
       Mail!Destruct
  <2> QED BY <1>0, <1>1, <1>3, <2>1, <2>2
<1>6. ASSUME NEW w \in Workers, WorkerReceives(w) PROVE MboxMessages'
  <2>1. Mail!Receive(w) /\ hand' = [hand EXCEPT ![w] = Head(queue[w])] /\ UNCHANGED <<call, sent>>
    BY <1>6 DEF WorkerReceives, Mail!Receive
  <2>2. QueuesOf'
    BY <1>0, <2>1, TailOfQueue, NamesTyped DEF QueuesOf, OfMain
  <2>3. HandsOf'
    BY <1>0, <2>1, TailOfQueue, NamesTyped DEF HandsOf, QueuesOf, OfMain, MboxHands
  <2> QED BY <1>0, <1>3, <2>1, <2>2, <2>3
<1>7. ASSUME NEW w \in Workers, WorkerHandles(w) PROVE MboxMessages'
  <2>1. UNCHANGED <<queue, call, sent>> /\ hand' = [hand EXCEPT ![w] = NoMessage]
    BY <1>7 DEF WorkerHandles, Release, Mail!Release, mailVars
  <2>2. HandsOf'
    BY <1>0, <2>1, NamesTyped DEF HandsOf, OfMain, MboxHands
  <2> QED BY <1>0, <1>2, <1>3, <2>1, <2>2
<1>8. ASSUME NEW w \in Workers, MainSpawns(w) PROVE MboxMessages'
  BY <1>0, <1>1, <1>2, <1>3, <1>8 DEF MainSpawns, mailVars
<1>9. CASE MainCalls
  <2>1. UNCHANGED hand
    BY <1>9 DEF MainCalls
  <2>2. QueuesOf'
    BY <1>2, <1>4, <1>9, MainSendsOnly, NamesTyped DEF MainCalls, Mail!Initialize, Mail!Construct, mailVars
  <2>3. CallOf'
    <3>1. CASE MainSends
      <4>1. /\ call'["main"].op = "send" => pc["main"] \in 8 .. 10 /\ call'["main"].label \in 1 .. 3
            /\ call'["main"].op # "send" =>
                 \/ pc["main"] \in 11 .. 12 /\ call'["main"].label = pc["main"] - 7
                 \/ pc["main"] = 14 /\ call'["main"].label = 999
        BY <3>1, NamesTyped DEF MainSends, Mail!StartCall, Mail!TypeOK
      <4>2. sent' = SentAt(pc["main"]) + 1
        BY <3>1, MainSendsOnly DEF MboxControl
      <4> QED BY <4>1, <4>2 DEF CallOf, SentAt, Numbered
    <3>2. CASE ~MainSends
      BY <1>3, <1>9, <3>2 DEF MainCalls, Mail!Initialize, Mail!Construct, Mail!Destruct, mailVars
    <3> QED BY <3>1, <3>2
  <2> QED BY <1>0, <1>1, <2>1, <2>2, <2>3
<1>10. CASE MainProceeds
  <2>1. UNCHANGED <<hand, sent>>
    BY <1>10, MainProceedsOnly
  <2>2. CallOf'
    BY <1>0, <1>10, <2>1, LoopStep, MainProceedsOnly DEF CallOf
  <2>3. OfMain(Mail!MessageOf("main"))
    <3>1. /\ call["main"].id = sent /\ (call["main"].block # NoBlock => call["main"].op = "send")
          /\ call["main"] # Mail!NoCall
      BY <1>10, LoopStep, MainProceedsOnly DEF MailFacts
    <3> QED BY <1>0, <3>1 DEF CallOf, OfMain, Mail!MessageOf
  <2>4. ASSUME NEW m \in Mailboxes, NEW i \in DOMAIN queue'[m] PROVE OfMain(queue'[m][i])
    <3>1. CASE queue'[m] = queue[m]
      BY <1>0, <2>4, <3>1 DEF QueuesOf
    <3>2. CASE Emplaced(m)
      BY <1>0, <2>3, <2>4, <3>2, AppendTo, QueueTyped DEF QueuesOf, Emplaced
    <3> QED BY <1>10, <3>1, <3>2, LoopQueues
  <2>5. QueuesOf'
    BY <2>4 DEF QueuesOf, OfMain
  <2> QED BY <1>0, <1>1, <2>1, <2>2, <2>5
<1>11. CASE UNCHANGED <<mailVars, pc, hand>>
  BY <1>0, <1>1, <1>2, <1>3, <1>11 DEF mailVars
<1> QED BY <1>5, <1>6, <1>7, <1>8, <1>9, <1>10, <1>11 DEF MboxStep

LEMMA MainUnlocked ==
  ASSUME Mail!TypeOK, mutex = NoThread
  PROVE  call["main"] = Mail!NoCall
BY NamesTyped, MailAssumption DEF Mail!TypeOK, Mail!MailboxAssumption

\* The receiver that main's loop has come to is awaited, and only this once.
LEMMA EmplacedOnce ==
  ASSUME MboxAssumed, MboxRegistered, MainProceeds, NEW m \in Mailboxes, Emplaced(m)
  PROVE  Awaits(m) /\ ~Awaits(m)' /\ m \in Workers
<1>1. /\ call["main"].label \in Labels /\ call["main"].slot \in Mail!Slots /\ call["main"].slot \in Nat
      /\ receivers[call["main"].label][call["main"].slot] = m /\ m # NoMailbox
  BY LoopStep DEF Emplaced, Mail!SendCall, Mail!Receiver, Mail!InLoop
<1>2. /\ m \in Workers
      /\ \A r \in Mail!Slots : receivers[call["main"].label][r] = m => r = call["main"].slot
  BY <1>1 DEF MboxRegistered, RegisteredOnce
<1>3. Awaits(m)
  BY <1>1, MainProceedsOnly DEF Awaits
<1>4. ~Awaits(m)'
  BY <1>1, <1>2, MainProceedsOnly DEF Awaits, Emplaced, Mail!Slots
<1> QED BY <1>2, <1>3, <1>4

LEMMA MboxRoomKept ==
  ASSUME MboxAssumed, MailFacts, MboxRegistered, MboxRoom, MboxStep
  PROVE  MboxRoom'
<1> USE DEF MboxAssumed
<1> SUFFICES ASSUME NEW m \in Mailboxes PROVE Room(m)'
  BY DEF MboxRoom
<1>0. Room(m)
  BY DEF MboxRoom
<1>1. ASSUME queue'[m] = queue[m], UNCHANGED <<sent, last>>, Awaits(m)' => Awaits(m)
      PROVE  Room(m)'
  BY <1>0, <1>1 DEF Room
<1>2. ASSUME UNCHANGED <<call, receivers>> PROVE Awaits(m)' => Awaits(m)
  BY <1>2 DEF Awaits
<1>3. ASSUME call'["main"] = Mail!NoCall PROVE ~Awaits(m)'
  BY <1>3 DEF Awaits
<1>4. ASSUME NEW n \in Mailboxes, Mail!Destruct(n) PROVE Room(m)'
  <2>1. /\ queue'[m] = IF m = n THEN <<>> ELSE queue[m]
        /\ UNCHANGED <<sent, last, call, receivers>>
    BY <1>4 DEF Mail!Destruct, Mail!TypeOK
  <2>2. CASE m = n
    BY <1>0, <1>2, <2>1, <2>2, QueueTyped DEF Room
  <2> QED BY <1>1, <1>2, <2>1, <2>2
<1>5. ASSUME NEW w \in Workers, WorkerCalls(w) PROVE Room(m)'
  <2>1. CASE Mail!Construct(w)
    BY <1>1, <1>2, <2>1 DEF Mail!Construct, Mail!historyVars
  <2>2. ASSUME NEW l, Mail!RegisterForLabel(w, l) \/ Mail!UnregisterForLabel(w, l) PROVE Room(m)'
    <3>1. mutex = NoThread /\ UNCHANGED <<call, queue, sent, last>>
      BY <2>2 DEF Mail!RegisterForLabel, Mail!UnregisterForLabel
    <3> QED BY <1>1, <1>3, <3>1, MainUnlocked
  <2> QED BY <1>4, <1>5, <2>1, <2>2, NamesTyped DEF WorkerCalls
<1>6. ASSUME NEW w \in Workers, WorkerReceives(w) PROVE Room(m)'
  <2>1. Mail!Receive(w) /\ UNCHANGED <<call, receivers, sent>>
    BY <1>6 DEF WorkerReceives, Mail!Receive
  <2>2. \A n \in Mailboxes : last'[n] = IF n = w THEN queue[w][1].id ELSE last[n]
    BY <2>1, NamesTyped, TailOfQueue DEF Mail!Receive, Mail!TypeOK
  <2>3. CASE m = w
    BY <1>0, <1>2, <2>1, <2>2, <2>3, TailOfQueue, QueueTyped DEF Room
  <2>4. CASE m # w
    <3>1. queue'[m] = queue[m] /\ last'[m] = last[m]
      BY <2>1, <2>2, <2>4, NamesTyped, TailOfQueue
    <3> QED BY <1>0, <1>2, <2>1, <3>1 DEF Room
  <2> QED BY <2>3, <2>4
<1>7. ASSUME NEW w \in Workers, WorkerHandles(w) \/ MainSpawns(w) PROVE Room(m)'
  BY <1>1, <1>2, <1>7 DEF WorkerHandles, MainSpawns, Release, Mail!Release, Mail!historyVars, mailVars
<1>8. CASE MainCalls
  <2>1. CASE MainSends
    <3>1. sent' = sent + 1 /\ UNCHANGED <<queue, last>>
      BY <2>1, MainSendsOnly
    <3> QED BY <1>0, <3>1, QueueTyped DEF Room, MailFacts
  <2>2. CASE ~MainSends
    BY <1>1, <1>2, <1>4, <1>8, <2>2, NamesTyped
       DEF MainCalls, Mail!Initialize, Mail!Construct, Mail!historyVars, mailVars
  <2> QED BY <2>1, <2>2
<1>9. CASE MainProceeds
  <2>1. UNCHANGED <<sent, last, receivers>> /\ call["main"] # Mail!NoCall
    BY <1>9, MainProceedsOnly
  <2>2. CASE queue'[m] = queue[m]
    <3>1. Awaits(m)' => Awaits(m)
      BY <1>9, <2>1, LoopStep DEF Awaits, Mail!Slots
    <3> QED BY <1>1, <2>1, <2>2, <3>1
  <2>3. CASE Emplaced(m)
    <3>1. Awaits(m) /\ ~Awaits(m)'
      BY <1>9, <2>3, EmplacedOnce
    <3>2. Len(queue'[m]) = Len(queue[m]) + 1
      BY <2>3, AppendTo DEF Emplaced
    <3> QED BY <1>0, <2>1, <3>1, <3>2, QueueTyped DEF Room
  <2> QED BY <1>9, <2>2, <2>3, LoopQueues
<1>10. CASE UNCHANGED <<mailVars, pc, hand>>
  BY <1>1, <1>2, <1>10 DEF mailVars
<1> QED BY <1>5, <1>6, <1>7, <1>8, <1>9, <1>10 DEF MboxStep

\* The queues are large enough for main's three messages, and a thread that has
\* come to the end has nothing left in its queue that came before Exit.
LEMMA MboxKeptKept ==
  ASSUME QueueSize >= 3, MboxAssumed, MailFacts, MboxRegistered, MboxMessages, MboxRoom, MboxKept,
         MboxStep
  PROVE  MboxKept'
<1> USE DEF MboxAssumed
<1>1. ASSUME UNCHANGED <<queue, lost>> PROVE MboxKept'
  BY <1>1 DEF MboxKept
<1>2. ASSUME NEW m \in Mailboxes, Mail!Destruct(m), Mail!Queued(m) = {} PROVE MboxKept'
  BY <1>2 DEF MboxKept, Mail!Destruct, Mail!TypeOK
<1>3. ASSUME NEW w \in Workers, WorkerCalls(w) PROVE MboxKept'
  <2>1. CASE pc[w] = 9 /\ Mail!Destruct(w)
    <3>1. \A i \in DOMAIN queue[w] : queue[w][i].data = NoBlock
      BY <2>1, NamesTyped, QueueTyped DEF MailFacts, MboxHands, MboxMessages, OfMain
    <3> QED BY <1>2, <2>1, <3>1, NamesTyped DEF Mail!Queued
  <2> QED BY <1>1, <1>3, <2>1 DEF WorkerCalls, Mail!Construct, Mail!RegisterForLabel,
          Mail!UnregisterForLabel, Mail!historyVars
<1>4. ASSUME NEW w \in Workers, WorkerReceives(w) PROVE MboxKept'
  <2>1. Mail!Receive(w) /\ UNCHANGED lost
    BY <1>4 DEF WorkerReceives, Mail!Receive
  <2> QED BY <2>1, NamesTyped, TailOfQueue DEF MboxKept
<1>5. ASSUME NEW w \in Workers, WorkerHandles(w) \/ MainSpawns(w) PROVE MboxKept'
  BY <1>1, <1>5 DEF WorkerHandles, MainSpawns, Release, Mail!Release, Mail!historyVars, mailVars
<1>6. CASE MainCalls
  <2>1. Mail!Queued("main") = {}
    BY NamesTyped DEF MboxKept, Mail!Queued
  <2> QED BY <1>1, <1>2, <1>6, <2>1, NamesTyped, MainSendsOnly
          DEF MainCalls, Mail!Initialize, Mail!Construct, Mail!historyVars, mailVars
<1>7. CASE MainProceeds
  <2>1. ASSUME NEW m \in Mailboxes \ Workers PROVE queue'[m] = <<>>
    BY <1>7, EmplacedOnce, LoopQueues DEF MboxKept
  <2>2. CASE Mail!EmplaceFull("main")
    <3> DEFINE m == Mail!Receiver("main")
    <3>1. /\ m # NoMailbox /\ Len(queue[m]) >= QueueSize
          /\ lost' = lost \cup ({call["main"].block} \ {NoBlock})
          /\ call["main"].label \in Labels /\ call["main"].slot \in Mail!Slots
      BY <1>7, <2>2, LoopStep DEF Mail!EmplaceFull, Mail!AtEmplace, Mail!InLoop, Mail!SendCall
    <3>2. m \in Workers
      BY <3>1 DEF MboxRegistered, RegisteredOnce, Mail!Receiver
    <3>3. Awaits(m)
      BY <1>7, <3>1, MainProceedsOnly DEF Awaits, Mail!Receiver, Mail!Slots
    <3>4. Len(queue[m]) < sent /\ Len(queue[m]) \in Nat /\ sent \in Nat
      BY <3>2, <3>3, NamesTyped, QueueTyped DEF MboxRoom, Room
    <3>5. QueueSize \in Nat
      BY MailAssumption DEF Mail!MailboxAssumption
    <3>6. sent > 3
      BY <3>1, <3>4, <3>5
    <3>7. call["main"].block = NoBlock
      BY <1>7, <3>4, <3>6, LoopStep, MainProceedsOnly DEF MailFacts, MboxMessages
    <3> QED BY <2>1, <3>1, <3>7 DEF MboxKept
  <2>3. CASE ~Mail!EmplaceFull("main")
    <3>1. UNCHANGED lost
      BY <1>7, <2>3 DEF MainProceeds, Mail!Proceed, Mail!Skip, Mail!Allocate, Mail!Emplace,
         Mail!Return, Mail!historyVars
    <3> QED BY <2>1, <3>1 DEF MboxKept
  <2> QED BY <2>2, <2>3
<1>8. CASE UNCHANGED <<mailVars, pc, hand>>
  BY <1>1, <1>8 DEF mailVars
<1> QED BY <1>3, <1>4, <1>5, <1>6, <1>7, <1>8 DEF MboxStep

-----------------------------------------------------------------------------
LEMMA ProgramConstant == [ProgramNext]_<<vars, programVars>> => UNCHANGED program
BY DEF ProgramNext, Step, Call, Spawn, Receive, Handle, Proceed, TimerExpires, SignalArrives,
       SignalStep, programVars

LEMMA InitMbox == ProgramInit => MboxInv /\ MboxKept
<1> SUFFICES ASSUME ProgramInit PROVE MboxInv /\ MboxKept
  OBVIOUS
<1>1. /\ kernel = <<>> /\ pending = {} /\ handler = NoTimer /\ event = "none"
      /\ receivers = [l \in Labels |-> [s \in Mail!Slots |-> NoMailbox]]
      /\ queue = [m \in Mailboxes |-> <<>>] /\ held = {} /\ lost = {} /\ sent = 0
      /\ call = [t \in Threads \cup {SignalThread} |-> Mail!NoCall]
      /\ pc = [t \in Threads |-> IF t = "main" THEN 1 ELSE 0]
      /\ hand = [t \in Threads |-> NoMessage]
  BY DEF ProgramInit, Init, Timing!Init, Mail!Init
<1>2. MboxQuiet
  BY <1>1 DEF MboxQuiet
<1>3. MboxControl
  BY <1>1, NamesTyped DEF MboxControl, SentAt, Workers, Spawns
<1>4. MboxRegistered
  BY <1>1 DEF MboxRegistered, RegisteredOnce
<1>5. MboxMessages /\ MboxKept
  BY <1>1, NamesTyped DEF MboxMessages, MboxKept
<1>6. MboxHands
  BY <1>1, NamesTyped DEF MboxHands
<1>7. MboxRoom
  BY <1>1, NamesTyped DEF MboxRoom, Room, Awaits
<1> QED BY <1>2, <1>3, <1>4, <1>5, <1>6, <1>7 DEF MboxInv

LEMMA MboxInvInductive ==
  ASSUME LibraryInv, Mbox, MboxInv, [ProgramNext]_<<vars, programVars>>
  PROVE  /\ MboxInv'
         /\ QueueSize >= 3 /\ MboxKept => MboxKept'
<1>1. ProgramOK /\ MboxAssumed /\ MailFacts /\ UNCHANGED program
  BY MailInvFacts, ProgramConstant DEF LibraryInv, MboxAssumed, MboxInv
<1>2. MboxStep /\ MboxQuiet'
  BY <1>1, MboxSteps, MboxQuietInductive DEF MboxInv, MboxAssumed
<1>3. MboxControl' /\ MboxHands' /\ MboxMessages' /\ MboxRegistered' /\ MboxRoom'
  BY <1>1, <1>2, MboxControlKept, MboxHandsKept, MboxMessagesKept, MboxRegisteredKept,
     MboxRoomKept DEF MboxInv
<1> QED BY <1>1, <1>2, <1>3, MboxKeptKept DEF MboxInv

LEMMA MboxInvHolds == ProgramSpec => [](Mbox => MboxInv)
<1>1. LibraryInv /\ (Mbox => MboxInv) /\ [ProgramNext]_<<vars, programVars>> => (Mbox => MboxInv)'
  BY MboxInvInductive, ProgramConstant DEF Mbox
<1> QED BY <1>1, InitMbox, LibraryInvHolds, PTL DEF ProgramSpec

LEMMA MboxKeptHolds == ASSUME QueueSize >= 3 PROVE ProgramSpec => [](Mbox => MboxKept)
<1>1. LibraryInv /\ (Mbox => MboxInv) /\ (Mbox => MboxKept) /\ [ProgramNext]_<<vars, programVars>>
        => (Mbox => MboxKept)'
  BY MboxInvInductive, ProgramConstant DEF Mbox
<1> QED BY <1>1, InitMbox, LibraryInvHolds, MboxInvHolds, PTL DEF ProgramSpec

(***************************************************************************)
(* No send of mbox.cpp touches a mailbox that is destroyed, although two   *)
(* labels are left registered: main's loop awaits only mailboxes that have *)
(* not received Exit, and their threads are still in their loops.          *)
(***************************************************************************)
THEOREM MboxSendsToLiving == ProgramSpec => [](program = "mbox" => SendsToLiving)
<1>1. ASSUME LibraryInv, MboxInv PROVE SendsToLiving
  <2> SUFFICES ASSUME NEW t \in Threads \cup {SignalThread}, Mail!AtEmplace(t)
               PROVE  Mail!Receiver(t) \in alive
    BY DEF SendsToLiving
  <2>1. Mail!TypeOK /\ MboxControl /\ MboxHands /\ MboxRegistered /\ MboxRoom
    BY <1>1, MailInvFacts DEF LibraryInv, MboxInv
  <2>2. call[t].op \in {"send", "signal"} /\ call[t].slot \in Mail!Slots /\ Mail!Receiver(t) # NoMailbox
    BY DEF Mail!AtEmplace, Mail!InLoop
  <2>3. t = "main" /\ call[t] # Mail!NoCall
    BY <2>1, <2>2 DEF MboxControl, Mail!NoCall
  <2>4. call[t].label \in Labels /\ call[t].slot \in Nat
    <3>1. call[t] \in Mail!SendCall
      BY <2>1, <2>2 DEF Mail!TypeOK, Mail!NoCall, Mail!StuckCall
    <3> QED BY <3>1, MailAssumption DEF Mail!SendCall, Mail!MailboxAssumption
  <2> DEFINE w == Mail!Receiver(t)
  <2>5. w = receivers[call[t].label][call[t].slot]
    BY DEF Mail!Receiver
  <2>6. w \in Workers /\ \E i \in 2 .. 4 : i < pc[w]
    BY <2>1, <2>2, <2>4, <2>5 DEF MboxRegistered, RegisteredOnce
  <2>7. Awaits(w)
    BY <2>2, <2>3, <2>4, <2>5 DEF Awaits
  <2> HIDE DEF w
  <2>8. last[w] < sent
    BY <2>1, <2>6, <2>7, NamesTyped DEF MboxRoom, Room
  <2>9. sent \in 0 .. 6
    BY <2>1 DEF MboxControl, SentAt
  <2>10. last[w] # 6
    BY <2>1, <2>6, <2>8, <2>9, NamesTyped, QueueTyped
  <2>11. pc[w] \in 2 .. 9
    BY <2>1, <2>6, <2>10 DEF MboxControl, MboxHands
  <2>12. w \in alive
    BY <2>1, <2>6, <2>11 DEF MboxControl
  <2> QED BY <2>12 DEF w
<1> QED BY <1>1, LibraryInvHolds, MboxInvHolds, PTL DEF Mbox

-----------------------------------------------------------------------------
(***************************************************************************)
(* What mbox.cpp displays: labels 4 and 5 reach thread3, if it has come to *)
(* its loop by the end of main's first sleep.                              *)
(***************************************************************************)
\* The send of label l, which is number l, does not await thread3 any more.
Passed(l) == sent > l \/ (sent = l /\ ~Awaits("thread3"))

HasLabel(l) ==
  \/ l \in shown["thread3"]
  \/ hand["thread3"].label = l
  \/ \E i \in DOMAIN queue["thread3"] : queue["thread3"][i].label = l

Ready == timely /\ pc["main"] >= 8 => pc["thread3"] >= 5

Listens ==
  \A l \in {4, 5} :
    pc["thread3"] >= l - 1 => \E s \in Mail!Slots : receivers[l][s] = "thread3"

ShownInv ==
  /\ DOMAIN shown = Threads
  /\ \A w \in Workers : pc[w] >= 6 => 999 \in shown[w]
  /\ Ready /\ Listens
  /\ \A l \in {4, 5} : timely /\ Passed(l) => HasLabel(l)

\* What is handled is displayed.
Displayed ==
  /\ UNCHANGED timely /\ DOMAIN shown' = Threads
  /\ \A t \in Threads :
       /\ shown[t] \subseteq shown'[t]
       /\ hand[t] # NoMessage /\ hand'[t] # hand[t] /\ hand[t].label \notin 1 .. 3
            => hand[t].label \in shown'[t]

LEMMA ProgramDisplays ==
  ASSUME ProgramOK, MboxHands, DOMAIN shown = Threads, [ProgramNext]_<<vars, programVars>>
  PROVE  Displayed
<1>1. ASSUME UNCHANGED <<shown, timely, hand>> PROVE Displayed
  BY <1>1 DEF Displayed
<1>2. ASSUME NEW t \in Running, Call(t) \/ Spawn(t) \/ Proceed(t) PROVE Displayed
  BY <1>1, <1>2 DEF Call, Spawn, Proceed, programVars
<1>3. ASSUME NEW t \in Running, Receive(t) PROVE Displayed
  <2>1. UNCHANGED <<shown, timely>> /\ hand[t] = NoMessage /\ \A u \in Threads \ {t} : hand'[u] = hand[u]
    BY <1>3 DEF Receive, At, MboxHands
  <2> QED BY <2>1 DEF Displayed
<1>4. ASSUME NEW t \in Running, Handle(t) PROVE Displayed
  <2>1. /\ t \in Threads /\ UNCHANGED timely
        /\ shown' = [shown EXCEPT ![t] = @ \cup {l \in {hand[t].label} : Displays(hand[t])}]
        /\ \A u \in Threads \ {t} : hand'[u] = hand[u]
    BY <1>4, RunningNames DEF Handle, MboxHands
  <2>2. hand[t].label \notin 1 .. 3 => Displays(hand[t])
    BY DEF Displays
  <2> QED BY <2>1, <2>2 DEF Displayed
<1>5. CASE ~\E t \in Running : Step(t)
  BY <1>1, <1>5 DEF ProgramNext, TimerExpires, SignalArrives, SignalStep, programVars
<1> QED BY <1>2, <1>3, <1>4, <1>5 DEF Step

\* Every thread is in its loop when main wakes up.
LEMMA MainSleeps ==
  ASSUME Mbox, ProgramOK, MboxControl, MboxHands, timely, [ProgramNext]_<<vars, programVars>>,
         pc["main"] = 7, pc'["main"] # 7
  PROVE  pc["thread3"] >= 5
<1>1. PICK t \in Running : Step(t)
  BY DEF ProgramNext, TimerExpires, SignalArrives, SignalStep, programVars
<1>2. t = "main"
  <2>1. CASE t \in Workers
    BY <1>1, <2>1, WorkerSteps, NamesTyped
       DEF WorkerCalls, WorkerReceives, WorkerHandles, MboxControl
  <2> QED BY <2>1, MboxScripts DEF Names, Workers
<1>3. Script["main"][7][1] = "sleep"
  BY MboxScripts DEF MboxMain
<1>4. Call("main")
  <2>1. ~Spawn("main")
    BY <1>3 DEF Spawn, At
  <2>2. ~Receive("main")
    BY MainAt DEF Receive
  <2>3. ~Handle("main")
    BY NamesTyped DEF Handle, MboxHands
  <2>4. ~Proceed("main")
    BY DEF Proceed, programVars
  <2> QED BY <1>1, <1>2, <2>1, <2>2, <2>3, <2>4 DEF Step
<1>5. Settled
  BY <1>3, <1>4 DEF Call, MailCall, LibraryCall, At
<1>6. IsWorker(Script["thread3"], 4, 5, 1, 3)
  BY MboxScripts, WorkerScripts
<1>7. 5 \in DOMAIN Script["thread3"] /\ Script["thread3"][5][1] = "receive"
  BY <1>6, LenProperties DEF IsWorker
<1> QED BY <1>5, <1>7, MboxScripts DEF Settled, Names

LEMMA ReadyKept ==
  ASSUME Mbox, ProgramOK, MboxAssumed, Ready, UNCHANGED timely, MboxStep,
         [ProgramNext]_<<vars, programVars>>
  PROVE  Ready'
<1>1. pc["thread3"] \in Nat /\ pc'["thread3"] \in Nat /\ pc["thread3"] <= pc'["thread3"]
  BY PcForward DEF Workers
<1>2. pc["main"] \in Nat /\ (pc'["main"] = pc["main"] \/ pc'["main"] = pc["main"] + 1)
  BY NamesTyped DEF MboxStep, WorkerCalls, WorkerReceives, WorkerHandles, MainSpawns, MainCalls,
     MainProceeds, MboxAssumed, MboxControl
<1>3. CASE pc["main"] >= 8
  BY <1>1, <1>3 DEF Ready
<1>4. CASE pc["main"] = 7 /\ pc'["main"] # 7
  BY <1>1, <1>4, MainSleeps DEF Ready, MboxAssumed
<1> QED BY <1>1, <1>2, <1>3, <1>4 DEF Ready

\* thread3 never unregisters labels 4 and 5.
LEMMA ListensKept ==
  ASSUME Mbox, MboxAssumed, Listens, MboxStep
  PROVE  Listens'
<1> USE DEF MboxAssumed
<1>0. pc["thread3"] \in Nat /\ "thread3" \in Workers /\ IsWorker(Script["thread3"], 4, 5, 1, 3)
  BY PcForward, MboxScripts, WorkerScripts DEF Workers
<1> SUFFICES ASSUME NEW l \in {4, 5}, pc'["thread3"] >= l - 1
             PROVE  \E s \in Mail!Slots : receivers'[l][s] = "thread3"
  BY DEF Listens
<1>1. receivers \in [Labels -> [Mail!Slots -> Mailboxes \cup {NoMailbox}]] /\ l \in Labels
  BY LabelsTyped DEF Mail!TypeOK
<1>2. ASSUME pc'["thread3"] = pc["thread3"],
             \A s \in Mail!Slots : receivers[l][s] = "thread3" => receivers'[l][s] = "thread3"
      PROVE  \E s \in Mail!Slots : receivers'[l][s] = "thread3"
  BY <1>2 DEF Listens
<1>3. ASSUME pc["thread3"] >= l - 1,
             \A s \in Mail!Slots : receivers[l][s] = "thread3" => receivers'[l][s] = "thread3"
      PROVE  \E s \in Mail!Slots : receivers'[l][s] = "thread3"
  BY <1>3 DEF Listens
<1>4. ASSUME NEW w \in Workers, WorkerCalls(w)
      PROVE  \E s \in Mail!Slots : receivers'[l][s] = "thread3"
  <2>1. pc'["thread3"] = IF w = "thread3" THEN pc["thread3"] + 1 ELSE pc["thread3"]
    BY <1>0, <1>4, NamesTyped DEF WorkerCalls, MboxControl
  <2>2. CASE Mail!Construct(w) \/ Mail!Destruct(w)
    <3>1. UNCHANGED receivers /\ (w = "thread3" => pc["thread3"] \in {1, 9})
      BY <1>4, <2>2 DEF WorkerCalls, Mail!Construct, Mail!Destruct, Mail!RegisterForLabel,
         Mail!UnregisterForLabel
    <3> QED BY <1>0, <1>2, <1>3, <2>1, <3>1
  <2>3. ASSUME NEW k \in Labels, pc[w] \in 2 .. 4, Script[w][pc[w]] = <<"register", k>>,
               Mail!RegisterForLabel(w, k)
        PROVE  \E s \in Mail!Slots : receivers'[l][s] = "thread3"
    <3>1. PICK n \in Mail!Slots : receivers[k][n] = NoMailbox /\ receivers' = [receivers EXCEPT ![k][n] = w]
      BY <2>3 DEF Mail!RegisterForLabel
    <3>2. NoMailbox # "thread3"
      BY <1>0, NamesTyped, MailAssumption DEF Mail!MailboxAssumption
    <3>3. \A s \in Mail!Slots : receivers[l][s] = "thread3" => receivers'[l][s] = "thread3"
      BY <1>1, <3>1, <3>2
    <3>4. CASE w = "thread3" /\ k = l
      BY <1>1, <3>1, <3>4
    <3>5. CASE w = "thread3" /\ k # l
      <4>1. /\ Script["thread3"][2] = <<"register", 4>> /\ Script["thread3"][3] = <<"register", 5>>
            /\ Script["thread3"][pc["thread3"]] = <<"register", k>>
        BY <1>0, <2>3, <3>5 DEF IsWorker
      <4>2. (pc["thread3"] = 2 => k = 4) /\ (pc["thread3"] = 3 => k = 5)
        BY <4>1
      <4>3. pc["thread3"] # l - 2
        BY <3>5, <4>2
      <4> QED BY <1>0, <1>3, <2>1, <3>3, <3>5, <4>3
    <3> QED BY <1>2, <2>1, <3>3, <3>4, <3>5
  <2>4. ASSUME NEW k \in Labels, pc[w] \in 6 .. 8, Script[w][pc[w]] = <<"unregister", k>>,
               Mail!UnregisterForLabel(w, k)
        PROVE  \E s \in Mail!Slots : receivers'[l][s] = "thread3"
    <3>1. w # "thread3" \/ k # l
      BY <1>0, <2>4 DEF IsWorker
    <3>2. \A s \in Mail!Slots : receivers[l][s] = "thread3" => receivers'[l][s] = "thread3"
      BY <1>1, <2>4, <3>1 DEF Mail!UnregisterForLabel
    <3> QED BY <1>0, <1>2, <1>3, <2>1, <2>4, <3>2
  <2> QED BY <1>4, <2>2, <2>3, <2>4 DEF WorkerCalls
<1>5. ASSUME NEW w \in Workers, WorkerReceives(w) PROVE UNCHANGED <<pc, receivers>>
  BY <1>5 DEF WorkerReceives, Mail!Receive
<1>6. ASSUME NEW w \in Workers, WorkerHandles(w)
      PROVE  \E s \in Mail!Slots : receivers'[l][s] = "thread3"
  <2>1. UNCHANGED receivers /\ pc[w] = 5 /\ \A u \in Workers : u # w => pc'[u] = pc[u]
    BY <1>6, NamesTyped DEF WorkerHandles, Release, Mail!Release, mailVars, MboxHands, MboxControl
  <2> QED BY <1>0, <1>2, <1>3, <2>1
<1>7. ASSUME NEW w \in Workers, MainSpawns(w)
      PROVE  \E s \in Mail!Slots : receivers'[l][s] = "thread3"
  <2>1. UNCHANGED receivers /\ pc'[w] = 1 /\ \A u \in Workers : u # w => pc'[u] = pc[u]
    BY <1>7, NamesTyped DEF MainSpawns, mailVars, MboxControl
  <2> QED BY <1>0, <1>2, <2>1
<1>8. CASE MainCalls
  <2>1. UNCHANGED receivers /\ pc'["thread3"] = pc["thread3"]
    BY <1>0, <1>8, NamesTyped, MainSendsOnly DEF MainCalls, Mail!Initialize, Mail!Construct,
       Mail!Destruct, mailVars, MboxControl
  <2> QED BY <1>2, <2>1
<1>9. CASE MainProceeds
  BY <1>2, <1>9, MainProceedsOnly
<1>10. CASE UNCHANGED <<mailVars, pc, hand>>
  BY <1>2, <1>10 DEF mailVars
<1> QED BY <1>2, <1>4, <1>5, <1>6, <1>7, <1>8, <1>9, <1>10 DEF MboxStep

\* Once label l has come to thread3 it is queued, in hand or displayed.
LEMMA HasLabelKept ==
  ASSUME MboxAssumed, MailFacts, MboxMessages, MboxStep, Displayed, NEW l \in {4, 5}, HasLabel(l)
  PROVE  HasLabel(l)'
<1> USE DEF MboxAssumed
<1>0. "thread3" \in Workers /\ "thread3" \in Threads /\ "thread3" \in Mailboxes
  BY NamesTyped DEF Workers
<1>1. CASE l \in shown["thread3"]
  BY <1>0, <1>1 DEF HasLabel, Displayed
<1>2. CASE hand["thread3"].label = l
  <2>1. hand["thread3"] # NoMessage
    BY <1>2 DEF NoMessage
  <2> QED BY <1>0, <1>2, <2>1 DEF HasLabel, Displayed
<1>3. ASSUME NEW i \in DOMAIN queue["thread3"], queue["thread3"][i].label = l
      PROVE  HasLabel(l)'
  <2>1. ASSUME queue'["thread3"] = queue["thread3"] PROVE HasLabel(l)'
    BY <1>3, <2>1 DEF HasLabel
  <2>2. ASSUME NEW w \in Workers, WorkerCalls(w) PROVE HasLabel(l)'
    <3>1. CASE w = "thread3" /\ pc[w] = 9
      <4>1. last["thread3"] = 6 /\ queue["thread3"][i].id >= 6
        BY <1>0, <1>3, <3>1, QueueTyped DEF MboxHands, MailFacts
      <4>2. queue["thread3"][i].id = l
        BY <1>0, <1>3 DEF MboxMessages, OfMain, Numbered
      <4> QED BY <4>1, <4>2
    <3>2. CASE w # "thread3" \/ pc[w] # 9
      <4>1. queue'["thread3"] = queue["thread3"]
        BY <1>0, <2>2, <3>2, NamesTyped DEF WorkerCalls, Mail!Construct, Mail!RegisterForLabel,
           Mail!UnregisterForLabel, Mail!Destruct, Mail!TypeOK
      <4> QED BY <2>1, <4>1
    <3> QED BY <3>1, <3>2
  <2>3. ASSUME NEW w \in Workers, WorkerReceives(w) PROVE HasLabel(l)'
    <3>1. Mail!Receive(w) /\ hand' = [hand EXCEPT ![w] = Head(queue[w])]
      BY <2>3 DEF WorkerReceives
    <3>2. CASE w = "thread3"
      <4>1. CASE i = 1
        BY <1>0, <1>3, <3>1, <3>2, <4>1, TailOfQueue DEF HasLabel, MboxHands
      <4>2. CASE i # 1
        <5>1. i - 1 \in DOMAIN queue'["thread3"] /\ queue'["thread3"][i - 1] = queue["thread3"][i]
          BY <1>0, <1>3, <3>1, <3>2, <4>2, TailOfQueue, QueueTyped
        <5> QED BY <1>3, <5>1 DEF HasLabel
      <4> QED BY <4>1, <4>2
    <3>3. CASE w # "thread3"
      BY <1>0, <2>1, <3>1, <3>3, NamesTyped, TailOfQueue
    <3> QED BY <3>2, <3>3
  <2>4. ASSUME NEW w \in Workers, WorkerHandles(w) \/ MainSpawns(w) PROVE HasLabel(l)'
    BY <2>1, <2>4 DEF WorkerHandles, MainSpawns, Release, Mail!Release, mailVars
  <2>5. CASE MainCalls
    <3>1. queue'["thread3"] = queue["thread3"]
      BY <1>0, <2>5, NamesTyped, MainSendsOnly DEF MainCalls, Mail!Initialize, Mail!Construct,
         Mail!Destruct, Mail!TypeOK, mailVars
    <3> QED BY <2>1, <3>1
  <2>6. CASE MainProceeds
    <3>1. CASE Emplaced("thread3")
      <4>1. i \in DOMAIN queue'["thread3"] /\ queue'["thread3"][i] = queue["thread3"][i]
        BY <1>0, <1>3, <3>1, AppendTo, QueueTyped DEF Emplaced
      <4> QED BY <1>3, <4>1 DEF HasLabel
    <3> QED BY <1>0, <2>1, <2>6, <3>1, LoopQueues
  <2>7. CASE UNCHANGED <<mailVars, pc, hand>>
    BY <2>1, <2>7 DEF mailVars
  <2> QED BY <2>2, <2>3, <2>4, <2>5, <2>6, <2>7 DEF MboxStep
<1> QED BY <1>1, <1>2, <1>3 DEF HasLabel

\* main's loop passes thread3 only with the message in its queue.
LEMMA PassedWithLabel ==
  ASSUME QueueSize >= 5, MboxAssumed, MailFacts, MboxMessages, MboxRoom, Ready, Listens, timely,
         MboxStep, NEW l \in {4, 5}, Passed(l)', ~Passed(l)
  PROVE  HasLabel(l)'
<1> USE DEF MboxAssumed
<1>0. "thread3" \in Workers /\ "thread3" \in Mailboxes /\ sent \in Nat /\ QueueSize \in Nat
  BY NamesTyped, QueueTyped, MailAssumption DEF Workers, Mail!MailboxAssumption
<1>1. ~UNCHANGED <<sent, call, receivers>>
  BY DEF Passed, Awaits
<1>2. ASSUME UNCHANGED sent PROVE call["main"] # Mail!NoCall
  BY <1>2 DEF Passed, Awaits
<1>3. ASSUME NEW w \in Workers, WorkerCalls(w) PROVE FALSE
  <2>1. UNCHANGED <<sent, call>>
    BY <1>3 DEF WorkerCalls, Mail!Construct, Mail!RegisterForLabel, Mail!UnregisterForLabel,
       Mail!Destruct
  <2>2. UNCHANGED receivers \/ mutex = NoThread
    BY <1>3 DEF WorkerCalls, Mail!Construct, Mail!RegisterForLabel, Mail!UnregisterForLabel,
       Mail!Destruct
  <2> QED BY <1>1, <1>2, <2>1, <2>2, MainUnlocked
<1>4. ASSUME NEW w \in Workers, WorkerReceives(w) \/ WorkerHandles(w) \/ MainSpawns(w) PROVE FALSE
  BY <1>1, <1>4 DEF WorkerReceives, Mail!Receive, WorkerHandles, MainSpawns, Release,
     Mail!Release, mailVars
<1>5. CASE MainCalls
  <2>1. CASE MainSends
    <3>1. /\ sent' = sent + 1 /\ UNCHANGED receivers /\ call["main"] = Mail!NoCall
          /\ call'["main"].slot = 1 /\ call'["main"] # Mail!NoCall
      BY <1>5, <2>1, MainSendsOnly DEF MainCalls
    <3>2. sent' = l
      BY <1>0, <3>1 DEF Passed, Awaits
    <3>3. pc["main"] = l + 7
      BY <3>1, <3>2 DEF MboxControl, SentAt
    <3>4. call'["main"].label = l
      BY <2>1, <3>3, NamesTyped DEF MainSends, Mail!StartCall, Mail!TypeOK
    <3>5. pc["thread3"] >= 5 /\ pc["thread3"] \in Nat
      BY <1>0, <3>3 DEF Ready, MboxControl
    <3>6. PICK s \in Mail!Slots : receivers[l][s] = "thread3"
      BY <3>5 DEF Listens
    <3>7. Awaits("thread3")'
      BY <3>1, <3>4, <3>6 DEF Awaits, Mail!Slots
    <3> QED BY <3>2, <3>7 DEF Passed
  <2>2. CASE ~MainSends
    BY <1>1, <1>5, <2>2 DEF MainCalls, Mail!Initialize, Mail!Construct, Mail!Destruct, mailVars
  <2> QED BY <2>1, <2>2
<1>6. CASE MainProceeds
  <2>1. UNCHANGED <<sent, receivers>> /\ call["main"] # Mail!NoCall
    BY <1>6, MainProceedsOnly
  <2>2. sent = l /\ Awaits("thread3") /\ ~Awaits("thread3")'
    BY <1>0, <2>1 DEF Passed
  <2>3. call["main"].op = "signal" /\ call["main"].label = l
    BY <1>6, <2>1, <2>2, LoopStep DEF MboxMessages, Numbered
  <2>4. PICK s \in Mail!Slots : s >= call["main"].slot /\ receivers[l][s] = "thread3"
    BY <2>2, <2>3 DEF Awaits
  <2>5. ~Mail!Return("main")
    BY <2>4, MailAssumption DEF Mail!Return, Mail!Slots, Mail!MailboxAssumption
  <2>6. ~Mail!Allocate("main")
    BY <2>3 DEF Mail!Allocate
  <2>7. call'["main"] # Mail!NoCall /\ call'["main"].label = l /\ call'["main"].slot = call["main"].slot + 1
    <3>1. call["main"] \in Mail!SendCall /\ "main" \in Threads \cup {SignalThread}
      BY <1>6, LoopStep, NamesTyped
    <3> QED BY <1>6, <2>3, <2>5, <2>6, <3>1 DEF MainProceeds, Mail!Proceed, Mail!Skip, Mail!Emplace,
            Mail!EmplaceFull, Mail!Advance, Mail!TypeOK, Mail!SendCall, Mail!NoCall
  <2>8. s = call["main"].slot
    <3>1. s \in Nat /\ call["main"].slot \in Nat /\ s \in Mail!Slots
      BY <1>6, LoopStep DEF Mail!Slots
    <3>2. ~(s >= call["main"].slot + 1)
      BY <2>1, <2>2, <2>4, <2>7 DEF Awaits
    <3> QED BY <2>4, <3>1, <3>2
  <2>9. Mail!Receiver("main") = "thread3" /\ "thread3" # NoMailbox
    BY <1>0, <2>3, <2>4, <2>8, MailAssumption DEF Mail!Receiver, Mail!MailboxAssumption
  <2>10. ~Mail!EmplaceFull("main")
    <3>1. Len(queue["thread3"]) < sent /\ Len(queue["thread3"]) \in Nat
      BY <1>0, <2>2, QueueTyped DEF MboxRoom, Room
    <3>2. Mail!EmplaceFull("main") => Len(queue["thread3"]) >= QueueSize
      BY <2>9 DEF Mail!EmplaceFull
    <3> QED BY <1>0, <2>2, <3>1, <3>2
  <2>11. Mail!Emplace("main")
    BY <1>6, <2>5, <2>6, <2>9, <2>10 DEF MainProceeds, Mail!Proceed, Mail!Skip
  <2>12. queue'["thread3"] = Append(queue["thread3"], Mail!MessageOf("main"))
    BY <1>0, <2>9, <2>11 DEF Mail!Emplace, Mail!TypeOK
  <2>13. Mail!MessageOf("main").label = l
    BY <2>3 DEF Mail!MessageOf
  <2>14. /\ Len(queue["thread3"]) + 1 \in DOMAIN queue'["thread3"]
         /\ queue'["thread3"][Len(queue["thread3"]) + 1].label = l
    BY <1>0, <2>12, <2>13, AppendTo, QueueTyped
  <2> QED BY <2>14 DEF HasLabel
<1>7. CASE UNCHANGED <<mailVars, pc, hand>>
  BY <1>1, <1>7 DEF mailVars
<1> QED BY <1>3, <1>4, <1>5, <1>6, <1>7 DEF MboxStep

LEMMA MboxEnds ==
  ASSUME Mbox, Finished
  PROVE  pc["main"] = 20 /\ \A w \in Workers : pc[w] = 10
<1>1. Len(Script["main"]) = 19
  BY MboxScripts DEF MboxMain
<1>2. \A w \in Workers : Len(Script[w]) = 9
  BY MboxWorker DEF IsWorker
<1>3. \A t \in Names : pc[t] = Len(Script[t]) + 1
  BY MboxScripts DEF Finished, Ended
<1>4. "main" \in Names /\ Workers \subseteq Names
  BY DEF Names, Workers
<1>5. 9 + 1 = 10 /\ 19 + 1 = 20
  OBVIOUS
<1> QED BY <1>1, <1>2, <1>3, <1>4, <1>5, Zenon

LEMMA ShownInductive ==
  ASSUME QueueSize >= 5, LibraryInv, Mbox, MboxInv, ShownInv, [ProgramNext]_<<vars, programVars>>
  PROVE  ShownInv'
<1>1. ProgramOK /\ MboxAssumed /\ MailFacts
  BY MailInvFacts DEF LibraryInv, MboxAssumed, MboxInv
<1>2. MboxStep /\ Displayed
  BY <1>1, MboxSteps, ProgramDisplays DEF MboxInv, MboxAssumed, ShownInv
<1>3. Ready' /\ Listens' /\ DOMAIN shown' = Threads
  BY <1>1, <1>2, ReadyKept, ListensKept DEF ShownInv, Displayed
<1>4. ASSUME NEW w \in Workers, pc'[w] >= 6 PROVE 999 \in shown'[w]
  <2>1. w \in Threads /\ shown[w] \subseteq shown'[w]
    BY <1>2, NamesTyped DEF Displayed
  <2>2. CASE pc[w] >= 6
    BY <2>1, <2>2 DEF ShownInv
  <2>3. CASE ~(pc[w] >= 6)
    <3>1. WorkerHandles(w) /\ pc'[w] # pc[w]
      BY <1>1, <1>2, <1>4, <2>3, NamesTyped DEF MboxStep, WorkerCalls, WorkerReceives, WorkerHandles,
         MainSpawns, MainCalls, MainProceeds, MboxAssumed, MboxControl, MboxHands
    <3>2. hand[w] # NoMessage /\ hand[w].label = 999 /\ hand'[w] = NoMessage
      BY <1>1, <2>1, <3>1 DEF WorkerHandles, MboxAssumed, MboxHands
    <3> QED BY <1>2, <2>1, <3>2 DEF Displayed
  <2> QED BY <2>2, <2>3
<1>5. ASSUME NEW l \in {4, 5}, timely', Passed(l)' PROVE HasLabel(l)'
  <2>1. timely
    BY <1>2, <1>5 DEF Displayed
  <2>2. CASE Passed(l)
    BY <1>1, <1>2, <2>1, <2>2, HasLabelKept DEF ShownInv, MboxInv
  <2>3. CASE ~Passed(l)
    BY <1>1, <1>2, <1>5, <2>1, <2>3, PassedWithLabel DEF ShownInv, MboxInv
  <2> QED BY <2>2, <2>3
<1> QED BY <1>3, <1>4, <1>5 DEF ShownInv

(***************************************************************************)
(* mbox.cpp: if the threads have registered by the time main wakes up,     *)
(* each has displayed all its signals by the end.                          *)
(***************************************************************************)
THEOREM MboxAllShown ==
  ASSUME QueueSize >= 5
  PROVE  ProgramSpec => [](program = "mbox" => AllShown)
<1>1. ProgramInit => ShownInv
  BY NamesTyped DEF ProgramInit, Init, Mail!Init, ShownInv, Ready, Listens, Passed, Workers
<1>2. LibraryInv /\ (Mbox => MboxInv) /\ (Mbox => ShownInv) /\ [ProgramNext]_<<vars, programVars>>
        => (Mbox => ShownInv)'
  BY ShownInductive, ProgramConstant DEF Mbox
<1>3. ASSUME LibraryInv, Mbox, MboxInv, ShownInv PROVE AllShown
  <2> SUFFICES ASSUME Finished, timely PROVE \A t \in Running : MustShow[t] \subseteq shown[t]
    BY DEF AllShown
  <2>1. pc["main"] = 20 /\ \A w \in Workers : pc[w] = 10
    BY <1>3, MboxEnds
  <2>2. \A w \in Workers : 999 \in shown[w]
    BY <1>3, <2>1 DEF ShownInv
  <2>3. ASSUME NEW l \in {4, 5} PROVE l \in shown["thread3"]
    <3>1. HasLabel(l)
      BY <1>3, <2>1 DEF ShownInv, Passed, MboxInv, MboxControl, SentAt
    <3>2. hand["thread3"].label # l
      BY <1>3, <2>1, NamesTyped DEF MboxInv, MboxHands, NoMessage, Workers
    <3>3. ASSUME NEW i \in DOMAIN queue["thread3"], queue["thread3"][i].label = l PROVE FALSE
      BY <1>3, <2>1, <3>3, NamesTyped, MailInvFacts, QueueTyped
         DEF LibraryInv, MboxInv, MboxHands, MailFacts, MboxMessages, OfMain, Numbered, Workers
    <3> QED BY <3>1, <3>2, <3>3 DEF HasLabel
  <2> QED BY <1>3, <2>2, <2>3, MboxScripts DEF MustShow, Names, Workers, Mbox
<1> QED BY <1>1, <1>2, <1>3, LibraryInvHolds, MboxInvHolds, PTL DEF ProgramSpec, Mbox

-----------------------------------------------------------------------------
(***************************************************************************)
(* timer.cpp sends signals only, so that no block is ever taken.           *)
(***************************************************************************)
LEMMA TimerMainStarts == TimerMain \in Seq(Calls) /\ Len(TimerMain) >= 3 /\ TimerMain[3] = <<"mailboxes">>
<1> DEFINE r == <<<<"construct">>, <<"timers">>, <<"mailboxes">>,
                  <<"spawn", "thread1">>, <<"spawn", "thread2">>, <<"periodic", 1>>>>
           s == Each("oneshot", Count(5, Last))
           t == <<<<"oneshot", 2>>, <<"register", 3>>, <<"receive", 3>>, <<"cancel", 1>>,
                  <<"signal", 4>>, <<"join", "thread1">>, <<"join", "thread2">>, <<"destroy">>,
                  <<"shutdown">>>>
<1>1. r \in Seq(Calls) /\ Len(r) = 6 /\ r[3] = <<"mailboxes">>
  BY LabelsTyped DEF Calls, TimerCalls, PlainCalls, LabelCalls, ThreadCalls, Workers
<1>2. t \in Seq(Calls)
  BY LabelsTyped DEF Calls, TimerCalls, PlainCalls, LabelCalls, ThreadCalls, Workers
<1>3. s \in Seq(Calls)
  BY CountTyped, EachTyped DEF Calls
<1>4. TimerMain = (r \o s) \o t
  BY Zenon DEF TimerMain
<1> HIDE DEF r, s, t
<1>5. Joins(r \o s, r, s)
  BY <1>1, <1>3, CallsConcat, Zenon
<1> DEFINE c == r \o s
<1>6. c \in Seq(Calls) /\ Joins(c \o t, c, t)
  BY <1>2, <1>5, CallsConcat, Zenon DEF Joins
<1>7. Len(c) >= 6 /\ Len(c) \in Nat /\ c[3] = <<"mailboxes">>
  <2> HIDE DEF c
  <2>1. Joins(c, r, s)
    BY <1>5 DEF c
  <2>2. Len(s) \in Nat
    BY <1>3
  <2> QED BY <1>1, <2>1, <2>2 DEF Joins
<1> HIDE DEF c
<1> DEFINE d == c \o t
<1>8. Joins(d, c, t) /\ Len(t) \in Nat
  BY <1>2, <1>6
<1>9. TimerMain = d
  BY <1>4, Zenon DEF c
<1> HIDE DEF d
<1>10. d \in Seq(Calls) /\ Len(d) >= 3 /\ d[3] = <<"mailboxes">>
  BY <1>7, <1>8 DEF Joins
<1> QED BY <1>9, <1>10

TimerAt(t) ==
  /\ t = "main" /\ pc[t] = 3 => Script[t][pc[t]][1] = "mailboxes"
  /\ pc[t] \in DOMAIN Script[t] =>
       /\ Script[t][pc[t]][1] # "send"
       /\ Script[t][pc[t]][1] = "spawn" => Arg(t) \in Workers

LEMMA TimerScripts ==
  ASSUME program = "timer", NEW t \in Running
  PROVE  TimerAt(t)
<1>1. Script[t] \in Seq(TimerCalls) /\ (t = "main" => Script[t] = TimerMain)
  BY ScriptsTyped DEF Running, Script, Scripts
<1>2. t = "main" /\ pc[t] = 3 => Script[t][pc[t]][1] = "mailboxes"
  BY <1>1, TimerMainStarts
<1>3. ASSUME NEW c \in TimerCalls
      PROVE  c[1] # "send" /\ (c[1] = "spawn" => c[2] \in Workers)
  BY <1>3 DEF TimerCalls, PlainCalls, LabelCalls, ThreadCalls
<1>4. pc[t] \in DOMAIN Script[t] => Script[t][pc[t]] \in TimerCalls
  BY <1>1
<1> QED BY <1>2, <1>3, <1>4 DEF TimerAt, Arg

\* The steps of the mailboxes but for SendMessage.
SignalCalls ==
  \/ Mail!Initialize
  \/ \E m \in Mailboxes : \/ Mail!Construct(m) \/ Mail!Destruct(m) \/ Mail!Receive(m)
                          \/ \E l : Mail!RegisterForLabel(m, l) \/ Mail!UnregisterForLabel(m, l)
  \/ \E t \in Threads \cup {SignalThread} : Mail!Proceed(t) \/ \E l : Mail!SendSignal(t, l)
  \/ \E msg : Mail!Release(msg)
  \/ UNCHANGED mailVars

NoSends == live = {} /\ \A t \in Threads \cup {SignalThread} : call[t].op # "send"

LEMMA SignalsOnly ==
  ASSUME Mail!TypeOK, NoSends, SignalCalls
  PROVE  NoSends' /\ (initialized => initialized')
<1>1. ASSUME UNCHANGED <<live, call, initialized>> \/ Mail!Initialize
      PROVE  NoSends' /\ (initialized => initialized')
  BY <1>1 DEF NoSends, Mail!Initialize
<1>2. ASSUME NEW m \in Mailboxes,
             \/ Mail!Construct(m) \/ Mail!Destruct(m) \/ Mail!Receive(m)
             \/ \E l : Mail!RegisterForLabel(m, l) \/ Mail!UnregisterForLabel(m, l)
      PROVE  UNCHANGED <<live, call, initialized>>
  BY <1>2 DEF Mail!Construct, Mail!Destruct, Mail!Receive, Mail!RegisterForLabel,
     Mail!UnregisterForLabel, Mail!poolVars
<1>3. ASSUME NEW t \in Threads \cup {SignalThread}, Mail!Proceed(t)
      PROVE  NoSends' /\ (initialized => initialized')
  <2>1. /\ UNCHANGED <<live, initialized>>
        /\ \/ call' = [call EXCEPT ![t] = Mail!NoCall]
           \/ call' = [call EXCEPT ![t].slot = @ + 1]
           \/ Mail!Advance(t, TRUE) \/ Mail!Advance(t, FALSE)
    BY <1>3 DEF NoSends, Mail!Proceed, Mail!Skip, Mail!Allocate, Mail!Emplace, Mail!EmplaceFull,
       Mail!Return, Mail!poolVars
  <2>2. call[t] \in Mail!SendCall
    <3>1. call[t].op \in {"send", "signal"}
      BY <1>3 DEF Mail!Proceed, Mail!Skip, Mail!Allocate, Mail!Emplace, Mail!EmplaceFull,
         Mail!Return, Mail!AtEmplace, Mail!InLoop
    <3> QED BY <3>1 DEF Mail!TypeOK, Mail!NoCall, Mail!StuckCall
  <2> QED BY <2>1, <2>2 DEF NoSends, Mail!TypeOK, Mail!Advance, Mail!SendCall, Mail!NoCall
<1>4. ASSUME NEW t \in Threads \cup {SignalThread}, NEW l, Mail!SendSignal(t, l)
      PROVE  NoSends' /\ (initialized => initialized')
  BY <1>4 DEF NoSends, Mail!TypeOK, Mail!SendSignal, Mail!StartCall, Mail!poolVars
<1>5. ASSUME NEW msg, Mail!Release(msg)
      PROVE  NoSends' /\ (initialized => initialized')
  BY <1>5 DEF NoSends, Mail!Release, Mail!GiveBack
<1> QED BY <1>1, <1>2, <1>3, <1>4, <1>5 DEF SignalCalls, mailVars

LEMMA TimerSteps ==
  ASSUME program = "timer", ProgramOK, [ProgramNext]_<<vars, programVars>>
  PROVE  SignalCalls
<1>1. ASSUME NEW t \in Running, Call(t) PROVE SignalCalls
  <2>0. t \in Threads /\ t \in Mailboxes
    BY RunningNames
  <2>1. CASE MailCall(t)
    <3>1. ~At(t, "send")
      BY TimerScripts DEF TimerAt, At
    <3> QED BY <2>0, <2>1, <3>1 DEF MailCall, SignalCalls
  <2>2. CASE LibraryCall(t)
    BY <2>2 DEF LibraryCall, InitializeTimers, InitializeMailboxes, StartTimer, CancelTimer,
       Shutdown, SignalCalls
  <2>3. CASE UNCHANGED vars
    BY <2>3 DEF vars, SignalCalls
  <2> QED BY <1>1, <2>1, <2>2, <2>3 DEF Call
<1>2. ASSUME NEW t \in Running, Spawn(t) \/ Receive(t) \/ Handle(t) \/ Proceed(t) PROVE SignalCalls
  <2>0. t \in Threads /\ t \in Mailboxes
    BY RunningNames
  <2> QED BY <1>2, <2>0 DEF Spawn, Receive, Handle, Release, Proceed, ProgramProceed, vars, SignalCalls
<1>3. ASSUME \/ \E k \in Timing!Addresses : TimerExpires(k)
             \/ \E a \in Timing!Addresses : SignalArrives(a)
      PROVE  SignalCalls
  BY <1>3 DEF TimerExpires, SignalArrives, Expire, Dequeue, SignalCalls
<1>4. CASE SignalStep
  BY <1>4 DEF SignalStep, LockEvent, EventSignal, EventProceed, EventEnds, Exit, SignalCalls
<1>5. CASE UNCHANGED <<vars, programVars>>
  BY <1>5 DEF vars, SignalCalls
<1> QED BY <1>1, <1>2, <1>3, <1>4, <1>5 DEF ProgramNext, Step

(***************************************************************************)
(* main is past its third call only when the mailboxes are initialized.    *)
(***************************************************************************)
TimerControl ==
  /\ pc \in [Threads -> Nat] /\ DOMAIN hand = Threads
  /\ pc["main"] >= 4 => initialized
  /\ hand["main"] # NoMessage => pc["main"] # 3

LEMMA TimerControlKept ==
  ASSUME program = "timer", ProgramOK, TimerControl, initialized => initialized',
         [ProgramNext]_<<vars, programVars>>
  PROVE  TimerControl'
<1>1. ASSUME UNCHANGED <<pc, hand>> PROVE TimerControl'
  BY <1>1 DEF TimerControl
<1>2. ASSUME NEW t \in Running, Step(t) PROVE TimerControl'
  <2>0. t \in Threads /\ "main" \in Threads /\ "main" \notin Workers /\ Workers \subseteq Threads
        /\ TimerAt(t)
    BY RunningNames, NamesTyped, TimerScripts
  <2>1. CASE Call(t)
    <3>1. pc' = [pc EXCEPT ![t] = @ + 1] /\ UNCHANGED hand
      BY <2>1 DEF Call
    <3>2. CASE t = "main"
      <4>1. hand["main"] = NoMessage
        BY <2>1, <3>2 DEF Call, MailCall, LibraryCall, At
      <4>2. pc["main"] = 3 => initialized'
        BY <2>0, <2>1, <3>2 DEF Call, MailCall, LibraryCall, At, TimerAt, InitializeMailboxes,
           Mail!Initialize
      <4> QED BY <2>0, <3>1, <3>2, <4>1, <4>2 DEF TimerControl
    <3>3. CASE t # "main"
      BY <2>0, <3>1, <3>3 DEF TimerControl
    <3> QED BY <3>2, <3>3
  <2>2. CASE Spawn(t)
    <3>1. /\ pc' = [pc EXCEPT ![t] = @ + 1, ![Arg(t)] = 1] /\ UNCHANGED hand
          /\ Arg(t) \in Workers /\ hand[t] = NoMessage
          /\ ~(t = "main" /\ pc[t] = 3)
      BY <2>0, <2>2 DEF Spawn, At, TimerAt
    <3> QED BY <2>0, <3>1 DEF TimerControl
  <2>3. CASE Receive(t)
    <3>1. UNCHANGED pc /\ hand' = [hand EXCEPT ![t] = Head(queue[t])] /\ ~(t = "main" /\ pc[t] = 3)
      BY <2>0, <2>3 DEF Receive, At, TimerAt
    <3> QED BY <2>0, <3>1 DEF TimerControl
  <2>4. CASE Handle(t)
    <3>1. /\ pc' = [pc EXCEPT ![t] = @ + 1] \/ UNCHANGED pc
          /\ hand' = [hand EXCEPT ![t] = NoMessage] /\ hand[t] # NoMessage
      BY <2>4 DEF Handle
    <3> QED BY <2>0, <3>1 DEF TimerControl
  <2>5. CASE Proceed(t)
    BY <1>1, <2>5 DEF Proceed, programVars
  <2> QED BY <1>2, <2>1, <2>2, <2>3, <2>4, <2>5 DEF Step
<1>3. CASE ~\E t \in Running : Step(t)
  BY <1>1, <1>3 DEF ProgramNext, TimerExpires, SignalArrives, SignalStep, programVars
<1> QED BY <1>2, <1>3

TimerProgramInv == NoSends /\ TimerControl

LEMMA TimerProgramHolds == ProgramSpec => [](program = "timer" => TimerProgramInv)
<1>1. ProgramInit => TimerProgramInv
  BY NamesTyped DEF ProgramInit, Init, Mail!Init, Mail!NoCall, TimerProgramInv, NoSends, TimerControl
<1>2. LibraryInv /\ (program = "timer" => TimerProgramInv) /\ [ProgramNext]_<<vars, programVars>>
        => (program = "timer" => TimerProgramInv)'
  <2> SUFFICES ASSUME LibraryInv, program = "timer", TimerProgramInv,
                      [ProgramNext]_<<vars, programVars>>
               PROVE  TimerProgramInv'
    BY ProgramConstant
  <2>1. Mail!TypeOK /\ ProgramOK
    BY MailInvFacts DEF LibraryInv
  <2>2. NoSends' /\ (initialized => initialized')
    BY <2>1, TimerSteps, SignalsOnly DEF TimerProgramInv
  <2> QED BY <2>1, <2>2, TimerControlKept DEF TimerProgramInv
<1> QED BY <1>1, <1>2, LibraryInvHolds, PTL DEF ProgramSpec

-----------------------------------------------------------------------------
LEMMA PoolsHold == ASSUME MailP!SizesKept PROVE ProgramSpec => []MailP!PoolInv
<1>1. ProgramInit => MailP!PoolInv
  <2>1. ProgramInit => MailP!Init
    BY DEF ProgramInit, Init, Mail!Init, Mail!Pools, Mail!Slots, Mail!NoCall,
           MailP!Init, MailP!Pools, MailP!Slots, MailP!NoCall
  <2> QED BY <2>1, MailAssumed, MailP!InitPools
<1>2. LibraryInv /\ MailP!PoolInv /\ [ProgramNext]_<<vars, programVars>> => MailP!PoolInv'
  BY ProgramMailStep, SameCareless, MailAssumed, MailP!PoolInvInductive DEF LibraryInv, MailInv
<1> QED BY <1>1, <1>2, LibraryInvHolds, PTL DEF ProgramSpec

LEMMA NothingLive ==
  ASSUME LibraryInv, MailP!PoolInv, initialized, live = {}
  PROVE  available = PoolCap
<1>1. available \in [MailP!Pools -> Nat] /\ PoolCap \in [MailP!Pools -> Nat]
  BY MailAssumption DEF LibraryInv, MailInv, MailP!TypeOK, Mail!MailboxAssumption, Mail!Pools, MailP!Pools
<1>2. ASSUME NEW p \in MailP!Pools PROVE available[p] = PoolCap[p]
  <2>1. available[p] + MailP!Cardinality(live \cap PoolBlocks[p]) = PoolCap[p]
    BY DEF MailP!PoolInv, MailP!PoolExact
  <2>2. live \cap PoolBlocks[p] = {}
    OBVIOUS
  <2>3. MailP!Cardinality({}) = 0
    BY MailAssumed, MailP!FS_EmptySet
  <2> QED BY <1>1, <2>1, <2>2, <2>3
<1> QED BY <1>1, <1>2

LEMMA MboxReturned ==
  ASSUME LibraryInv, Mbox, MboxInv, MboxKept, Finished
  PROVE  initialized /\ live = {}
<1>1. pc["main"] = 20 /\ \A w \in Workers : pc[w] = 10
  BY MboxEnds
<1>2. initialized /\ \A t \in Threads \cup {SignalThread} : call[t] = Mail!NoCall
  BY <1>1 DEF MboxInv, MboxControl
<1>3. held = {} /\ lost = {}
  BY <1>1 DEF MboxInv, MboxHands, MboxKept
<1>4. ASSUME NEW m \in Mailboxes, NEW i \in DOMAIN queue[m] PROVE queue[m][i].data = NoBlock
  <2>1. CASE m \in Workers
    BY <1>1, <1>4, <2>1, MailInvFacts, QueueTyped DEF LibraryInv, MailFacts, MboxInv, MboxHands,
       MboxMessages, OfMain
  <2>2. CASE m \notin Workers
    BY <1>4, <2>2 DEF MboxKept
  <2> QED BY <2>1, <2>2
<1>5. MailP!BlocksAccounted
  BY MailAssumed, MailP!BlocksPlaced DEF LibraryInv, MailInv
<1>6. MailP!InHand = {} /\ MailP!InQueues = {} /\ MailP!InUse = {}
  BY <1>2, <1>3, <1>4 DEF MailP!InHand, MailP!Sending, MailP!InQueues, MailP!Queued, MailP!InUse,
     Mail!NoCall
<1> QED BY <1>2, <1>3, <1>5, <1>6 DEF MailP!BlocksAccounted

LEMMA TimerReturned ==
  ASSUME LibraryInv, program = "timer", TimerProgramInv, Finished
  PROVE  initialized /\ live = {}
<1>1. Script["main"] = TimerMain /\ "main" \in Running
  BY DEF Script, Scripts, Running
<1>2. pc["main"] = Len(TimerMain) + 1 /\ Len(TimerMain) >= 3 /\ Len(TimerMain) \in Nat
  BY <1>1, TimerMainStarts, LenProperties DEF Finished, Ended
<1> QED BY <1>2 DEF TimerProgramInv, NoSends, TimerControl

(***************************************************************************)
(* The examples return every block, for all sizes and capacities of the    *)
(* pools, whenever their threads come: the queues hold main's three        *)
(* messages, and a thread leaves its loop with the last of the sends.      *)
(***************************************************************************)
THEOREM ExamplesBlocksReturned ==
  ASSUME QueueSize >= 3, MailP!SizesKept
  PROVE  ProgramSpec => []BlocksReturned
<1>1. LibraryInv /\ MailP!PoolInv /\ (Mbox => MboxInv /\ MboxKept) /\ (program = "timer" => TimerProgramInv)
        => BlocksReturned
  BY MboxReturned, TimerReturned, NothingLive DEF BlocksReturned, LibraryInv, ProgramOK, Mbox
<1> QED BY <1>1, LibraryInvHolds, PoolsHold, MboxInvHolds, MboxKeptHolds, TimerProgramHolds, PTL
=============================================================================
