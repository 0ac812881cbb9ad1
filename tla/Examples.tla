------------------------------ MODULE Examples ------------------------------
(***************************************************************************)
(* The two example programs, example/mbox.cpp and example/timer.cpp, as    *)
(* clients of the whole library.  A program is a script for each thread:   *)
(* the sequence of its calls.  A thread has one mailbox, on its stack, so  *)
(* that threads and mailboxes have the same names.  Labels are the         *)
(* program's numbers.                                                      *)
(***************************************************************************)
EXTENDS Msglib

CONSTANTS
  Settings,    \* pairs of a program and whether it is timely, see below
  Last,        \* the last of the labels 5 .. 45 that timer.cpp starts timers for
  MaxTicks     \* bound: expirations of the periodic timer

ASSUME ExamplesAssumption ==
  /\ Settings \subseteq {"mbox", "timer"} \X BOOLEAN
  /\ Last \in Nat /\ MaxTicks \in Nat
  /\ {"main", "thread1", "thread2", "thread3"} \subseteq Threads \cap Mailboxes
  /\ 1 .. 5 \cup 5 .. Last \cup {999} \subseteq Labels
  /\ 1 .. 3 \subseteq Sizes /\ "later" \in Times

VARIABLES
  program,     \* "mbox" or "timer"
  pc,          \* [Threads -> Nat]: the call a thread is at, 0 before it is spawned
  hand,        \* the message that was received and not yet handled
  shown,       \* history: the labels that each thread has displayed
  ticks,       \* history: expirations of periodic timers
  timely       \* whether the threads are ready when main's sleep or a timer ends

programVars == <<program, pc, hand, shown, ticks, timely>>

NoMessage == [label |-> 0]

-----------------------------------------------------------------------------
\* The same call for each of some labels.
Each(op, labels) == [i \in DOMAIN labels |-> <<op, labels[i]>>]

Count(from, to) == [i \in 1 .. to - from + 1 |-> from + i - 1]

\* sizeof the message types of mbox.cpp, in order of size: Message2 is small.
SizeOf == [Message1 |-> 3, Message2 |-> 1, Message3 |-> 2]

\* The three threads of mbox.cpp: their loops end with the label Exit.
Worker(labels, undone) ==
  <<<<"construct">>>> \o Each("register", labels) \o <<<<"receive", 999>>>>
    \o Each("unregister", undone) \o <<<<"destroy">>>>

MboxThread1 == Worker(<<1, 2, 999>>, <<1, 2, 999>>)
MboxThread2 == Worker(<<1, 3, 999>>, <<1, 3, 999>>)
MboxThread3 == Worker(<<4, 5, 999>>, <<1, 3, 999>>)

MboxMain ==
  <<<<"construct">>, <<"timers">>, <<"mailboxes">>,
    <<"spawn", "thread1">>, <<"spawn", "thread2">>, <<"spawn", "thread3">>, <<"sleep">>,
    <<"send", 3, SizeOf.Message3>>, <<"send", 2, SizeOf.Message2>>,
    <<"send", 1, SizeOf.Message1>>, <<"signal", 4>>, <<"signal", 5>>, <<"sleep">>,
    <<"signal", 999>>,
    <<"join", "thread1">>, <<"join", "thread2">>, <<"join", "thread3">>,
    <<"destroy">>, <<"shutdown">>>>

\* timer.cpp: labels 1 (recurring), 2 (one-shot), 3 (done) and 4 (exit).
TimerThread1 ==
  <<<<"construct">>, <<"register", 1>>, <<"register", 4>>, <<"receive", 4>>,
    <<"unregister", 1>>, <<"unregister", 4>>, <<"destroy">>>>

TimerThread2 ==
  <<<<"construct">>, <<"register", 2>>>> \o Each("register", Count(5, Last))
    \o <<<<"register", 4>>, <<"receive", 4>>, <<"unregister", 2>>>>
    \o Each("register", Count(5, Last - 1)) \o <<<<"unregister", 4>>, <<"destroy">>>>

TimerMain ==
  <<<<"construct">>, <<"timers">>, <<"mailboxes">>,
    <<"spawn", "thread1">>, <<"spawn", "thread2">>, <<"periodic", 1>>>>
    \o Each("oneshot", Count(5, Last)) \o
  <<<<"oneshot", 2>>, <<"register", 3>>, <<"receive", 3>>, <<"cancel", 1>>, <<"signal", 4>>,
    <<"join", "thread1">>, <<"join", "thread2">>, <<"destroy">>, <<"shutdown">>>>

Scripts ==
  [mbox |-> [main |-> MboxMain, thread1 |-> MboxThread1, thread2 |-> MboxThread2,
             thread3 |-> MboxThread3],
   timer |-> [main |-> TimerMain, thread1 |-> TimerThread1, thread2 |-> TimerThread2]]

Script == Scripts[program]

Running == DOMAIN Script

\* Mutant: the first of the one-shot timers is answered.
AnswersFirst(t, l) == program = "timer" /\ t = "thread2" /\ l = 5

\* thread2 of timer.cpp answers the last of these one-shot timers with DONE.
Answers(t, l) == program = "timer" /\ t = "thread2" /\ l = Last

-----------------------------------------------------------------------------
Ended(t) == pc[t] = Len(Script[t]) + 1

\* Thread t is about to make this call: it is not in the middle of another.
At(t, op) ==
  /\ pc[t] \in DOMAIN Script[t]
  /\ Script[t][pc[t]][1] = op
  /\ call[t] = Mail!NoCall /\ hand[t] = NoMessage

Arg(t) == Script[t][pc[t]][2]

\* Every thread that has a loop has come to it, all its labels registered.
Settled ==
  \A t \in Running : \A i \in DOMAIN Script[t] : Script[t][i][1] = "receive" => pc[t] >= i

MailCall(t) ==
  \/ At(t, "construct") /\ Mail!Construct(t)
  \/ At(t, "destroy") /\ Mail!Destruct(t)
  \/ At(t, "register") /\ Mail!RegisterForLabel(t, Arg(t))
  \/ At(t, "unregister") /\ Mail!UnregisterForLabel(t, Arg(t))
  \/ At(t, "send") /\ Mail!SendMessage(t, Arg(t), Script[t][pc[t]][3])
  \/ At(t, "signal") /\ Mail!SendSignal(t, Arg(t))

LibraryCall(t) ==
  \/ At(t, "timers") /\ InitializeTimers
  \/ At(t, "mailboxes") /\ InitializeMailboxes
  \/ At(t, "periodic") /\ StartTimer(Arg(t), "PERIODIC", "later") /\ started' # started
  \/ At(t, "oneshot") /\ StartTimer(Arg(t), "ONE_SHOT", "later") /\ started' # started
  \/ At(t, "cancel") /\ CancelTimer(Arg(t))
  \/ At(t, "shutdown") /\ Shutdown

\* The call returns, and the next one is t's.
Call(t) ==
  /\ \/ MailCall(t) /\ UNCHANGED <<timerVars, eventVars>>
     \/ LibraryCall(t)
     \/ At(t, "join") /\ Ended(Arg(t)) /\ UNCHANGED vars
     \/ At(t, "sleep") /\ (timely => Settled) /\ UNCHANGED vars
  /\ pc' = [pc EXCEPT ![t] = @ + 1]
  /\ UNCHANGED <<program, hand, shown, ticks, timely>>

Spawn(t) ==
  /\ At(t, "spawn")
  /\ pc' = [pc EXCEPT ![t] = @ + 1, ![Arg(t)] = 1]
  /\ UNCHANGED <<vars, program, hand, shown, ticks, timely>>

\* mbox.Receive in the loop.
Receive(t) ==
  /\ At(t, "receive")
  /\ Mail!Receive(t)
  /\ hand' = [hand EXCEPT ![t] = Head(queue[t])]
  /\ UNCHANGED <<timerVars, eventVars, program, pc, shown, ticks, timely>>

\* displayMsg: what as<T>() makes of a message.
Displays(msg) ==
  \/ program = "timer" \/ msg.label \notin 1 .. 3
  \/ msg.data # NoBlock /\ msg.size = SizeOf[<<"Message1", "Message2", "Message3">>[msg.label]]

\* Mutant: ReleaseMessage by hand, and ~MessageGuard once more.
ReleaseGuarded(msg) ==
  IF msg.data = NoBlock THEN UNCHANGED mailVars
  ELSE /\ held' = held \ {msg}
       /\ available' = [available EXCEPT ![Mail!PoolFor(msg.size)] = @ + 2]
       /\ live' = live \ {msg.data}
       /\ UNCHANGED <<initialized, mutex, receivers, alive, queue, call, sent, last, wanted, lost>>

\* ReleaseMessage, or ~MessageGuard at the end of the loop's body; for a signal nothing.
Release(msg) == IF msg.data = NoBlock THEN UNCHANGED mailVars ELSE Mail!Release(msg)

\* The body of the loop, up to its break.
Handle(t) ==
  /\ hand[t] # NoMessage
  /\ shown' = [shown EXCEPT ![t] = @ \cup {l \in {hand[t].label} : Displays(hand[t])}]
  /\ IF Answers(t, hand[t].label) THEN Mail!SendSignal(t, 3) ELSE Release(hand[t])
  /\ pc' = IF hand[t].label = Arg(t) THEN [pc EXCEPT ![t] = @ + 1] ELSE pc
  /\ hand' = [hand EXCEPT ![t] = NoMessage]
  /\ UNCHANGED <<timerVars, eventVars, program, ticks, timely>>

Proceed(t) == ProgramProceed(t) /\ UNCHANGED programVars

Step(t) == Call(t) \/ Spawn(t) \/ Receive(t) \/ Handle(t) \/ Proceed(t)

-----------------------------------------------------------------------------
(***************************************************************************)
(* The one-shot timers for labels 5 .. Last have the same delay: they      *)
(* expire in the order in which they were started, and pending signals of  *)
(* one number are dequeued in the order in which they were queued.         *)
(***************************************************************************)
Chained(a) == memory[a].label \in 5 .. Last

NoEarlierOpen(a, open) == Chained(a) => \A b \in 1 .. a - 1 : Chained(b) => b \notin open

Armed == {a \in DOMAIN memory : Timing!Armed(a)}

TimerExpires(k) ==
  /\ k \in DOMAIN kernel
  /\ timely => Settled
  /\ NoEarlierOpen(kernel[k].address, Armed)
  /\ Expire(k)
  /\ memory[kernel[k].address].type = "PERIODIC" => ticks < MaxTicks
  /\ ticks' = IF memory[kernel[k].address].type = "PERIODIC" THEN ticks + 1 ELSE ticks
  /\ UNCHANGED <<program, pc, hand, shown, timely>>

SignalArrives(a) ==
  /\ a \in pending
  /\ NoEarlierOpen(a, Armed \cup pending)
  /\ Dequeue(a)
  /\ UNCHANGED programVars

SignalStep ==
  /\ LockEvent \/ EventSignal \/ EventProceed \/ EventEnds \/ Exit
  /\ UNCHANGED programVars

ProgramInit ==
  /\ Init
  /\ pc = [t \in Threads |-> IF t = "main" THEN 1 ELSE 0]
  /\ hand = [t \in Threads |-> NoMessage]
  /\ shown = [t \in Threads |-> {}]
  /\ ticks = 0
  /\ \E s \in Settings : program = s[1] /\ timely = s[2]

ProgramNext ==
  \/ \E t \in Running : Step(t)
  \/ \E k \in Timing!Addresses : TimerExpires(k)
  \/ \E a \in Timing!Addresses : SignalArrives(a)
  \/ SignalStep

(***************************************************************************)
(* The program is not stopped as a whole.  Its behaviours are finite, but  *)
(* for the periodic timer, which is bounded, so that nothing more has to   *)
(* be assumed of the scheduler.                                            *)
(***************************************************************************)
ProgramSpec ==
  ProgramInit /\ [][ProgramNext]_<<vars, programVars>> /\ WF_<<vars, programVars>>(ProgramNext)

-----------------------------------------------------------------------------
Finished == \A t \in Running : Ended(t)

(***************************************************************************)
(* If the threads have registered by the time main sends to them, or the   *)
(* first timer expires, the program ends: every thread is told to exit and *)
(* is joined, and the signal thread ends with the process.                 *)
(***************************************************************************)
Terminates == timely ~> (Finished /\ phase = "stopped")

(***************************************************************************)
(* The labels that each thread must have displayed by the end: the signals *)
(* of main, and every one-shot timer whose signal ends the program.        *)
(***************************************************************************)
MustShow ==
  IF program = "mbox"
    THEN [main |-> {}, thread1 |-> {999}, thread2 |-> {999}, thread3 |-> {4, 5, 999}]
    ELSE [main |-> {3}, thread1 |-> {4}, thread2 |-> 5 .. Last \cup {4}]

AllShown == Finished /\ timely => \A t \in Running : MustShow[t] \subseteq shown[t]

(***************************************************************************)
(* Every block is back in its pool at the end of the program, timely or    *)
(* not: the last message of each thread is the one that ends its loop.     *)
(***************************************************************************)
BlocksReturned == Finished => live = {} /\ available = PoolCap
=============================================================================
