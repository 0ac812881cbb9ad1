------------------------------- MODULE Msglib --------------------------------
(***************************************************************************)
(* The whole library (include/msglib/Msglib.h): timers whose events are    *)
(* sends.  The signal thread keeps the timers' mutex while its SendSignal  *)
(* waits for the mailboxes' mutex and goes through the receivers; only     *)
(* then does it cancel a one-shot timer and unlock.  What TimerManager.tla *)
(* does in one step, TimerEvent, takes many here, interleaved with the     *)
(* sends, receives, registrations and timer calls of the program.          *)
(***************************************************************************)
EXTENDS Naturals, Sequences, FiniteSets

CONSTANTS
  Threads,      \* the program's threads
  SignalThread, \* TimerResources::m_thread
  TimerTypes,   \* the types of timers the program starts
  Times, MaxTimers, NoTimer,                      \* of TimerManager
  Mailboxes, Labels, MaxReceivers, QueueSize,     \* of Mailbox
  Sizes, EltSize, PoolCap, PoolBlocks, SizeMod,
  MaxSends, NoThread, NoMailbox, NoBlock

ASSUME MsglibAssumption ==
  /\ SignalThread \notin Threads
  /\ TimerTypes \subseteq {"ONE_SHOT", "PERIODIC"}

VARIABLES
  phase, memory, timers, kernel, pending, handler,
  started, cancelled, fired, late,
  initialized, mutex, receivers, alive, queue, available, live, held, call,
  sent, last, wanted, lost,
  event,        \* what the signal thread does with the signal it has in hand
  offered       \* history: the mailboxes its SendSignal has come to

Timing == INSTANCE TimerManager

Mail == INSTANCE Mailbox WITH Threads <- Threads \cup {SignalThread}

\* What the two components assume of their constants holds of these.
ASSUME TimingAssumption == Timing!TimerAssumption
ASSUME MailAssumption == Mail!MailboxAssumption

timerVars == <<phase, memory, timers, kernel, pending, handler, started, cancelled, fired, late>>
mailVars == <<initialized, mutex, receivers, alive, queue, available, live, held, call,
              sent, last, wanted, lost>>
eventVars == <<event, offered>>
vars == <<timerVars, mailVars, eventVars>>

TypeOK ==
  /\ Timing!TypeOK /\ Mail!TypeOK
  /\ event \in {"none", "locked", "sending"}
  /\ offered \in SUBSET Mailboxes
  /\ event # "none" => handler # NoTimer
  /\ call[SignalThread] # Mail!NoCall => event = "sending"

Init == Timing!Init /\ Mail!Init /\ event = "none" /\ offered = {}

-----------------------------------------------------------------------------
\* TimerManagerData::m_mutex: all that its owner does outside of an event is one step.
TimerMutexFree == event = "none"

\* msglib::Initialize, first half
InitializeTimers == Timing!Initialize /\ UNCHANGED <<mailVars, eventVars>>

\* msglib::Initialize, second half
InitializeMailboxes ==
  /\ phase # "absent"
  /\ Mail!Initialize
  /\ UNCHANGED <<timerVars, eventVars>>

\* The calls of a program that waits for msglib::Initialize to return.
StartTimer(l, type, time) ==
  /\ TimerMutexFree /\ initialized
  /\ Timing!StartTimer(l, type, time)
  /\ UNCHANGED <<mailVars, eventVars>>

CancelTimer(l) ==
  /\ TimerMutexFree
  /\ Timing!CancelTimer(l)
  /\ UNCHANGED <<mailVars, eventVars>>

Expire(k) == Timing!Expire(k) /\ UNCHANGED <<mailVars, eventVars>>

Dequeue(a) == Timing!Dequeue(a) /\ UNCHANGED <<mailVars, eventVars>>

Shutdown == Timing!Shutdown /\ UNCHANGED <<mailVars, eventVars>>

Exit == Timing!Exit /\ UNCHANGED <<mailVars, eventVars>>

-----------------------------------------------------------------------------
\* std::lock_guard<std::recursive_mutex> in HandleSignals, and timerEvent() begins.
LockEvent ==
  /\ handler # NoTimer
  /\ TimerMutexFree
  /\ event' = "locked"
  /\ offered' = {}
  /\ UNCHANGED <<timerVars, mailVars>>

\* m_mailbox.SendSignal(m_label) gets the mailboxes' mutex.
EventSignal ==
  /\ event = "locked"
  /\ Mail!SendSignal(SignalThread, memory[handler].label)
  /\ event' = "sending"
  /\ UNCHANGED <<timerVars, offered>>

\* Mutant: the loop is left when the manager shuts down, with the mutex locked.
EventProceedUntilShutdown ==
  /\ phase # "stopping"
  /\ Mail!Proceed(SignalThread)
  /\ offered' = IF Mail!AtEmplace(SignalThread)
                  THEN offered \cup {Mail!Receiver(SignalThread)} ELSE offered
  /\ UNCHANGED <<timerVars, event>>

\* A step of that SendSignal.
EventProceed ==
  /\ Mail!Proceed(SignalThread)
  /\ offered' = IF Mail!AtEmplace(SignalThread)
                  THEN offered \cup {Mail!Receiver(SignalThread)} ELSE offered
  /\ UNCHANGED <<timerVars, event>>

\* Mutant: the one-shot timer is cancelled and the mutex unlocked before the
\* SendSignal has returned.
EventEndsEarly ==
  /\ event = "sending"
  /\ Timing!TimerEvent
  /\ event' = "none"
  /\ UNCHANGED <<mailVars, offered>>

\* SendSignal has returned: a one-shot timer is cancelled, the mutex unlocked.
EventEnds ==
  /\ event = "sending"
  /\ call[SignalThread] = Mail!NoCall
  /\ Timing!TimerEvent
  /\ event' = "none"
  /\ UNCHANGED <<mailVars, offered>>

\* A bound: the sends of the program leave enough numbers for the events.
ProgramMaySend == sent + MaxTimers < MaxSends + Cardinality(fired)

\* Every operation of the program on mailboxes.
ProgramMail ==
  /\ \/ \E m \in Mailboxes :
          \/ \E l \in Labels : Mail!RegisterForLabel(m, l) \/ Mail!UnregisterForLabel(m, l)
          \/ Mail!Construct(m) \/ Mail!Destroy(m) \/ Mail!Receive(m)
     \/ \E t \in Threads, l \in Labels :
          ProgramMaySend /\ (Mail!SendSignal(t, l) \/ \E n \in Sizes : Mail!SendMessage(t, l, n))
     \/ \E msg \in held : Mail!Release(msg)
  /\ UNCHANGED <<timerVars, eventVars>>

ProgramProceed(t) == Mail!Proceed(t) /\ UNCHANGED <<timerVars, eventVars>>

Next ==
  \/ InitializeTimers \/ InitializeMailboxes
  \/ \E l \in Labels :
       \/ \E type \in TimerTypes, time \in Times : StartTimer(l, type, time)
       \/ CancelTimer(l)
  \/ \E k \in DOMAIN kernel : Expire(k)
  \/ \E a \in pending : Dequeue(a)
  \/ LockEvent \/ EventSignal \/ EventProceed \/ EventEnds
  \/ ProgramMail
  \/ \E t \in Threads : ProgramProceed(t)
  \/ Shutdown \/ Exit

Spec == Init /\ [][Next]_vars

(***************************************************************************)
(* That of TimerManager and Mailbox.  The signal thread competes with the  *)
(* program's sends for the mailboxes' mutex, which is free in between.     *)
(***************************************************************************)
FairSpec ==
  /\ Spec
  /\ \A k \in Timing!Addresses : WF_vars(Expire(k)) /\ SF_vars(Dequeue(k))
  /\ WF_vars(LockEvent) /\ SF_vars(EventSignal) /\ WF_vars(EventProceed) /\ WF_vars(EventEnds)
  /\ \A t \in Threads : WF_vars(ProgramProceed(t))
  /\ WF_vars(Exit)

-----------------------------------------------------------------------------
(***************************************************************************)
(* The timer manager with its split events is still TimerManager: an       *)
(* event, however long its SendSignal waits and whatever the program does  *)
(* meanwhile, is one atomic TimerEvent for the timers, and it always ends. *)
(***************************************************************************)
ImplementsTimerManager == Timing!FairSpec

(***************************************************************************)
(* The signal thread is one more sender: the mailboxes cannot tell it from *)
(* the program's threads, and no send is held up by the timers' mutex.     *)
(***************************************************************************)
ImplementsMailbox == Mail!FairSpec

(***************************************************************************)
(* When the SendSignal of an event is about to unlock, it has come to      *)
(* every mailbox that is registered for the timer's label.                 *)
(***************************************************************************)
EventReachesAll ==
  LET signal == call[SignalThread] IN
    signal # Mail!NoCall /\ signal.slot = MaxReceivers + 1 =>
      \A m \in Mailboxes : memory[handler].label \in wanted[m] => m \in offered

(***************************************************************************)
(* A send never touches a mailbox that is destroyed, although destruction  *)
(* takes no mutex and events send at any time.                             *)
(***************************************************************************)
SendsToLiving ==
  \A t \in Threads \cup {SignalThread} : Mail!AtEmplace(t) => Mail!Receiver(t) \in alive

(***************************************************************************)
(* Every send returns, those of the events included, however full the      *)
(* mailboxes are: the mailboxes' mutex is never kept, and so the timers'   *)
(* mutex that an event holds meanwhile is not either.                      *)
(***************************************************************************)
CallsReturn == Mail!CallsReturn
=============================================================================
