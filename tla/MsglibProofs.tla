---------------------------- MODULE MsglibProofs ----------------------------
(***************************************************************************)
(* Proofs about the whole library: each of its two components keeps its    *)
(* specification when the other is there, so that what is proved of the    *)
(* component holds of the library, and an event reaches every mailbox that *)
(* is registered for its label.                                            *)
(***************************************************************************)
EXTENDS Msglib, TLAPS

TimingP == INSTANCE TimerManagerProofs

MailP == INSTANCE MailboxProofs WITH Threads <- Threads \cup {SignalThread}

-----------------------------------------------------------------------------
(***************************************************************************)
(* The instances that bring the theorems are those of Msglib.              *)
(***************************************************************************)
LEMMA SameTiming == Timing!Spec => TimingP!Spec
<1>1. Timing!Init <=> TimingP!Init
  BY DEF Timing!Init, TimingP!Init, Timing!Addresses, TimingP!Addresses
<1>2. Timing!Next <=> TimingP!Next
  BY DEF Timing!Next, Timing!Initialize, Timing!StartTimer, Timing!CancelTimer, Timing!Expire,
         Timing!Dequeue, Timing!TimerEvent, Timing!Shutdown, Timing!Exit, Timing!Types,
         Timing!Place, Timing!CreateTimer, Timing!NullTimer, Timing!Cancel, Timing!Delete,
         Timing!Signal, Timing!kernelVars, Timing!historyVars,
         TimingP!Next, TimingP!Initialize, TimingP!StartTimer, TimingP!CancelTimer, TimingP!Expire,
         TimingP!Dequeue, TimingP!TimerEvent, TimingP!Shutdown, TimingP!Exit, TimingP!Types,
         TimingP!Place, TimingP!CreateTimer, TimingP!NullTimer, TimingP!Cancel, TimingP!Delete,
         TimingP!Signal, TimingP!kernelVars, TimingP!historyVars
<1>3. UNCHANGED Timing!vars <=> UNCHANGED TimingP!vars
  BY DEF Timing!vars, Timing!kernelVars, Timing!historyVars,
         TimingP!vars, TimingP!kernelVars, TimingP!historyVars
<1> QED BY <1>1, <1>2, <1>3, PTL DEF Timing!Spec, TimingP!Spec

LEMMA SameMail == Mail!Spec => MailP!Spec
<1>1. Mail!Init <=> MailP!Init
  BY DEF Mail!Init, Mail!Pools, Mail!Slots, Mail!NoCall,
         MailP!Init, MailP!Pools, MailP!Slots, MailP!NoCall
<1>2. Mail!Next <=> MailP!Next
  BY DEF Mail!Next, Mail!Initialize, Mail!RegisterForLabel, Mail!UnregisterForLabel,
         Mail!Construct, Mail!Destroy, Mail!Destruct, Mail!Receive, Mail!SendSignal,
         Mail!SendMessage, Mail!StartCall, Mail!Lock, Mail!Proceed, Mail!Skip, Mail!Allocate,
         Mail!Emplace, Mail!EmplaceFull, Mail!Return, Mail!Release, Mail!Queued, Mail!LimitOf,
         Mail!PoolFor, Mail!Receiver, Mail!InLoop, Mail!Advance, Mail!Take, Mail!GiveBack,
         Mail!MessageOf, Mail!AtEmplace, Mail!Slots, Mail!NoCall, Mail!AllBlocks,
         Mail!poolVars, Mail!historyVars,
         MailP!Next, MailP!Initialize, MailP!RegisterForLabel, MailP!UnregisterForLabel,
         MailP!Construct, MailP!Destroy, MailP!Destruct, MailP!Receive, MailP!SendSignal,
         MailP!SendMessage, MailP!StartCall, MailP!Lock, MailP!Proceed, MailP!Skip, MailP!Allocate,
         MailP!Emplace, MailP!EmplaceFull, MailP!Return, MailP!Release, MailP!Queued, MailP!LimitOf,
         MailP!PoolFor, MailP!Receiver, MailP!InLoop, MailP!Advance, MailP!Take, MailP!GiveBack,
         MailP!MessageOf, MailP!AtEmplace, MailP!Slots, MailP!NoCall, MailP!AllBlocks,
         MailP!poolVars, MailP!historyVars
<1>3. UNCHANGED Mail!vars <=> UNCHANGED MailP!vars
  BY DEF Mail!vars, Mail!poolVars, Mail!historyVars,
         MailP!vars, MailP!poolVars, MailP!historyVars
<1> QED BY <1>1, <1>2, <1>3, PTL DEF Mail!Spec, MailP!Spec

LEMMA MailAssumed == MailP!MailboxAssumption
BY MailAssumption
   DEF Mail!MailboxAssumption, Mail!Pools, Mail!AllBlocks, Mail!IsFiniteSet,
       MailP!MailboxAssumption, MailP!Pools, MailP!AllBlocks, MailP!IsFiniteSet

LEMMA TimingTyped == Timing!Spec => []Timing!TypeOK
<1>1. TimingP!TypeOK <=> Timing!TypeOK
  BY DEF Timing!TypeOK, Timing!Timer, Timing!KernelTimer, Timing!Types, Timing!Addresses,
         TimingP!TypeOK, TimingP!Timer, TimingP!KernelTimer, TimingP!Types, TimingP!Addresses
<1> QED BY <1>1, SameTiming, TimingAssumption, TimingP!TimersTyped, PTL

LEMMA MailTyped == Mail!Spec => []Mail!TypeOK
<1>1. MailP!TypeOK <=> Mail!TypeOK
  BY DEF Mail!TypeOK, Mail!Slots, Mail!Pools, Mail!AllBlocks, Mail!Message, Mail!SendCall,
         Mail!NoCall, Mail!StuckCall,
         MailP!TypeOK, MailP!Slots, MailP!Pools, MailP!AllBlocks, MailP!Message, MailP!SendCall,
         MailP!NoCall, MailP!StuckCall
<1> QED BY <1>1, SameMail, MailAssumed, MailP!MailboxTyped, PTL

LEMMA MailRegistrations == Mail!Spec => []Mail!RegistrationsExact
<1>1. MailP!RegistrationsExact <=> Mail!RegistrationsExact
  BY DEF Mail!RegistrationsExact, Mail!Slots, MailP!RegistrationsExact, MailP!Slots
<1> QED BY <1>1, SameMail, MailAssumed, MailP!MailboxRegistrations, PTL

-----------------------------------------------------------------------------
(***************************************************************************)
(* For the timers every step is one of TimerManager or none: an event is   *)
(* its last step, EventEnds.                                               *)
(***************************************************************************)
LEMMA TimingStep == [Next]_vars => [Timing!Next]_Timing!vars
<1> SUFFICES ASSUME [Next]_vars PROVE Timing!Next \/ UNCHANGED Timing!vars
  OBVIOUS
<1>0. UNCHANGED timerVars => UNCHANGED Timing!vars
  BY DEF timerVars, Timing!vars, Timing!kernelVars, Timing!historyVars
<1>1. CASE InitializeTimers \/ Shutdown \/ Exit
  BY <1>1 DEF InitializeTimers, Shutdown, Exit, Timing!Next
<1>2. ASSUME NEW l \in Labels, NEW type \in TimerTypes, NEW time \in Times, StartTimer(l, type, time)
      PROVE  Timing!Next
  BY <1>2, MsglibAssumption DEF StartTimer, Timing!Next, Timing!Types
<1>3. ASSUME NEW l \in Labels, CancelTimer(l) PROVE Timing!Next
  BY <1>3 DEF CancelTimer, Timing!Next
<1>4. ASSUME NEW k \in DOMAIN kernel, Expire(k) PROVE Timing!Next
  BY <1>4 DEF Expire, Timing!Next
<1>5. ASSUME NEW a \in pending, Dequeue(a) PROVE Timing!Next
  BY <1>5 DEF Dequeue, Timing!Next
<1>6. CASE EventEnds
  BY <1>6 DEF EventEnds, Timing!Next
<1>7. ASSUME InitializeMailboxes \/ LockEvent \/ EventSignal \/ EventProceed \/ ProgramMail
             \/ \E t \in Threads : ProgramProceed(t)
      PROVE  UNCHANGED timerVars
  BY <1>7 DEF InitializeMailboxes, LockEvent, EventSignal, EventProceed, ProgramMail, ProgramProceed
<1>8. CASE UNCHANGED vars
  BY <1>0, <1>8 DEF vars
<1> QED BY <1>0, <1>1, <1>2, <1>3, <1>4, <1>5, <1>6, <1>7, <1>8 DEF Next

(***************************************************************************)
(* The timers of the library behave as TimerManager, although their events *)
(* wait for the mailboxes with the timers' mutex locked: the safety half   *)
(* of ImplementsTimerManager.                                              *)
(***************************************************************************)
THEOREM MsglibKeepsTimers == Spec => Timing!Spec
<1>1. Init => Timing!Init
  BY DEF Init
<1> QED BY <1>1, TimingStep, PTL DEF Spec, Timing!Spec

-----------------------------------------------------------------------------
(***************************************************************************)
(* An event has a signal in hand, whose Timer tells the label.             *)
(***************************************************************************)
HandlerOK ==
  /\ event \in {"none", "locked", "sending"}
  /\ event # "none" => handler # NoTimer

LEMMA HandlerOKInductive == HandlerOK /\ [Next]_vars => HandlerOK'
<1> SUFFICES ASSUME HandlerOK, [Next]_vars PROVE HandlerOK'
  OBVIOUS
<1>1. CASE UNCHANGED <<event, handler>>
  BY <1>1 DEF HandlerOK
<1>2. CASE LockEvent \/ EventSignal
  BY <1>2 DEF LockEvent, EventSignal, timerVars, HandlerOK
<1>3. CASE EventEnds
  BY <1>3 DEF EventEnds, HandlerOK
<1>4. ASSUME NEW a \in pending, Dequeue(a) PROVE HandlerOK'
  BY <1>4 DEF Dequeue, Timing!Dequeue, eventVars, HandlerOK
<1>5. CASE InitializeTimers \/ Shutdown \/ Exit
  BY <1>1, <1>5 DEF InitializeTimers, Shutdown, Exit, eventVars,
     Timing!Initialize, Timing!Shutdown, Timing!Exit
<1>6. ASSUME NEW l \in Labels, NEW type, NEW time, StartTimer(l, type, time) \/ CancelTimer(l)
      PROVE  UNCHANGED <<event, handler>>
  BY <1>6 DEF StartTimer, CancelTimer, eventVars, Timing!StartTimer, Timing!CancelTimer
<1>7. ASSUME NEW k \in DOMAIN kernel, Expire(k) PROVE UNCHANGED <<event, handler>>
  BY <1>7 DEF Expire, eventVars, Timing!Expire
<1>8. ASSUME InitializeMailboxes \/ EventProceed \/ ProgramMail
             \/ \E t \in Threads : ProgramProceed(t)
      PROVE  UNCHANGED <<event, handler>>
  BY <1>8 DEF InitializeMailboxes, EventProceed, ProgramMail, ProgramProceed, timerVars, eventVars
<1>9. CASE UNCHANGED vars
  BY <1>1, <1>9 DEF vars, timerVars, eventVars
<1> QED BY <1>1, <1>2, <1>3, <1>4, <1>5, <1>6, <1>7, <1>8, <1>9 DEF Next

\* The label an event signals is one of the program's.
LEMMA EventLabel ==
  ASSUME Timing!TypeOK, HandlerOK, event # "none"
  PROVE  handler \in DOMAIN memory /\ memory[handler].label \in Labels
<1>1. handler \in DOMAIN memory /\ memory \in Seq(Timing!Timer)
  BY DEF HandlerOK, Timing!TypeOK
<1>2. memory[handler] \in Timing!Timer
  BY <1>1
<1> QED BY <1>1, <1>2 DEF Timing!Timer

(***************************************************************************)
(* For the mailboxes every step is one of Mailbox or none: the signal      *)
(* thread is one more sender.                                              *)
(***************************************************************************)
LEMMA MailStep == Timing!TypeOK /\ HandlerOK /\ [Next]_vars => [Mail!Next]_Mail!vars
<1> SUFFICES ASSUME Timing!TypeOK, HandlerOK, [Next]_vars PROVE Mail!Next \/ UNCHANGED Mail!vars
  OBVIOUS
<1>0. UNCHANGED mailVars => UNCHANGED Mail!vars
  BY DEF mailVars, Mail!vars, Mail!poolVars, Mail!historyVars
<1>1. CASE InitializeMailboxes
  BY <1>1 DEF InitializeMailboxes, Mail!Next
<1>2. CASE EventSignal
  BY <1>2, EventLabel DEF EventSignal, Mail!Next
<1>3. CASE EventProceed
  BY <1>3 DEF EventProceed, Mail!Next
<1>4. CASE ProgramMail
  BY <1>4 DEF ProgramMail, Mail!Next
<1>5. ASSUME NEW t \in Threads, ProgramProceed(t) PROVE Mail!Next
  BY <1>5 DEF ProgramProceed, Mail!Next
<1>6. ASSUME \/ InitializeTimers \/ LockEvent \/ EventEnds \/ Shutdown \/ Exit
             \/ \E l \in Labels : CancelTimer(l)
                  \/ \E type \in TimerTypes, time \in Times : StartTimer(l, type, time)
             \/ \E k \in DOMAIN kernel : Expire(k)
             \/ \E a \in pending : Dequeue(a)
      PROVE  UNCHANGED mailVars
  BY <1>6 DEF InitializeTimers, LockEvent, EventEnds, Shutdown, Exit, CancelTimer, StartTimer,
     Expire, Dequeue
<1>7. CASE UNCHANGED vars
  BY <1>0, <1>7 DEF vars
<1> QED BY <1>0, <1>1, <1>2, <1>3, <1>4, <1>5, <1>6, <1>7 DEF Next

LEMMA TimersTyped == Spec => [](Timing!TypeOK /\ HandlerOK)
<1>1. Init => HandlerOK
  BY DEF Init, HandlerOK
<1> QED BY <1>1, HandlerOKInductive, MsglibKeepsTimers, TimingTyped, PTL DEF Spec

(***************************************************************************)
(* The mailboxes of the library behave as Mailbox with one more sending    *)
(* thread: the safety half of ImplementsMailbox.                           *)
(***************************************************************************)
THEOREM MsglibKeepsMailboxes == Spec => Mail!Spec
<1>1. Init => Mail!Init
  BY DEF Init
<1> QED BY <1>1, MailStep, TimersTyped, PTL DEF Spec, Mail!Spec

LEMMA MailboxesTyped == Spec => [](Mail!TypeOK /\ Mail!RegistrationsExact)
BY MsglibKeepsMailboxes, MailTyped, MailRegistrations, PTL

-----------------------------------------------------------------------------
(***************************************************************************)
(* The inductive invariant behind EventReachesAll: the signal thread sends *)
(* only for the signal it has in hand, and the slots behind its loop       *)
(* variable hold mailboxes that it has come to.                            *)
(***************************************************************************)
Signalling == call[SignalThread] # Mail!NoCall

Offered(s) == receivers[call[SignalThread].label][s] \in offered \cup {NoMailbox}

SignalInv ==
  /\ offered \in SUBSET Mailboxes
  /\ Signalling =>
       /\ event = "sending"
       /\ call[SignalThread].op = "signal"
       /\ call[SignalThread].label = memory[handler].label
       /\ \A s \in 1 .. call[SignalThread].slot - 1 : Offered(s)

\* While it sends the slots do not change, and no other thread sends.
LEMMA SignalAlone ==
  ASSUME Mail!TypeOK, Signalling
  PROVE  mutex = SignalThread /\ mutex # NoThread /\ SignalThread \notin Threads
BY MailAssumption, MsglibAssumption
   DEF Mail!TypeOK, Signalling, Mail!NoCall, Mail!MailboxAssumption

LEMMA OtherProceeds ==
  ASSUME Mail!TypeOK, NEW t \in Threads, Mail!Proceed(t)
  PROVE  call'[SignalThread] = call[SignalThread] /\ UNCHANGED receivers
BY MsglibAssumption
   DEF Mail!Proceed, Mail!Skip, Mail!Allocate, Mail!Emplace, Mail!EmplaceFull, Mail!Return,
       Mail!Advance, Mail!TypeOK

\* What the program does with mailboxes while the signal thread sends.
LEMMA ProgramAside ==
  ASSUME Mail!TypeOK, ProgramMail
  PROVE  /\ call'[SignalThread] = call[SignalThread]
         /\ Signalling => UNCHANGED receivers
<1>1. ASSUME NEW t \in Threads, NEW op, NEW l, NEW n, Mail!StartCall(t, op, l, n)
      PROVE  call'[SignalThread] = call[SignalThread] /\ UNCHANGED receivers
  BY <1>1, MsglibAssumption DEF Mail!StartCall, Mail!TypeOK
<1>2. ASSUME NEW m \in Mailboxes, NEW l \in Labels,
             Mail!RegisterForLabel(m, l) \/ Mail!UnregisterForLabel(m, l)
      PROVE  UNCHANGED call /\ ~Signalling
  BY <1>2, SignalAlone DEF Mail!RegisterForLabel, Mail!UnregisterForLabel
<1>3. ASSUME NEW m \in Mailboxes, Mail!Construct(m) \/ Mail!Destroy(m) \/ Mail!Receive(m)
      PROVE  UNCHANGED <<call, receivers>>
  BY <1>3 DEF Mail!Construct, Mail!Destroy, Mail!Destruct, Mail!Receive
<1>4. ASSUME NEW msg \in held, Mail!Release(msg) PROVE UNCHANGED <<call, receivers>>
  BY <1>4 DEF Mail!Release
<1> QED BY <1>1, <1>2, <1>3, <1>4 DEF ProgramMail, Mail!SendSignal, Mail!SendMessage

\* The call of the signal thread and the receiver it has come to are well typed.
LEMMA SignalTyped ==
  ASSUME Mail!TypeOK, Signalling, call[SignalThread].op = "signal"
  PROVE  /\ call[SignalThread] \in Mail!SendCall
         /\ call[SignalThread].slot \in 1 .. MaxReceivers + 1 /\ MaxReceivers \in Nat
         /\ Mail!InLoop(SignalThread) =>
              Mail!Receiver(SignalThread) \in Mailboxes \cup {NoMailbox}
<1>1. call[SignalThread] \in Mail!SendCall
  BY DEF Mail!TypeOK, Mail!NoCall, Mail!StuckCall
<1> QED BY <1>1, MailAssumption
        DEF Mail!SendCall, Mail!TypeOK, Mail!InLoop, Mail!Receiver, Mail!Slots, Mail!MailboxAssumption

LEMMA SignalProceeds == ASSUME HandlerOK, Mail!TypeOK, SignalInv, EventProceed PROVE SignalInv'
<1> DEFINE c == call[SignalThread]
<1>1. Signalling /\ Mail!Proceed(SignalThread)
  <2>1. call[SignalThread].op \in {"send", "signal"}
    BY DEF EventProceed, Mail!Proceed, Mail!Skip, Mail!Allocate, Mail!Emplace,
       Mail!EmplaceFull, Mail!Return, Mail!AtEmplace, Mail!InLoop
  <2> QED BY <2>1 DEF EventProceed, Signalling, Mail!NoCall
<1>2. c.op = "signal" /\ c \in Mail!SendCall /\ c.slot \in Nat
  BY <1>1, SignalTyped DEF SignalInv
<1>3. UNCHANGED <<receivers, memory, handler, event>>
  BY DEF EventProceed, timerVars, Mail!Proceed, Mail!Skip, Mail!Allocate, Mail!Emplace,
     Mail!EmplaceFull, Mail!Return
<1>4. offered' \in SUBSET Mailboxes
  BY <1>1, <1>2, SignalTyped DEF EventProceed, SignalInv, Mail!AtEmplace
<1>5. CASE Mail!Return(SignalThread)
  <2>1. ~Signalling'
    BY <1>5 DEF Mail!Return, Mail!TypeOK, Signalling
  <2> QED BY <1>4, <2>1 DEF SignalInv
<1>6. CASE ~Mail!Return(SignalThread)
  <2>1. ~Mail!Allocate(SignalThread)
    BY <1>2 DEF Mail!Allocate
  <2>2. /\ call'[SignalThread].op = c.op /\ call'[SignalThread].label = c.label
        /\ call'[SignalThread].slot = c.slot + 1
    BY <1>1, <1>2, <1>6, <2>1
       DEF Mail!Proceed, Mail!Skip, Mail!Emplace, Mail!EmplaceFull, Mail!Advance, Mail!TypeOK,
           Mail!SendCall
  <2>3. receivers[c.label][c.slot] \in offered' \cup {NoMailbox}
    BY <1>1, <1>6, <2>1
       DEF EventProceed, Mail!Proceed, Mail!Skip, Mail!Emplace, Mail!EmplaceFull, Mail!Receiver
  <2>4. offered \subseteq offered'
    BY DEF EventProceed
  <2>5. ASSUME NEW s \in 1 .. call'[SignalThread].slot - 1 PROVE Offered(s)'
    <3>1. s \in 1 .. c.slot - 1 \/ s = c.slot
      BY <1>2, <2>2
    <3> QED BY <1>1, <1>3, <2>2, <2>3, <2>4, <3>1 DEF SignalInv, Offered
  <2> QED BY <1>1, <1>2, <1>3, <1>4, <2>2, <2>5 DEF SignalInv
<1> QED BY <1>5, <1>6

LEMMA SignalInvInductive ==
  Timing!TypeOK /\ HandlerOK /\ Mail!TypeOK /\ SignalInv /\ [Next]_vars => SignalInv'
<1> SUFFICES ASSUME Timing!TypeOK, HandlerOK, Mail!TypeOK, SignalInv, [Next]_vars
             PROVE  SignalInv'
  OBVIOUS
<1>1. CASE EventProceed
  BY <1>1, SignalProceeds
<1>2. CASE EventSignal
  <2>1. /\ call'[SignalThread].op = "signal" /\ call'[SignalThread].slot = 1
        /\ call'[SignalThread].label = memory[handler].label
    BY <1>2 DEF EventSignal, Mail!SendSignal, Mail!StartCall, Mail!TypeOK
  <2>2. UNCHANGED <<offered, memory, handler>> /\ event' = "sending"
    BY <1>2 DEF EventSignal, timerVars
  <2> QED BY <2>1, <2>2 DEF SignalInv
<1>3. ASSUME offered' \in {offered, {}}, ~Signalling, call'[SignalThread] = call[SignalThread]
      PROVE  SignalInv'
  BY <1>3 DEF SignalInv, Signalling
<1>4. ASSUME UNCHANGED <<offered, event, memory, handler>>, Signalling => UNCHANGED receivers,
             call'[SignalThread] = call[SignalThread]
      PROVE  SignalInv'
  BY <1>4 DEF SignalInv, Signalling, Offered
<1>5. CASE ProgramMail
  BY <1>4, <1>5, ProgramAside DEF ProgramMail, timerVars, eventVars
<1>6. ASSUME NEW t \in Threads, ProgramProceed(t) PROVE SignalInv'
  BY <1>4, <1>6, OtherProceeds DEF ProgramProceed, timerVars, eventVars
<1>7. CASE InitializeMailboxes
  BY <1>4, <1>7 DEF InitializeMailboxes, Mail!Initialize, timerVars, eventVars
<1>8. CASE LockEvent \/ EventEnds
  <2>1. ~Signalling /\ UNCHANGED call
    BY <1>8 DEF LockEvent, EventEnds, TimerMutexFree, SignalInv, Signalling, mailVars
  <2> QED BY <1>3, <1>8, <2>1 DEF LockEvent, EventEnds
<1>9. ASSUME NEW l \in Labels, NEW type, NEW time, StartTimer(l, type, time) \/ CancelTimer(l)
      PROVE  SignalInv'
  <2>1. ~Signalling
    BY <1>9 DEF StartTimer, CancelTimer, TimerMutexFree, SignalInv
  <2> QED BY <1>3, <1>9, <2>1 DEF StartTimer, CancelTimer, mailVars, eventVars
<1>10. ASSUME NEW a \in pending, Dequeue(a) PROVE SignalInv'
  <2>1. ~Signalling
    BY <1>10 DEF Dequeue, Timing!Dequeue, HandlerOK, SignalInv
  <2> QED BY <1>3, <1>10, <2>1 DEF Dequeue, mailVars, eventVars
<1>11. ASSUME InitializeTimers \/ Shutdown \/ Exit \/ \E k \in DOMAIN kernel : Expire(k)
       PROVE  SignalInv'
  BY <1>4, <1>11 DEF InitializeTimers, Shutdown, Exit, Expire, mailVars, eventVars,
     Timing!Initialize, Timing!Shutdown, Timing!Exit, Timing!Expire
<1>12. CASE UNCHANGED vars
  BY <1>4, <1>12 DEF vars, timerVars, mailVars, eventVars
<1> QED BY <1>1, <1>2, <1>5, <1>6, <1>7, <1>8, <1>9, <1>10, <1>11, <1>12 DEF Next

LEMMA SignalInvHolds == Spec => []SignalInv
<1>1. Init => SignalInv
  BY MsglibAssumption DEF Init, Mail!Init, SignalInv, Signalling
<1> QED BY <1>1, SignalInvInductive, TimersTyped, MailboxesTyped, PTL DEF Spec

(***************************************************************************)
(* Type correctness of the library: in particular the signal thread is in  *)
(* a send only during an event, with the timers' mutex locked.             *)
(***************************************************************************)
THEOREM MsglibTyped == Spec => []TypeOK
<1>1. Timing!TypeOK /\ HandlerOK /\ Mail!TypeOK /\ SignalInv => TypeOK
  BY DEF TypeOK, HandlerOK, SignalInv, Signalling
<1> QED BY <1>1, TimersTyped, MailboxesTyped, SignalInvHolds, PTL

(***************************************************************************)
(* When the SendSignal of an event is about to return, it has come to      *)
(* every mailbox registered for the timer's label, whatever the program    *)
(* has registered, unregistered, sent and received meanwhile.              *)
(***************************************************************************)
THEOREM MsglibEventReachesAll == Spec => []EventReachesAll
<1>1. Mail!TypeOK /\ Mail!RegistrationsExact /\ HandlerOK /\ Timing!TypeOK /\ SignalInv
        => EventReachesAll
  <2> SUFFICES ASSUME Mail!TypeOK, Mail!RegistrationsExact, HandlerOK, Timing!TypeOK, SignalInv,
                      Signalling, call[SignalThread].slot = MaxReceivers + 1,
                      NEW m \in Mailboxes, memory[handler].label \in wanted[m]
               PROVE  m \in offered
    BY DEF EventReachesAll, Signalling
  <2>1. MaxReceivers \in Nat /\ m # NoMailbox
    BY MailAssumption DEF Mail!MailboxAssumption
  <2>2. memory[handler].label \in Labels
    BY EventLabel DEF SignalInv
  <2>3. PICK s \in 1 .. MaxReceivers : receivers[memory[handler].label][s] = m
    BY <2>2 DEF Mail!RegistrationsExact, Mail!Slots
  <2>4. s \in 1 .. call[SignalThread].slot - 1
    BY <2>1
  <2> QED BY <2>1, <2>3, <2>4 DEF SignalInv, Offered
<1> QED BY <1>1, TimersTyped, MailboxesTyped, SignalInvHolds, PTL

(***************************************************************************)
(* A send, of the program or of an event, never touches a mailbox that is  *)
(* destroyed, if owners unregister before they destroy.                    *)
(***************************************************************************)
THEOREM MsglibSendsToLiving == Spec => []SendsToLiving
<1>1. Mail!TypeOK /\ Mail!RegistrationsExact => SendsToLiving
  <2> SUFFICES ASSUME Mail!TypeOK, Mail!RegistrationsExact,
                      NEW t \in Threads \cup {SignalThread}, Mail!AtEmplace(t)
               PROVE  Mail!Receiver(t) \in alive
    BY DEF SendsToLiving
  <2>1. /\ call[t] \in Mail!SendCall /\ call[t].slot \in Mail!Slots
        /\ Mail!Receiver(t) # NoMailbox
    BY DEF Mail!AtEmplace, Mail!InLoop, Mail!TypeOK, Mail!NoCall, Mail!StuckCall
  <2>2. Mail!Receiver(t) \in Mailboxes /\ call[t].label \in Labels
    BY <2>1 DEF Mail!Receiver, Mail!TypeOK, Mail!SendCall
  <2> QED BY <2>1, <2>2 DEF Mail!Receiver, Mail!RegistrationsExact
<1> QED BY <1>1, MailboxesTyped, PTL

-----------------------------------------------------------------------------
(***************************************************************************)
(* What is proved of TimerManager alone holds of the library's timers: the *)
(* program can cancel every timer that may go off, a cancelled one signals *)
(* at most twice more, and no timer is lost for another reason than those  *)
(* of LossesExplained.                                                     *)
(***************************************************************************)
THEOREM MsglibTimersSafe ==
  Spec => [](Timing!ArmedRegistered /\ Timing!LateSignalsBounded /\ Timing!LossesExplained)
<1>1. TimingP!ArmedRegistered <=> Timing!ArmedRegistered
  BY DEF Timing!ArmedRegistered, Timing!Armed, Timing!InState,
         TimingP!ArmedRegistered, TimingP!Armed, TimingP!InState
<1>2. TimingP!LateSignalsBounded <=> Timing!LateSignalsBounded
  BY DEF Timing!LateSignalsBounded, TimingP!LateSignalsBounded
<1>3. TimingP!LossesExplained <=> Timing!LossesExplained
  BY DEF Timing!LossesExplained, Timing!CanGoOff, Timing!Done, Timing!LabelReused,
         Timing!MistakenForNull, Timing!NullTimer, Timing!Armed, Timing!InState,
         TimingP!LossesExplained, TimingP!CanGoOff, TimingP!Done, TimingP!LabelReused,
         TimingP!MistakenForNull, TimingP!NullTimer, TimingP!Armed, TimingP!InState
<1> QED BY <1>1, <1>2, <1>3, MsglibKeepsTimers, SameTiming, TimingAssumption,
           TimingP!TimersArmedRegistered, TimingP!TimersLateSignals,
           TimingP!TimersLossesExplained, PTL

(***************************************************************************)
(* What is proved of the blocks in Mailbox holds in the library, where     *)
(* events send while the program sends, receives and releases.             *)
(***************************************************************************)
THEOREM MsglibBlocksSafe == Spec => [](Mail!OneOwner /\ Mail!BlocksAccounted)
<1>1. /\ MailP!Sending = Mail!Sending /\ MailP!InHand = Mail!InHand
      /\ MailP!InQueues = Mail!InQueues /\ MailP!InUse = Mail!InUse
  BY DEF Mail!Sending, Mail!InHand, Mail!InQueues, Mail!Queued, Mail!InUse,
         MailP!Sending, MailP!InHand, MailP!InQueues, MailP!Queued, MailP!InUse
<1>2. MailP!OneOwner <=> Mail!OneOwner
  BY <1>1 DEF Mail!OneOwner, MailP!OneOwner
<1>3. MailP!BlocksAccounted <=> Mail!BlocksAccounted
  BY <1>1 DEF Mail!BlocksAccounted, MailP!BlocksAccounted
<1> QED BY <1>2, <1>3, MsglibKeepsMailboxes, SameMail, MailAssumed,
           MailP!MailboxOneOwner, MailP!MailboxBlocksAccounted, PTL

(***************************************************************************)
(* The pools' counts are exact and messages keep their size in the         *)
(* library, if m_size can hold the size of the largest block.              *)
(***************************************************************************)
THEOREM MsglibPoolsSafe ==
  ASSUME EltSize["large"] < SizeMod
  PROVE  Spec => [](Mail!PoolExact /\ Mail!PutFits /\ Mail!MessageKeepsSize)
<1>1. MailP!SizesKept
  BY DEF MailP!SizesKept
<1>2. \A S : MailP!Cardinality(S) = Mail!Cardinality(S)
  BY DEF Mail!Cardinality, MailP!Cardinality
<1>3. MailP!PoolExact <=> Mail!PoolExact
  BY <1>2 DEF Mail!PoolExact, Mail!Pools, MailP!PoolExact, MailP!Pools
<1>4. MailP!PutFits <=> Mail!PutFits
  BY DEF Mail!PutFits, Mail!Sending, Mail!Pools, MailP!PutFits, MailP!Sending, MailP!Pools
<1>5. MailP!MessageKeepsSize <=> Mail!MessageKeepsSize
  BY DEF Mail!MessageKeepsSize, MailP!MessageKeepsSize
<1> QED BY <1>1, <1>3, <1>4, <1>5, MsglibKeepsMailboxes, SameMail, MailAssumed,
           MailP!MailboxPoolExact, MailP!MailboxPutFits, MailP!MailboxKeepsSize, PTL

(***************************************************************************)
(* The result of SendMessage, what it promises, and the order of what      *)
(* mailboxes receive are those of Mailbox, also when events and the        *)
(* program's threads compete for the mutex.                                *)
(***************************************************************************)
THEOREM MsglibSendsSafe ==
  Spec => /\ [](Mail!SendResult /\ Mail!TrueMeansDelivered)
          /\ Mail!ReceivesInOrder
<1>1. /\ MailP!SendResult <=> Mail!SendResult
      /\ MailP!TrueMeansDelivered <=> Mail!TrueMeansDelivered
  BY DEF Mail!SendResult, Mail!TrueMeansDelivered, Mail!Has,
         MailP!SendResult, MailP!TrueMeansDelivered, MailP!Has
<1>2. MailP!vars = Mail!vars /\ (UNCHANGED MailP!vars <=> UNCHANGED Mail!vars)
  BY DEF Mail!vars, Mail!poolVars, Mail!historyVars,
         MailP!vars, MailP!poolVars, MailP!historyVars
<1>3. MailP!ReceivesInOrder => Mail!ReceivesInOrder
  BY <1>2, PTL DEF Mail!ReceivesInOrder, MailP!ReceivesInOrder
<1> QED BY <1>1, <1>3, MsglibKeepsMailboxes, SameMail, MailAssumed,
           MailP!MailboxSendResult, MailP!MailboxTrueMeansDelivered,
           MailP!MailboxReceivesInOrder, PTL
=============================================================================
