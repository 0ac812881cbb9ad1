---------------------------- MODULE TimerManager ----------------------------
(***************************************************************************)
(* TimerManager (include/msglib/TimerManager.h, detail/TimerManagerData.h):*)
(* one timer per label, each a kernel timer whose signal carries the       *)
(* address of its Timer, and a thread that turns the signals into          *)
(* SendSignal(label).                                                      *)
(*                                                                         *)
(* The three sections under m_mutex (startTimer, cancelTimer, and the      *)
(* event with its nested cancelTimer) are one step each.  The kernel's     *)
(* steps and the dequeuing of a signal, before the mutex is locked, come   *)
(* in between.  A Timer's memory comes from a monotonic resource: it is    *)
(* never used again, and what it holds survives its destruction.           *)
(***************************************************************************)
EXTENDS Naturals, Sequences, FiniteSets

CONSTANTS
  Labels,      \* the labels that timers are started for
  Times,       \* the kinds of time StartTimer is given, see below
  MaxTimers,   \* number of Timers that m_byteResource has memory for
  NoTimer      \* nullptr in m_timers, and no signal in hand

(***************************************************************************)
(* later: a valid time.  zero: timer_settime disarms.  invalid: it fails.  *)
(***************************************************************************)
ASSUME TimerAssumption ==
  /\ Times \subseteq {"later", "zero", "invalid"}
  /\ MaxTimers \in Nat
  /\ NoTimer \notin Nat

Addresses == 1 .. MaxTimers

Types == {"ONE_SHOT", "PERIODIC"}

VARIABLES
  phase,       \* life of the TimerResources and of its thread
  memory,      \* Seq(Timer): every Timer allocated so far, at its address
  timers,      \* [Labels -> Addresses \cup {NoTimer}]: m_timers
  kernel,      \* the kernel timers created so far, a timer_t is an index
  pending,     \* the Timers whose signal is pending
  handler,     \* the Timer whose signal HandleSignals has dequeued
  started,     \* history: Timers StartTimer returned true for
  cancelled,   \* history: Timers CancelTimer returned true for
  fired,       \* history: Timers that sent their signal to the mailboxes
  late         \* history: [Addresses -> Nat], signals sent after the cancel

kernelVars == <<kernel, pending>>
historyVars == <<started, cancelled, fired, late>>
vars == <<phase, memory, timers, kernelVars, handler, historyVars>>

\* m_label, m_type and m_timer
Timer == [label : Labels, type : Types, timer : Addresses]

\* idle: never armed.  expired: a one-shot timer after its expiry.
KernelTimer == [address : Addresses, state : {"idle", "armed", "expired", "deleted"}]

TypeOK ==
  /\ phase \in {"absent", "running", "stopping", "stopped"}
  /\ memory \in Seq(Timer)
  /\ Len(memory) <= MaxTimers
  /\ timers \in [Labels -> DOMAIN memory \cup {NoTimer}]
  /\ kernel \in Seq(KernelTimer)
  /\ Len(kernel) <= Len(memory)
  /\ \A k \in DOMAIN kernel : kernel[k].address \in DOMAIN memory
  /\ pending \in SUBSET DOMAIN memory
  /\ handler \in DOMAIN memory \cup {NoTimer}
  /\ started \in SUBSET DOMAIN memory
  /\ cancelled \in SUBSET DOMAIN memory
  /\ fired \in SUBSET DOMAIN memory
  /\ late \in [Addresses -> Nat]

Init ==
  /\ phase = "absent"
  /\ memory = <<>>
  /\ timers = [l \in Labels |-> NoTimer]
  /\ kernel = <<>>
  /\ pending = {}
  /\ handler = NoTimer
  /\ started = {}
  /\ cancelled = {}
  /\ fired = {}
  /\ late = [a \in Addresses |-> 0]

\* Blocks SIGRTMIN, makes the resources, starts the thread.
Initialize ==
  /\ phase = "absent"
  /\ phase' = "running"
  /\ UNCHANGED <<memory, timers, kernelVars, handler, historyVars>>

-----------------------------------------------------------------------------
(***************************************************************************)
(* m_timer when timer_create failed: null, which is also the first timer_t *)
(* the kernel gives out.                                                   *)
(***************************************************************************)
NullTimer == 1

\* m_timers[label] = allocate(1), and the members the constructor initializes.
Place(l, type, k) ==
  /\ memory' = Append(memory, [label |-> l, type |-> type, timer |-> k])
  /\ timers' = [timers EXCEPT ![l] = Len(memory) + 1]

\* timer_create with the address of the new Timer, and timer_settime.
CreateTimer(state) ==
  kernel' = Append(kernel, [address |-> Len(memory) + 1, state |-> state])

\* Mutant: allocate() does not run out.
StartBeyondMemory(l, type, time) ==
  /\ phase = "running"
  /\ timers[l] = NoTimer
  /\ Len(memory) <= MaxTimers
  /\ Place(l, type, Len(kernel) + 1)
  /\ CreateTimer("armed")
  /\ started' = started \cup {Len(memory) + 1}
  /\ UNCHANGED <<phase, pending, handler, cancelled, fired, late>>

\* Mutant: a timer that is running is replaced without being cancelled.
StartReplaces(l, type, time) ==
  /\ phase = "running"
  /\ Len(memory) < MaxTimers
  /\ Place(l, type, Len(kernel) + 1)
  /\ CreateTimer("armed")
  /\ started' = started \cup {Len(memory) + 1}
  /\ UNCHANGED <<phase, pending, handler, cancelled, fired, late>>

\* StartTimer for a label without a timer; with one it returns false.  When
\* memory has run out, allocate() throws before anything is changed; when the
\* constructor throws, m_timers keeps the pointer.
StartTimer(l, type, time) ==
  /\ phase = "running"
  /\ timers[l] = NoTimer
  /\ Len(memory) < MaxTimers
  /\ \/ /\ time # "invalid"
        /\ Place(l, type, Len(kernel) + 1)
        /\ CreateTimer(IF time = "later" THEN "armed" ELSE "idle")
        /\ started' = started \cup {Len(memory) + 1}
     \/ /\ time = "invalid"
        /\ Place(l, type, Len(kernel) + 1)
        /\ CreateTimer("idle")
        /\ UNCHANGED started
     \/ /\ Place(l, type, NullTimer)
        /\ UNCHANGED <<kernel, started>>
  /\ UNCHANGED <<phase, pending, handler, cancelled, fired, late>>

\* Mutant: ~Timer and cancel() leave the kernel timer alone.
DeleteForgotten(k) == UNCHANGED kernelVars

\* Timer::cancel() and ~Timer: the kernel timer k, if there is one, is disarmed
\* and deleted.  Its pending signal may be dropped or stay.
Delete(k) ==
  \/ k \notin DOMAIN kernel /\ UNCHANGED kernelVars
  \/ /\ k \in DOMAIN kernel
     /\ kernel' = [kernel EXCEPT ![k].state = "deleted"]
     /\ \/ UNCHANGED pending
        \/ pending' = pending \ {kernel[k].address}

\* cancelTimer, of the timer that the label has now.
Cancel(l) ==
  \/ timers[l] = NoTimer /\ UNCHANGED <<timers, kernelVars>>
  \/ /\ timers[l] # NoTimer
     /\ Delete(memory[timers[l]].timer)
     /\ timers' = [timers EXCEPT ![l] = NoTimer]

\* CancelTimer that returns true.
CancelTimer(l) ==
  /\ phase = "running"
  /\ timers[l] # NoTimer
  /\ Cancel(l)
  /\ cancelled' = cancelled \cup {timers[l]}
  /\ UNCHANGED <<phase, memory, handler, started, fired, late>>

-----------------------------------------------------------------------------
\* A kernel timer expires.  While its signal is pending, expiries only count as
\* overruns.
Expire(k) ==
  /\ k \in DOMAIN kernel
  /\ kernel[k].state = "armed"
  /\ kernel[k].address \notin pending
  /\ pending' = pending \cup {kernel[k].address}
  /\ kernel' = IF memory[kernel[k].address].type = "ONE_SHOT"
                 THEN [kernel EXCEPT ![k].state = "expired"]
                 ELSE kernel
  /\ UNCHANGED <<phase, memory, timers, handler, historyVars>>

\* sigtimedwait returns the signal of Timer a; m_mutex is not locked yet.
Dequeue(a) ==
  /\ phase \in {"running", "stopping"}
  /\ handler = NoTimer
  /\ a \in pending
  /\ pending' = pending \ {a}
  /\ handler' = a
  /\ UNCHANGED <<phase, memory, timers, kernel, historyVars>>

\* The signal goes to the mailboxes; m_shutdown is read before the next wait.
Signal(a) ==
  /\ fired' = fired \cup {a}
  /\ late' = IF a \in cancelled THEN [late EXCEPT ![a] = @ + 1] ELSE late
  /\ handler' = NoTimer
  /\ phase' = IF phase = "stopping" THEN "stopped" ELSE phase
  /\ UNCHANGED <<memory, started, cancelled>>

\* Mutant: m_mutex is not recursive, and cancelTimer locks it again.
TimerEventBlocks ==
  /\ handler # NoTimer
  /\ memory[handler].type = "PERIODIC"
  /\ UNCHANGED <<timers, kernelVars>>
  /\ Signal(handler)

\* Mutant: the type is not looked at.
TimerEventAnyType ==
  /\ handler # NoTimer
  /\ Cancel(memory[handler].label)
  /\ Signal(handler)

\* With m_mutex locked, timerEvent() of whatever Timer the signal points to.
TimerEvent ==
  /\ handler # NoTimer
  /\ \/ memory[handler].type = "ONE_SHOT" /\ Cancel(memory[handler].label)
     \/ memory[handler].type = "PERIODIC" /\ UNCHANGED <<timers, kernelVars>>
  /\ Signal(handler)

\* ~TimerResources sets m_shutdown and joins the thread.
Shutdown ==
  /\ phase = "running"
  /\ phase' = "stopping"
  /\ UNCHANGED <<memory, timers, kernelVars, handler, historyVars>>

\* Mutant: sigwaitinfo, which has no timeout.
ExitNever == FALSE

\* sigtimedwait times out and m_shutdown ends the loop.
Exit ==
  /\ phase = "stopping"
  /\ handler = NoTimer
  /\ phase' = "stopped"
  /\ UNCHANGED <<memory, timers, kernelVars, handler, historyVars>>

Next ==
  \/ Initialize
  \/ \E l \in Labels :
       \/ \E type \in Types, time \in Times : StartTimer(l, type, time)
       \/ CancelTimer(l)
  \/ \E k \in DOMAIN kernel : Expire(k)
  \/ \E a \in pending : Dequeue(a)
  \/ TimerEvent
  \/ Shutdown
  \/ Exit

Spec == Init /\ [][Next]_vars

(***************************************************************************)
(* An armed timer expires.  Pending signals are dequeued first come, first *)
(* served, so the thread gets to each of them although others keep coming. *)
(* The thread gets the mutex, and its wait has a timeout.  Nothing is      *)
(* assumed of the program's calls.                                         *)
(***************************************************************************)
FairSpec ==
  /\ Spec
  /\ \A k \in Addresses : WF_vars(Expire(k)) /\ SF_vars(Dequeue(k))
  /\ WF_vars(TimerEvent) /\ WF_vars(Exit)

-----------------------------------------------------------------------------
InState(a, states) ==
  \E k \in DOMAIN kernel : kernel[k].address = a /\ kernel[k].state \in states

Armed(a) == InState(a, {"armed"})

(***************************************************************************)
(* A kernel timer that runs is the one registered for its label: however   *)
(* starts, cancels, failed constructors and late events interleave, the    *)
(* program can cancel every timer that may still go off.                   *)
(***************************************************************************)
ArmedRegistered ==
  \A a \in DOMAIN memory : Armed(a) => timers[memory[a].label] = a

(***************************************************************************)
(* After CancelTimer returned true, the timer's label is signalled at most *)
(* once more for a one-shot timer and twice for a periodic one: the signal *)
(* the thread has in hand, and one that is pending behind it.              *)
(***************************************************************************)
LateSignalsBounded ==
  \A a \in DOMAIN memory :
    late[a] <= IF memory[a].type = "ONE_SHOT" THEN 1 ELSE 2

(***************************************************************************)
(* A timer that was started, and not with a zero time, can still go off    *)
(* until it is done, except in two ways: a late event of an earlier        *)
(* one-shot timer that was cancelled for the same label, and the end of a  *)
(* timer whose timer_create failed and whose null timer_t is the first     *)
(* kernel timer's.                                                         *)
(***************************************************************************)
Done(a) ==
  \/ a \in cancelled
  \/ memory[a].type = "ONE_SHOT" /\ a \in fired

LabelReused(a) ==
  \E b \in cancelled : b < a /\ memory[b].label = memory[a].label
                             /\ memory[b].type = "ONE_SHOT"

MistakenForNull(a) ==
  /\ NullTimer \in DOMAIN kernel /\ kernel[NullTimer].address = a
  /\ \E b \in DOMAIN memory \ {a} :
       memory[b].timer = NullTimer /\ timers[memory[b].label] # b

CanGoOff(a) == Armed(a) \/ a \in pending \/ handler = a

LossesExplained ==
  \A a \in started :
    \/ CanGoOff(a) \/ Done(a)
    \/ LabelReused(a) \/ MistakenForNull(a)
    \/ InState(a, {"idle"})

(***************************************************************************)
(* A timer that runs goes off, unless it is cancelled or the manager shuts *)
(* down: no pending signal is left behind by events of other timers.       *)
(***************************************************************************)
ArmedFires ==
  \A a \in Addresses :
    Armed(a) ~> (a \in fired \/ ~InState(a, {"armed", "expired"}) \/ phase = "stopped")

(***************************************************************************)
(* ~TimerResources gets past the join, also without a single timer.        *)
(***************************************************************************)
JoinReturns == phase = "stopping" ~> phase = "stopped"

(***************************************************************************)
(* An event cancels "the timer from recurring": the one that fired.        *)
(***************************************************************************)
EventCancelsItsTimer ==
  [][\A l \in Labels : TimerEvent /\ timers'[l] # timers[l] => timers[l] = handler]_vars
=============================================================================
