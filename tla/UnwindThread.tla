---------------------------- MODULE UnwindThread ----------------------------
(***************************************************************************)
(* Unwinding another thread of the same process: the ThreadEntry registry  *)
(* (libbacktrace/ThreadEntry.{h,cpp}) and the two halves of the protocol    *)
(* that uses it (libbacktrace/BacktraceCurrent.cpp).  UnwindThread runs on  *)
(* the thread that wants a backtrace; SignalHandler runs on the thread      *)
(* under test, on top of whatever that thread was doing.  They meet in a    *)
(* reference-counted ThreadEntry: its wait_value_ counts the Wake() calls   *)
(* of one hand-shake (1: ucontext saved, 2: unwind complete, 3: handler     *)
(* done) and every wait is given up after five seconds.                     *)
(*                                                                         *)
(* A thread may do both: while its SignalHandler runs, its own UnwindThread *)
(* call does not move.  The signals are the kernel's: a real-time signal is *)
(* queued, is masked while its handler runs, and is acted on with the       *)
(* action installed at the moment of delivery.                              *)
(***************************************************************************)
EXTENDS Naturals, Sequences, FiniteSets

CONSTANTS Threads,      \* the threads of the process
          Entries,      \* addresses a ThreadEntry can be allocated at
          CanUnwind,    \* pairs <<u, g>>: thread u may call UnwindThread on g
          MayExit,      \* the threads that may exit
          UserAction,   \* TRUE: the program has an action of its own for the signal
          Slow,         \* TRUE: any wait may outlast its five seconds
          MaxCalls,     \* bound: UnwindThread calls per thread
          None          \* no thread, no entry

ASSUME ThreadsAssumption ==
  /\ IsFiniteSet(Threads)
  /\ None \notin Threads \cup Entries
  /\ CanUnwind \subseteq Threads \X Threads
  /\ \A u \in Threads : <<u, u>> \notin CanUnwind
  /\ MaxCalls \in Nat

VARIABLES
  sigMutex,    \* owner of g_sigaction_mutex
  listMutex,   \* owner of ThreadEntry::list_mutex_
  sigact,      \* the action installed for THREAD_SIGNAL
  heap,        \* every ThreadEntry object, by address
  call,        \* each thread's UnwindThread: where it is and its local variables
  hand,        \* each thread's SignalHandler, likewise
  pending,     \* signals queued for each thread, oldest first
  alive,       \* threads that have not exited
  killed       \* the default action of the signal has ended the process

kernel == <<pending, alive, killed>>
vars == <<sigMutex, listMutex, sigact, heap, call, hand, kernel>>

(***************************************************************************)
(* A signal is named by the call that sent it, <<caller, number of call>>.  *)
(* The name exists in the model only, to tell a fresh ucontext from an old  *)
(* one.                                                                     *)
(***************************************************************************)
Signals == Threads \X Nat
NoSignal == <<None, 0>>
Actions == {"default", "user", "handler", "logonly"}

\* A ThreadEntry; live is FALSE at an address that holds no object.
EntryObjects ==
  [live : BOOLEAN, tid : Threads \cup {None}, ref_count : Nat,
   mutex : Threads \cup {None}, wait_mutex : Threads \cup {None},
   wait_value : Nat, ucontext : Signals \cup {NoSignal}]
Freed == [live |-> FALSE, tid |-> None, ref_count |-> 0, mutex |-> None,
          wait_mutex |-> None, wait_value |-> 0, ucontext |-> NoSignal]
NewEntryUncounted(g) == [Freed EXCEPT !.live = TRUE, !.tid = g]
NewEntry(g) == [Freed EXCEPT !.live = TRUE, !.tid = g, !.ref_count = 1]

CallPcs == {"idle", "sig_lock", "get_lock", "get", "lock", "install", "kill",
            "undo", "wait1", "wait1b", "restore", "sig_unlock", "unwind",
            "wake", "wake_w", "wait3", "wait3b", "check", "unlock", "rm_lock",
            "rm", "err_unlock"}
HandPcs == {"idle", "get_lock", "get", "copy", "wake1", "wake1_w", "signal1",
            "wait2", "wait2b", "wake3", "wake3_w", "signal3"}
Errors == {"none", "thread_doesnt_exist", "thread_timeout", "internal"}

Calls == [pc : CallPcs, target : Threads, entry : Entries \cup {None},
          oldact : Actions, completed : BOOLEAN, tmp : Nat, n : Nat, error : Errors]
Handlers == [pc : HandPcs, entry : Entries \cup {None}, tmp : Nat,
             sig : Signals \cup {NoSignal}]
NoHandler == [pc |-> "idle", entry |-> None, tmp |-> 0, sig |-> NoSignal]

\* A thread executes its own code only while no handler runs on top of it.
At(t, from) == ~killed /\ t \in alive /\ hand[t].pc = "idle" /\ call[t].pc = from
Go(t, to) == call' = [call EXCEPT ![t].pc = to]
HandAt(g, from) == ~killed /\ hand[g].pc = from
HandGo(g, to) == hand' = [hand EXCEPT ![g].pc = to]
-----------------------------------------------------------------------------
(* UnwindThread *)

\* The call itself, up to the wait for g_sigaction_mutex.
Call(t, g) ==
  /\ At(t, "idle") /\ <<t, g>> \in CanUnwind /\ call[t].n < MaxCalls
  /\ call' = [call EXCEPT ![t].pc = "sig_lock", ![t].target = g, ![t].n = @ + 1,
                          ![t].error = "none"]
  /\ UNCHANGED <<sigMutex, listMutex, sigact, heap, hand, kernel>>

LockSigaction(t) ==
  /\ At(t, "sig_lock") /\ sigMutex = None
  /\ sigMutex' = t /\ Go(t, "get_lock")
  /\ UNCHANGED <<listMutex, sigact, heap, hand, kernel>>

\* ThreadEntry::Get and Remove take list_mutex_ in a step of its own, so that
\* a signal can arrive while it is held.
GetLock(t) ==
  /\ At(t, "get_lock") /\ listMutex = None
  /\ listMutex' = t /\ Go(t, "get")
  /\ UNCHANGED <<sigMutex, sigact, heap, hand, kernel>>

\* The search of the list, and what a hit does to the count.
Matching(g) == {e \in Entries : heap[e].live /\ heap[e].tid = g}
RefForgotten(e) == heap
Ref(e) == [heap EXCEPT ![e].ref_count = @ + 1]

Get(t) ==
  /\ At(t, "get")
  /\ \E e \in Entries :
       /\ call' = [call EXCEPT ![t].pc = "lock", ![t].entry = e]
       /\ \/ e \in Matching(call[t].target) /\ heap' = Ref(e)
          \/ /\ Matching(call[t].target) = {} /\ ~heap[e].live
             /\ heap' = [heap EXCEPT ![e] = NewEntry(call[t].target)]
  /\ listMutex' = None
  /\ UNCHANGED <<sigMutex, sigact, hand, kernel>>

LockUnguarded(t) ==
  /\ At(t, "lock")
  /\ heap' = [heap EXCEPT ![call[t].entry].mutex = t, ![call[t].entry].wait_value = 0]
  /\ Go(t, "install")
  /\ UNCHANGED <<sigMutex, listMutex, sigact, hand, kernel>>

\* ThreadEntry::Lock; the store to wait_value_ is not under wait_mutex_.
Lock(t) ==
  /\ At(t, "lock") /\ heap[call[t].entry].mutex = None
  /\ heap' = [heap EXCEPT ![call[t].entry].mutex = t, ![call[t].entry].wait_value = 0]
  /\ Go(t, "install")
  /\ UNCHANGED <<sigMutex, listMutex, sigact, hand, kernel>>

\* sigaction(THREAD_SIGNAL, &act, &oldact), or its failure.
Install(t) ==
  /\ At(t, "install")
  /\ \/ /\ sigact' = "handler"
        /\ call' = [call EXCEPT ![t].pc = "kill", ![t].oldact = sigact]
     \/ /\ call' = [call EXCEPT ![t].pc = "unlock", ![t].error = "internal"]
        /\ UNCHANGED sigact
  /\ UNCHANGED <<sigMutex, listMutex, heap, hand, kernel>>

\* tgkill fails when the thread has exited, or when the signal cannot be queued.
Kill(t) ==
  /\ At(t, "kill")
  /\ \/ /\ call[t].target \in alive
        /\ pending' = [pending EXCEPT ![call[t].target] = Append(@, <<t, call[t].n>>)]
        /\ Go(t, "wait1")
     \/ /\ call' = [call EXCEPT ![t].pc = "undo", ![t].error =
                      IF call[t].target \in alive THEN "internal" ELSE "thread_doesnt_exist"]
        /\ UNCHANGED pending
  /\ UNCHANGED <<sigMutex, listMutex, sigact, heap, hand, alive, killed>>

UndoForgotten(t) ==
  /\ At(t, "undo") /\ Go(t, "unlock")
  /\ UNCHANGED <<sigMutex, listMutex, sigact, heap, hand, kernel>>

Undo(t) ==
  /\ At(t, "undo")
  /\ sigact' = call[t].oldact /\ Go(t, "unlock")
  /\ UNCHANGED <<sigMutex, listMutex, heap, hand, kernel>>

(***************************************************************************)
(* ThreadEntry::Wait(v) on the entry e: a look at wait_value_ under         *)
(* wait_mutex_, then (the places that end in b) a timed wait.  A timed wait *)
(* that runs out ends the loop without another look, so it may fail         *)
(* although the value has just become right.  Unless the system is Slow     *)
(* every thread gets its turn within the five seconds, and a wait runs out  *)
(* only when the other side is gone.                                        *)
(***************************************************************************)
Seen(e, v) == heap[e].wait_mutex = None /\ heap[e].wait_value = v
NotYet(e, v) == heap[e].wait_mutex = None /\ heap[e].wait_value # v
TimesOut(t) == Slow \/ call[t].target \notin alive

Wait1Again(t) ==
  /\ \/ At(t, "wait1") /\ NotYet(call[t].entry, 1) /\ Go(t, "wait1b")
     \/ /\ At(t, "wait1") \/ At(t, "wait1b")
        /\ Seen(call[t].entry, 1)
        /\ call' = [call EXCEPT ![t].pc = "restore", ![t].completed = TRUE]
     \/ At(t, "wait1b") /\ TimesOut(t) /\ Go(t, "wait1")
  /\ UNCHANGED <<sigMutex, listMutex, sigact, heap, hand, kernel>>

Wait1(t) ==
  /\ \/ At(t, "wait1") /\ NotYet(call[t].entry, 1) /\ Go(t, "wait1b")
     \/ /\ At(t, "wait1") \/ At(t, "wait1b")
        /\ Seen(call[t].entry, 1)
        /\ call' = [call EXCEPT ![t].pc = "restore", ![t].completed = TRUE]
     \/ /\ At(t, "wait1b") /\ TimesOut(t)
        /\ call' = [call EXCEPT ![t].pc = "restore", ![t].completed = FALSE]
  /\ UNCHANGED <<sigMutex, listMutex, sigact, heap, hand, kernel>>

RestoredAction(t) ==
  IF ~call[t].completed /\ call[t].oldact = "default" THEN "logonly" ELSE call[t].oldact

Restore(t) ==
  /\ At(t, "restore")
  /\ sigact' = RestoredAction(t) /\ Go(t, "sig_unlock")
  /\ UNCHANGED <<sigMutex, listMutex, heap, hand, kernel>>

UnlockSigaction(t) ==
  /\ At(t, "sig_unlock")
  /\ sigMutex' = None /\ Go(t, IF call[t].completed THEN "unwind" ELSE "check")
  /\ UNCHANGED <<listMutex, sigact, heap, hand, kernel>>

\* The unwind reads the saved ucontext and the stack of the thread under test.
UnwindFromContext(t) ==
  /\ At(t, "unwind") /\ Go(t, "wake")
  /\ UNCHANGED <<sigMutex, listMutex, sigact, heap, hand, kernel>>

\* ThreadEntry::Wake: wait_value_++ is a load and a store, under wait_mutex_.
WakeLoad(t) ==
  /\ At(t, "wake") /\ heap[call[t].entry].wait_mutex = None
  /\ heap' = [heap EXCEPT ![call[t].entry].wait_mutex = t]
  /\ call' = [call EXCEPT ![t].pc = "wake_w", ![t].tmp = heap[call[t].entry].wait_value]
  /\ UNCHANGED <<sigMutex, listMutex, sigact, hand, kernel>>

Woken(e, v) == [heap EXCEPT ![e].wait_value = v + 1, ![e].wait_mutex = None]

WakeStore(t) ==
  /\ At(t, "wake_w")
  /\ heap' = Woken(call[t].entry, call[t].tmp)
  /\ call' = [call EXCEPT ![t].pc = "wait3", ![t].tmp = 0]
  /\ UNCHANGED <<sigMutex, listMutex, sigact, hand, kernel>>

\* Running out of time here is only logged.
Wait3(t) ==
  /\ \/ At(t, "wait3") /\ NotYet(call[t].entry, 3) /\ Go(t, "wait3b")
     \/ (At(t, "wait3") \/ At(t, "wait3b")) /\ Seen(call[t].entry, 3) /\ Go(t, "unlock")
     \/ At(t, "wait3b") /\ TimesOut(t) /\ Go(t, "unlock")
  /\ UNCHANGED <<sigMutex, listMutex, sigact, heap, hand, kernel>>

\* After a failed Wait(1): tgkill with signal 0 picks the error code.
CheckGone(t) ==
  /\ At(t, "check")
  /\ call' = [call EXCEPT ![t].pc = "unlock", ![t].error =
                IF call[t].target \in alive THEN "thread_timeout" ELSE "thread_doesnt_exist"]
  /\ UNCHANGED <<sigMutex, listMutex, sigact, heap, hand, kernel>>

\* ThreadEntry::Remove: Unlock, then the count under list_mutex_.
Unlock(t) ==
  /\ At(t, "unlock")
  /\ heap' = [heap EXCEPT ![call[t].entry].mutex = None] /\ Go(t, "rm_lock")
  /\ UNCHANGED <<sigMutex, listMutex, sigact, hand, kernel>>

RemoveLock(t) ==
  /\ At(t, "rm_lock") /\ listMutex = None
  /\ listMutex' = t /\ Go(t, "rm")
  /\ UNCHANGED <<sigMutex, sigact, heap, hand, kernel>>

Unref(e) ==
  IF heap[e].ref_count = 1 THEN [heap EXCEPT ![e] = Freed]
                           ELSE [heap EXCEPT ![e].ref_count = @ - 1]

\* The error returns still hold g_sigaction_mutex when they call Remove.
Remove(t) ==
  /\ At(t, "rm")
  /\ heap' = Unref(call[t].entry)
  /\ call' = [call EXCEPT ![t].pc = IF sigMutex = t THEN "err_unlock" ELSE "idle",
                          ![t].entry = None]
  /\ listMutex' = None
  /\ UNCHANGED <<sigMutex, sigact, hand, kernel>>

ErrorUnlock(t) ==
  /\ At(t, "err_unlock")
  /\ sigMutex' = None /\ Go(t, "idle")
  /\ UNCHANGED <<listMutex, sigact, heap, hand, kernel>>
-----------------------------------------------------------------------------
(* The kernel, and SignalHandler on the thread under test *)

\* Delivery of the oldest queued signal, with the action of this moment.
Deliver(g) ==
  /\ ~killed /\ g \in alive /\ hand[g].pc = "idle" /\ pending[g] # <<>>
  /\ pending' = [pending EXCEPT ![g] = Tail(@)]
  /\ \/ /\ sigact = "handler" /\ UNCHANGED killed
        /\ hand' = [hand EXCEPT ![g].pc = "get_lock", ![g].sig = Head(pending[g])]
     \/ sigact \in {"user", "logonly"} /\ UNCHANGED <<hand, killed>>
     \/ sigact = "default" /\ killed' = TRUE /\ UNCHANGED hand
  /\ UNCHANGED <<sigMutex, listMutex, sigact, heap, call, alive>>

HandGetLock(g) ==
  /\ HandAt(g, "get_lock") /\ listMutex = None
  /\ listMutex' = g /\ HandGo(g, "get")
  /\ UNCHANGED <<sigMutex, sigact, heap, call, kernel>>

\* Get(getpid(), GetThreadId(), false); without an entry the handler returns.
HandGet(g) ==
  /\ HandAt(g, "get")
  /\ \/ \E e \in Matching(g) :
          /\ heap' = Ref(e)
          /\ hand' = [hand EXCEPT ![g].pc = "copy", ![g].entry = e]
     \/ /\ Matching(g) = {}
        /\ hand' = [hand EXCEPT ![g] = NoHandler]
        /\ UNCHANGED heap
  /\ listMutex' = None
  /\ UNCHANGED <<sigMutex, sigact, call, kernel>>

HandCopyUcontext(g) ==
  /\ HandAt(g, "copy")
  /\ heap' = [heap EXCEPT ![hand[g].entry].ucontext = hand[g].sig]
  /\ HandGo(g, "wake1")
  /\ UNCHANGED <<sigMutex, listMutex, sigact, call, kernel>>

HandWakeLoad(g) ==
  /\ HandAt(g, "wake1") \/ HandAt(g, "wake3")
  /\ heap[hand[g].entry].wait_mutex = None
  /\ heap' = [heap EXCEPT ![hand[g].entry].wait_mutex = g]
  /\ hand' = [hand EXCEPT ![g].pc = IF @ = "wake1" THEN "wake1_w" ELSE "wake3_w",
                          ![g].tmp = heap[hand[g].entry].wait_value]
  /\ UNCHANGED <<sigMutex, listMutex, sigact, call, kernel>>

HandWakeStore(g) ==
  /\ HandAt(g, "wake1_w") \/ HandAt(g, "wake3_w")
  /\ heap' = Woken(hand[g].entry, hand[g].tmp)
  /\ hand' = [hand EXCEPT ![g].pc = IF @ = "wake1_w" THEN "signal1" ELSE "signal3",
                          ![g].tmp = 0]
  /\ UNCHANGED <<sigMutex, listMutex, sigact, call, kernel>>

\* pthread_cond_signal comes after the unlock: the last use of the entry, at a
\* time when the other side may already have seen the new value.  After its
\* second Wake the handler returns and forgets the entry without a Remove.
HandSignal(g) ==
  /\ \/ HandAt(g, "signal1") /\ HandGo(g, "wait2")
     \/ HandAt(g, "signal3") /\ hand' = [hand EXCEPT ![g] = NoHandler]
  /\ UNCHANGED <<sigMutex, listMutex, sigact, heap, call, kernel>>

HandDoesNotWait(g) ==
  /\ HandAt(g, "wait2") /\ HandGo(g, "wake3")
  /\ UNCHANGED <<sigMutex, listMutex, sigact, heap, call, kernel>>

\* Wait(2); when it runs out the handler just returns.
HandWait2(g) ==
  /\ \/ HandAt(g, "wait2") /\ NotYet(hand[g].entry, 2) /\ HandGo(g, "wait2b")
     \/ /\ HandAt(g, "wait2") \/ HandAt(g, "wait2b")
        /\ Seen(hand[g].entry, 2) /\ HandGo(g, "wake3")
     \/ HandAt(g, "wait2b") /\ Slow /\ hand' = [hand EXCEPT ![g] = NoHandler]
  /\ UNCHANGED <<sigMutex, listMutex, sigact, heap, call, kernel>>

\* A thread exits; what was queued for it goes with it.
Exit(g) ==
  /\ At(g, "idle") /\ g \in MayExit
  /\ alive' = alive \ {g}
  /\ pending' = [pending EXCEPT ![g] = <<>>]
  /\ UNCHANGED <<sigMutex, listMutex, sigact, heap, call, hand, killed>>
-----------------------------------------------------------------------------
Init ==
  /\ sigMutex = None /\ listMutex = None
  /\ sigact = IF UserAction THEN "user" ELSE "default"
  /\ heap = [e \in Entries |-> Freed]
  /\ call = [t \in Threads |->
               [pc |-> "idle", target |-> t, entry |-> None, oldact |-> "default",
                completed |-> FALSE, tmp |-> 0, n |-> 0, error |-> "none"]]
  /\ hand = [t \in Threads |-> NoHandler]
  /\ pending = [t \in Threads |-> <<>>]
  /\ alive = Threads
  /\ killed = FALSE

CallStep(t) ==
  \/ LockSigaction(t) \/ GetLock(t) \/ Get(t) \/ Lock(t) \/ Install(t)
  \/ Kill(t) \/ Undo(t) \/ Wait1(t) \/ Restore(t) \/ UnlockSigaction(t)
  \/ UnwindFromContext(t) \/ WakeLoad(t) \/ WakeStore(t) \/ Wait3(t)
  \/ CheckGone(t) \/ Unlock(t) \/ RemoveLock(t) \/ Remove(t) \/ ErrorUnlock(t)

HandStep(t) ==
  \/ Deliver(t) \/ HandGetLock(t) \/ HandGet(t) \/ HandCopyUcontext(t)
  \/ HandWakeLoad(t) \/ HandWakeStore(t) \/ HandSignal(t) \/ HandWait2(t)

\* Every call and every handler has returned and no signal is on its way.
Quiescent ==
  \A t \in Threads : call[t].pc = "idle" /\ hand[t].pc = "idle" /\ pending[t] = <<>>
Finished == (killed \/ Quiescent) /\ UNCHANGED vars

Next ==
  \/ \E t, g \in Threads : Call(t, g)
  \/ \E t \in Threads : CallStep(t) \/ HandStep(t) \/ Exit(t)
  \/ Finished

\* Every thread is scheduled again and again, in its own code and in its handler.
Fairness == \A t \in Threads : WF_vars(CallStep(t)) /\ WF_vars(HandStep(t))

Spec == Init /\ [][Next]_vars /\ Fairness
-----------------------------------------------------------------------------
TypeOK ==
  /\ sigMutex \in Threads \cup {None}
  /\ listMutex \in Threads \cup {None}
  /\ sigact \in Actions
  /\ heap \in [Entries -> EntryObjects]
  /\ call \in [Threads -> Calls]
  /\ hand \in [Threads -> Handlers]
  /\ pending \in [Threads -> Seq(Signals)]
  /\ alive \in SUBSET Threads
  /\ killed \in BOOLEAN

\* Remove deletes a ThreadEntry only when no UnwindThread call and no
\* SignalHandler still has the pointer: every pointer in use is to a live
\* object, the one of the thread it is about.
NoUseAfterFree ==
  /\ \A t \in Threads : call[t].entry # None =>
       heap[call[t].entry].live /\ heap[call[t].entry].tid = call[t].target
  /\ \A g \in Threads : hand[g].entry # None =>
       heap[hand[g].entry].live /\ heap[hand[g].entry].tid = g

\* Whatever way a call ends, SignalHandler is not left installed: outside
\* g_sigaction_mutex the action is never the unwinder's.
HandlerNotLeftInstalled == sigact = "handler" => sigMutex # None

\* Two unwinds of one thread never overlap: between Lock and Unlock a call is
\* alone with the thread under test, its ucontext and its hand-shake.
InEntry(t) ==
  call[t].pc \in {"install", "kill", "undo", "wait1", "wait1b", "restore", "sig_unlock",
                  "unwind", "wake", "wake_w", "wait3", "wait3b", "check", "unlock"}
OneUnwindAtATime ==
  \A t, u \in Threads : InEntry(t) /\ InEntry(u) /\ call[t].target = call[u].target => t = u

\* When UnwindThread lets other unwinders continue after a successful Wait(1),
\* the thread under test has received the signal of this call.
ReceivedBeforeContinuing ==
  \A t \in Threads : call[t].pc = "sig_unlock" /\ call[t].completed =>
    \A i \in DOMAIN pending[call[t].target] :
      pending[call[t].target][i] # <<t, call[t].n>>

\* While a thread is being unwound it is paused in its SignalHandler, and the
\* ucontext that is read is the one saved for this call.
PausedWhileUnwound ==
  \A t \in Threads : ~killed /\ call[t].pc = "unwind" =>
    /\ heap[call[t].entry].ucontext = <<t, call[t].n>>
    /\ hand[call[t].target].pc \in {"signal1", "wait2", "wait2b"}
    /\ hand[call[t].target].entry = call[t].entry

\* A signal sent by UnwindThread never meets the default action.
NotKilled == ~killed

\* When no call and no handler is left, every ThreadEntry has been released.
EntriesReleased == Quiescent => \A e \in Entries : ~heap[e].live

\* Every UnwindThread call returns, and every thread that was stopped in its
\* SignalHandler goes on.
EveryoneReturns ==
  \A t \in Threads :
    /\ call[t].pc # "idle" ~> call[t].pc = "idle" \/ killed
    /\ hand[t].pc # "idle" ~> hand[t].pc = "idle" \/ killed
=============================================================================
