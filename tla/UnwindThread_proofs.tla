------------------------ MODULE UnwindThread_proofs ------------------------
(***************************************************************************)
(* Proofs about UnwindThread for any number of threads, entries and calls,  *)
(* slow or timely, whoever unwinds whom:                                    *)
(*   TypeCorrect      every variable keeps its type;                        *)
(*   HandlerRemoved   SignalHandler is never left installed;                *)
(*   PointersValid    no ThreadEntry is used after it was deleted;          *)
(*   UnwindsExclusive two unwinds of one thread never overlap.              *)
(* The inductive invariant is TypeInv /\ SigInv /\ EntryInv /\ MutexInv.    *)
(* When no wait runs out of its five seconds (Slow is FALSE), also:         *)
(*   SignalReceived   the mutex is given back after the signal has come;    *)
(*   PausedForUnwind  a thread stands in its handler while it is unwound;   *)
(*   NeverKilled      no signal meets the default action.                   *)
(***************************************************************************)
EXTENDS UnwindThread, FiniteSetTheorems, TLAPS

-----------------------------------------------------------------------------
(* Types *)

\* Where a call, or a handler, has a pointer to a ThreadEntry.
CallHolds(t) == call[t].pc \in {"lock", "rm_lock", "rm"} \/ InEntry(t)
HandHolds(g) == hand[g].pc \notin {"idle", "get_lock", "get"}
Pointers ==
  \A t \in Threads : /\ CallHolds(t) <=> call[t].entry # None
                     /\ HandHolds(t) <=> hand[t].entry # None

TypeInv == TypeOK /\ Pointers

\* TypeInv holds of the initial states.
LEMMA InitType == Init => TypeInv
<1> SUFFICES ASSUME Init PROVE TypeInv
  OBVIOUS
<1>1. heap \in [Entries -> EntryObjects]
  BY DEF Init, EntryObjects, Freed, Signals, NoSignal
<1>2. call \in [Threads -> Calls]
  BY DEF Init, Calls, CallPcs, Errors, Actions
<1>3. hand \in [Threads -> Handlers]
  BY DEF Init, Handlers, NoHandler, HandPcs
<1>4. TypeOK
  <2>1. pending \in [Threads -> Seq(Signals)]
    BY DEF Init
  <2>2. sigact \in Actions
    BY DEF Init, Actions
  <2> QED
    BY <1>1, <1>2, <1>3, <2>1, <2>2, Zenon DEF Init, TypeOK
<1>5. Pointers
  BY DEF Init, NoHandler, Pointers, CallHolds, HandHolds, InEntry
<1> QED
  BY <1>4, <1>5 DEF TypeInv

\* Membership of the places of a call and its errors
LEMMA Pcs ==
  /\ \A p \in {"idle", "sig_lock", "get_lock", "get", "lock", "install", "kill", "undo",
               "wait1", "wait1b", "restore", "sig_unlock", "unwind", "wake", "wake_w",
               "wait3", "wait3b", "check", "unlock", "rm_lock", "rm", "err_unlock"} :
       p \in CallPcs
  /\ \A x \in {"none", "thread_doesnt_exist", "thread_timeout", "internal"} : x \in Errors
  BY DEF CallPcs, Errors

\* Membership of the places of a handler
LEMMA HandPc ==
  \A p \in {"idle", "get_lock", "get", "copy", "wake1", "wake1_w", "signal1",
            "wait2", "wait2b", "wake3", "wake3_w", "signal3"} : p \in HandPcs
  BY DEF HandPcs

\* A pointer in use is the address of an entry.
LEMMA HeldEntry ==
  ASSUME TypeOK, Pointers, NEW t \in Threads
  PROVE  /\ CallHolds(t) => call[t].entry \in Entries
         /\ HandHolds(t) => hand[t].entry \in Entries
<1>1. call[t].entry \in Entries \cup {None}
  BY DEF TypeOK, Calls
<1>2. hand[t].entry \in Entries \cup {None}
  BY DEF TypeOK, Handlers
<1> QED
  BY <1>1, <1>2 DEF Pointers

\* The counters of an entry are naturals.
LEMMA EntryFields ==
  ASSUME heap \in [Entries -> EntryObjects], NEW e \in Entries
  PROVE  /\ heap[e].wait_value \in Nat /\ heap[e].ref_count \in Nat
  BY DEF EntryObjects


\* A step of UnwindThread keeps the type of the calls.
LEMMA CallTyped ==
  ASSUME TypeInv, NEW t \in Threads, CallStep(t)
  PROVE  call' \in [Threads -> Calls]
<1>0. /\ call \in [Threads -> Calls] /\ sigact \in Actions
      /\ heap \in [Entries -> EntryObjects]
  BY DEF TypeInv, TypeOK
<1>1. CASE LockSigaction(t)
  BY <1>0, <1>1, Pcs DEF LockSigaction, Go, Calls
<1>2. CASE GetLock(t)
  BY <1>0, <1>2, Pcs DEF GetLock, Go, Calls
<1>3. CASE Get(t)
  <2>1. PICK e \in Entries : call' = [call EXCEPT ![t].pc = "lock", ![t].entry = e]
    BY <1>3, Zenon DEF Get
  <2>2. e \in Entries \cup {None}
    OBVIOUS
  <2> QED
    BY <1>0, <2>1, <2>2, Pcs, ZenonT(30) DEF Calls
<1>4. CASE Lock(t)
  BY <1>0, <1>4, Pcs DEF Lock, Go, Calls
<1>5. CASE Install(t)
  BY <1>0, <1>5, Pcs DEF Install, Go, Calls
<1>6. CASE Kill(t)
  BY <1>0, <1>6, Pcs DEF Kill, Go, Calls
<1>7. CASE Undo(t)
  BY <1>0, <1>7, Pcs DEF Undo, Go, Calls
<1>8. CASE Wait1(t)
  BY <1>0, <1>8, Pcs DEF Wait1, Go, Calls
<1>9. CASE Restore(t)
  BY <1>0, <1>9, Pcs DEF Restore, Go, Calls
<1>10. CASE UnlockSigaction(t)
  BY <1>0, <1>10, Pcs DEF UnlockSigaction, Go, Calls
<1>11. CASE UnwindFromContext(t)
  BY <1>0, <1>11, Pcs DEF UnwindFromContext, Go, Calls
<1>12. CASE WakeLoad(t)
  <2>1. heap[call[t].entry].wait_value \in Nat
    BY <1>0, <1>12, HeldEntry, EntryFields DEF TypeInv, WakeLoad, At, CallHolds, InEntry
  <2>2. PICK v \in Nat : call' = [call EXCEPT ![t].pc = "wake_w", ![t].tmp = v]
    BY <1>12, <2>1, Zenon DEF WakeLoad
  <2> QED
    BY <1>0, <2>2, Pcs, ZenonT(30) DEF Calls
<1>13. CASE WakeStore(t)
  <2>1. PICK v \in Nat : call' = [call EXCEPT ![t].pc = "wait3", ![t].tmp = v]
    BY <1>13, Zenon DEF WakeStore
  <2> QED
    BY <1>0, <2>1, Pcs, Zenon DEF Calls
<1>14. CASE Wait3(t)
  BY <1>0, <1>14, Pcs DEF Wait3, Go, Calls
<1>15. CASE CheckGone(t)
  <2>1. PICK x \in Errors : call' = [call EXCEPT ![t].pc = "unlock", ![t].error = x]
    BY <1>15, Pcs, Zenon DEF CheckGone
  <2> QED
    BY <1>0, <2>1, Pcs, ZenonT(30) DEF Calls
<1>16. CASE Unlock(t)
  BY <1>0, <1>16, Pcs DEF Unlock, Go, Calls
<1>17. CASE RemoveLock(t)
  BY <1>0, <1>17, Pcs DEF RemoveLock, Go, Calls
<1>18. CASE Remove(t)
  <2>1. PICK p \in CallPcs, e \in Entries \cup {None} :
          call' = [call EXCEPT ![t].pc = p, ![t].entry = e]
    BY <1>18, Pcs, Zenon DEF Remove
  <2> QED
    BY <1>0, <2>1, Zenon DEF Calls
<1>19. CASE ErrorUnlock(t)
  BY <1>0, <1>19, Pcs DEF ErrorUnlock, Go, Calls
<1> QED
  BY <1>1, <1>2, <1>3, <1>4, <1>5, <1>6, <1>7, <1>8, <1>9, <1>10, <1>11,
     <1>12, <1>13, <1>14, <1>15, <1>16, <1>17, <1>18, <1>19 DEF CallStep

\* A step of SignalHandler keeps the type of the handlers.
LEMMA HandTyped ==
  ASSUME TypeInv, NEW g \in Threads, HandStep(g)
  PROVE  hand' \in [Threads -> Handlers]
<1>0. /\ hand \in [Threads -> Handlers] /\ pending \in [Threads -> Seq(Signals)]
      /\ heap \in [Entries -> EntryObjects]
  BY DEF TypeInv, TypeOK
<1>00. NoHandler \in Handlers
  BY HandPc DEF Handlers, NoHandler
<1>1. CASE Deliver(g)
  <2>1. pending[g] # <<>> => Head(pending[g]) \in Signals \cup {NoSignal}
    BY <1>0
  <2>2. CASE hand' = [hand EXCEPT ![g].pc = "get_lock", ![g].sig = Head(pending[g])]
    <3>1. PICK x \in Signals \cup {NoSignal} :
            hand' = [hand EXCEPT ![g].pc = "get_lock", ![g].sig = x]
      BY <1>1, <2>1, <2>2, Zenon DEF Deliver
    <3> QED
      BY <1>0, <3>1, HandPc, Zenon DEF Handlers
  <2> QED
    BY <1>0, <1>1, <2>2, Zenon DEF Deliver
<1>2. CASE HandGetLock(g)
  BY <1>0, <1>2, HandPc, Zenon DEF HandGetLock, HandGo, Handlers
<1>3. CASE HandGet(g)
  <2>1. CASE hand' = [hand EXCEPT ![g] = NoHandler]
    BY <1>0, <1>00, <2>1
  <2>2. ASSUME NEW e \in Entries, hand' = [hand EXCEPT ![g].pc = "copy", ![g].entry = e]
        PROVE  hand' \in [Threads -> Handlers]
    <3>1. e \in Entries \cup {None}
      OBVIOUS
    <3> QED
      BY <1>0, <2>2, <3>1, HandPc, Zenon DEF Handlers
  <2> QED
    BY <1>3, <2>1, <2>2 DEF HandGet, Matching
<1>4. CASE HandCopyUcontext(g)
  BY <1>0, <1>4, HandPc, Zenon DEF HandCopyUcontext, HandGo, Handlers
<1>5. CASE HandWakeLoad(g)
  <2>1. heap[hand[g].entry].wait_value \in Nat
    BY <1>0, <1>5, HeldEntry, EntryFields, Zenon DEF TypeInv, HandWakeLoad, HandAt, HandHolds
  <2>2. PICK v \in Nat, p \in HandPcs : hand' = [hand EXCEPT ![g].pc = p, ![g].tmp = v]
    BY <1>0, <1>5, <2>1, HandPc, Zenon DEF HandWakeLoad, Handlers
  <2> QED
    BY <1>0, <2>2, Zenon DEF Handlers
<1>6. CASE HandWakeStore(g)
  <2>1. PICK v \in Nat, p \in HandPcs : hand' = [hand EXCEPT ![g].pc = p, ![g].tmp = v]
    BY <1>0, <1>6, HandPc, Zenon DEF HandWakeStore, Handlers
  <2> QED
    BY <1>0, <2>1, Zenon DEF Handlers
<1>7. CASE HandSignal(g)
  <2>1. CASE HandGo(g, "wait2")
    BY <1>0, <2>1, HandPc, Zenon DEF HandGo, Handlers
  <2> QED
    BY <1>0, <1>00, <1>7, <2>1 DEF HandSignal
<1>8. CASE HandWait2(g)
  <2>1. ASSUME NEW p \in HandPcs, HandGo(g, p) PROVE hand' \in [Threads -> Handlers]
    BY <1>0, <2>1, Zenon DEF HandGo, Handlers
  <2> QED
    BY <1>0, <1>00, <1>8, <2>1, HandPc DEF HandWait2
<1> QED
  BY <1>1, <1>2, <1>3, <1>4, <1>5, <1>6, <1>7, <1>8 DEF HandStep

\* A new entry and a freed one have the type of entries.
LEMMA FreshObject ==
  /\ Freed \in EntryObjects
  /\ \A g \in Threads : NewEntry(g) \in EntryObjects
<1>1. Freed \in EntryObjects
  BY DEF Freed, EntryObjects, NoSignal
<1>2. ASSUME NEW g \in Threads PROVE NewEntry(g) \in EntryObjects
  BY <1>1, <1>2, Zenon DEF NewEntry, Freed, EntryObjects
<1> QED
  BY <1>1, <1>2

\* An object with other counters or owners is an object.
LEMMA ObjectUpdate ==
  ASSUME heap \in [Entries -> EntryObjects], NEW e \in Entries
  PROVE  /\ \A x \in EntryObjects : [heap EXCEPT ![e] = x] \in [Entries -> EntryObjects]
         /\ \A n \in Nat : [heap EXCEPT ![e].ref_count = n] \in [Entries -> EntryObjects]
         /\ \A o \in Threads \cup {None}, v \in Nat :
              /\ [heap EXCEPT ![e].mutex = o] \in [Entries -> EntryObjects]
              /\ [heap EXCEPT ![e].wait_mutex = o] \in [Entries -> EntryObjects]
              /\ [heap EXCEPT ![e].mutex = o, ![e].wait_value = v]
                   \in [Entries -> EntryObjects]
              /\ [heap EXCEPT ![e].wait_value = v, ![e].wait_mutex = o]
                   \in [Entries -> EntryObjects]
         /\ \A x \in Signals \cup {NoSignal} :
              [heap EXCEPT ![e].ucontext = x] \in [Entries -> EntryObjects]
<1>1. \A x \in EntryObjects : [heap EXCEPT ![e] = x] \in [Entries -> EntryObjects]
  OBVIOUS
<1>2. \A n \in Nat : [heap EXCEPT ![e].ref_count = n] \in [Entries -> EntryObjects]
  BY DEF EntryObjects
<1>3. ASSUME NEW o \in Threads \cup {None}, NEW v \in Nat
      PROVE  /\ [heap EXCEPT ![e].mutex = o] \in [Entries -> EntryObjects]
             /\ [heap EXCEPT ![e].wait_mutex = o] \in [Entries -> EntryObjects]
             /\ [heap EXCEPT ![e].mutex = o, ![e].wait_value = v]
                  \in [Entries -> EntryObjects]
             /\ [heap EXCEPT ![e].wait_value = v, ![e].wait_mutex = o]
                  \in [Entries -> EntryObjects]
  BY Zenon DEF EntryObjects
<1>4. \A x \in Signals \cup {NoSignal} :
        [heap EXCEPT ![e].ucontext = x] \in [Entries -> EntryObjects]
  BY DEF EntryObjects
<1> QED
  BY <1>1, <1>2, <1>3, <1>4, Zenon

\* A step keeps the type of the entries: what is released was counted.
LEMMA HeapTyped ==
  ASSUME TypeInv, NEW t \in Threads, CallStep(t) \/ HandStep(t),
         CallHolds(t) => heap[call[t].entry].ref_count > 0
  PROVE  heap' \in [Entries -> EntryObjects]
<1>0. /\ heap \in [Entries -> EntryObjects] /\ call \in [Threads -> Calls]
      /\ hand \in [Threads -> Handlers]
  BY DEF TypeInv, TypeOK
<1>00. /\ call[t].tmp \in Nat /\ hand[t].tmp \in Nat /\ call[t].target \in Threads
       /\ hand[t].sig \in Signals \cup {NoSignal}
  BY <1>0 DEF Calls, Handlers
<1>000. /\ CallHolds(t) => call[t].entry \in Entries
        /\ HandHolds(t) => hand[t].entry \in Entries
  BY HeldEntry DEF TypeInv
<1>1. ASSUME NEW e \in Entries PROVE Ref(e) \in [Entries -> EntryObjects]
  <2>1. heap[e].ref_count + 1 \in Nat
    BY <1>0, EntryFields
  <2> QED
    BY <1>0, <2>1, ObjectUpdate, Zenon DEF Ref
<1>2. ASSUME NEW e \in Entries, NEW v \in Nat PROVE Woken(e, v) \in [Entries -> EntryObjects]
  <2>1. v + 1 \in Nat /\ None \in Threads \cup {None}
    OBVIOUS
  <2> QED
    BY <1>0, <2>1, ObjectUpdate, Zenon DEF Woken
<1>3. CASE Get(t)
  <2>1. PICK e \in Entries : heap' = Ref(e) \/ heap' = [heap EXCEPT ![e] = NewEntry(call[t].target)]
    BY <1>3 DEF Get
  <2>2. NewEntry(call[t].target) \in EntryObjects
    BY <1>00, FreshObject
  <2>3. CASE heap' = Ref(e)
    BY <1>1, <2>3
  <2>4. CASE heap' = [heap EXCEPT ![e] = NewEntry(call[t].target)]
    BY <1>0, <2>2, <2>4
  <2> QED
    BY <2>1, <2>3, <2>4
<1>4. CASE Lock(t)
  BY <1>0, <1>000, <1>4, ObjectUpdate, Zenon DEF Lock, At, CallHolds
<1>5. CASE WakeLoad(t)
  BY <1>0, <1>000, <1>5, ObjectUpdate, Zenon DEF WakeLoad, At, CallHolds, InEntry
<1>6. CASE WakeStore(t)
  BY <1>00, <1>000, <1>2, <1>6 DEF WakeStore, At, CallHolds, InEntry
<1>7. CASE Unlock(t)
  BY <1>0, <1>000, <1>7, ObjectUpdate, Zenon DEF Unlock, At, CallHolds, InEntry
<1>8. CASE Remove(t)
  <2>1. call[t].entry \in Entries
    BY <1>000, <1>8 DEF Remove, At, CallHolds
  <2>2. PICK e \in Entries : heap' = Unref(e) /\ heap[e].ref_count > 0
    BY <1>8, <2>1 DEF Remove, At, CallHolds
  <2>3. CASE heap[e].ref_count = 1
    BY <1>0, <2>2, <2>3, FreshObject DEF Unref
  <2>4. CASE heap[e].ref_count # 1
    <3>1. heap[e].ref_count - 1 \in Nat
      BY <1>0, <2>2, EntryFields
    <3> QED
      BY <1>0, <2>2, <2>4, <3>1, ObjectUpdate, Zenon DEF Unref
  <2> QED
    BY <2>3, <2>4
<1>9. CASE HandGet(t)
  <2>1. UNCHANGED heap \/ \E e \in Entries : heap' = Ref(e)
    BY <1>9 DEF HandGet, Matching
  <2> QED
    BY <1>0, <1>1, <2>1
<1>10. CASE HandCopyUcontext(t)
  <2>1. hand[t].entry \in Entries
    BY <1>000, <1>10 DEF HandCopyUcontext, HandAt, HandHolds
  <2> QED
    BY <1>0, <1>00, <1>10, <2>1, ObjectUpdate, Zenon DEF HandCopyUcontext
<1>11. CASE HandWakeLoad(t)
  BY <1>0, <1>000, <1>11, ObjectUpdate, Zenon DEF HandWakeLoad, HandAt, HandHolds
<1>12. CASE HandWakeStore(t)
  BY <1>00, <1>000, <1>2, <1>12 DEF HandWakeStore, HandAt, HandHolds
<1>13. ASSUME UNCHANGED heap PROVE heap' \in [Entries -> EntryObjects]
  BY <1>0, <1>13
<1> QED
  BY <1>3, <1>4, <1>5, <1>6, <1>7, <1>8, <1>9, <1>10, <1>11, <1>12, <1>13, SMTT(30)
  DEF CallStep, HandStep, LockSigaction, GetLock, Install, Kill, Undo, Wait1, Restore,
      UnlockSigaction, UnwindFromContext, Wait3, CheckGone, RemoveLock, ErrorUnlock,
      Deliver, HandGetLock, HandSignal, HandWait2

\* The places of a call, or of a handler, and its pointer change together.
LEMMA PointersCall ==
  ASSUME call \in [Threads -> Calls], Pointers, NEW t \in Threads, CallStep(t)
  PROVE  Pointers'
<1>0. None \notin Entries
  BY ThreadsAssumption, SMTT(30)
<1>00. UNCHANGED hand
  BY DEF CallStep, LockSigaction, GetLock, Get, Lock, Install, Kill, Undo, Wait1, Restore,
         UnlockSigaction, UnwindFromContext, WakeLoad, WakeStore, Wait3, CheckGone, Unlock,
         RemoveLock, Remove, ErrorUnlock
<1>1. CASE LockSigaction(t)
  BY <1>0, <1>00, <1>1 DEF LockSigaction, At, Go, Calls, Pointers, CallHolds, HandHolds, InEntry
<1>2. CASE GetLock(t)
  BY <1>0, <1>00, <1>2 DEF GetLock, At, Go, Calls, Pointers, CallHolds, HandHolds, InEntry
<1>3. CASE Get(t)
  BY <1>0, <1>00, <1>3 DEF Get, At, Go, Calls, Pointers, CallHolds, HandHolds, InEntry
<1>4. CASE Lock(t)
  BY <1>0, <1>00, <1>4 DEF Lock, At, Go, Calls, Pointers, CallHolds, HandHolds, InEntry
<1>5. CASE Install(t)
  BY <1>0, <1>00, <1>5, SMTT(30) DEF Install, At, Go, Calls, Pointers, CallHolds, HandHolds, InEntry
<1>6. CASE Kill(t)
  <2>1. CASE Go(t, "wait1")
    BY <1>0, <1>00, <1>6, <2>1 DEF Kill, At, Go, Calls, Pointers, CallHolds, HandHolds, InEntry
  <2>2. PICK x : Go(t, "wait1") \/ call' = [call EXCEPT ![t].pc = "undo", ![t].error = x]
    BY <1>6 DEF Kill
  <2>3. CASE call' = [call EXCEPT ![t].pc = "undo", ![t].error = x]
    BY <1>0, <1>00, <1>6, <2>3 DEF Kill, At, Calls, Pointers, CallHolds, HandHolds, InEntry
  <2> QED
    BY <2>1, <2>2, <2>3
<1>7. CASE Undo(t)
  BY <1>0, <1>00, <1>7 DEF Undo, At, Go, Calls, Pointers, CallHolds, HandHolds, InEntry
<1>8. CASE Wait1(t)
  <2>1. call[t].pc \in {"wait1", "wait1b"}
    BY <1>8 DEF Wait1, At
  <2>2. CASE Go(t, "wait1b")
    BY <1>0, <1>00, <2>1, <2>2 DEF Go, Calls, Pointers, CallHolds, HandHolds, InEntry
  <2>3. ASSUME NEW b \in BOOLEAN,
               call' = [call EXCEPT ![t].pc = "restore", ![t].completed = b]
        PROVE  Pointers'
    BY <1>0, <1>00, <2>1, <2>3 DEF Calls, Pointers, CallHolds, HandHolds, InEntry
  <2> QED
    BY <1>8, <2>2, <2>3, Zenon DEF Wait1
<1>9. CASE Restore(t)
  BY <1>0, <1>00, <1>9 DEF Restore, At, Go, Calls, Pointers, CallHolds, HandHolds, InEntry
<1>10. CASE UnlockSigaction(t)
  BY <1>0, <1>00, <1>10 DEF UnlockSigaction, At, Go, Calls, Pointers, CallHolds, HandHolds, InEntry
<1>11. CASE UnwindFromContext(t)
  BY <1>0, <1>00, <1>11 DEF UnwindFromContext, At, Go, Calls, Pointers, CallHolds, HandHolds, InEntry
<1>12. CASE WakeLoad(t)
  BY <1>0, <1>00, <1>12 DEF WakeLoad, At, Go, Calls, Pointers, CallHolds, HandHolds, InEntry
<1>13. CASE WakeStore(t)
  BY <1>0, <1>00, <1>13 DEF WakeStore, At, Go, Calls, Pointers, CallHolds, HandHolds, InEntry
<1>14. CASE Wait3(t)
  BY <1>0, <1>00, <1>14 DEF Wait3, At, Go, Calls, Pointers, CallHolds, HandHolds, InEntry
<1>15. CASE CheckGone(t)
  BY <1>0, <1>00, <1>15 DEF CheckGone, At, Go, Calls, Pointers, CallHolds, HandHolds, InEntry
<1>16. CASE Unlock(t)
  BY <1>0, <1>00, <1>16 DEF Unlock, At, Go, Calls, Pointers, CallHolds, HandHolds, InEntry
<1>17. CASE RemoveLock(t)
  BY <1>0, <1>00, <1>17 DEF RemoveLock, At, Go, Calls, Pointers, CallHolds, HandHolds, InEntry
<1>18. CASE Remove(t)
  BY <1>0, <1>00, <1>18 DEF Remove, At, Go, Calls, Pointers, CallHolds, HandHolds, InEntry
<1>19. CASE ErrorUnlock(t)
  BY <1>0, <1>00, <1>19 DEF ErrorUnlock, At, Go, Calls, Pointers, CallHolds, HandHolds, InEntry
<1> QED
  BY <1>1, <1>2, <1>3, <1>4, <1>5, <1>6, <1>7, <1>8, <1>9, <1>10, <1>11,
     <1>12, <1>13, <1>14, <1>15, <1>16, <1>17, <1>18, <1>19 DEF CallStep

\* A step of SignalHandler has a pointer exactly at its places.
LEMMA PointersHand ==
  ASSUME hand \in [Threads -> Handlers], Pointers, NEW g \in Threads, HandStep(g)
  PROVE  Pointers'
<1>0. None \notin Entries
  BY ThreadsAssumption
<1>00. UNCHANGED call
  BY DEF HandStep, Deliver, HandGetLock, HandGet, HandCopyUcontext, HandWakeLoad,
         HandWakeStore, HandSignal, HandWait2
<1>1. CASE Deliver(g)
  BY <1>0, <1>00, <1>1 DEF Deliver, HandAt, HandGo, Handlers, NoHandler, Matching, Pointers,
     CallHolds, HandHolds, InEntry
<1>2. CASE HandGetLock(g)
  BY <1>0, <1>00, <1>2 DEF HandGetLock, HandAt, HandGo, Handlers, NoHandler, Matching, Pointers,
     CallHolds, HandHolds, InEntry
<1>3. CASE HandGet(g)
  BY <1>0, <1>00, <1>3 DEF HandGet, HandAt, HandGo, Handlers, NoHandler, Matching, Pointers,
     CallHolds, HandHolds, InEntry
<1>4. CASE HandCopyUcontext(g)
  BY <1>0, <1>00, <1>4 DEF HandCopyUcontext, HandAt, HandGo, Handlers, NoHandler, Matching, Pointers,
     CallHolds, HandHolds, InEntry
<1>5. CASE HandWakeLoad(g)
  BY <1>0, <1>00, <1>5 DEF HandWakeLoad, HandAt, HandGo, Handlers, NoHandler, Matching, Pointers,
     CallHolds, HandHolds, InEntry
<1>6. CASE HandWakeStore(g)
  BY <1>0, <1>00, <1>6 DEF HandWakeStore, HandAt, HandGo, Handlers, NoHandler, Matching, Pointers,
     CallHolds, HandHolds, InEntry
<1>7. CASE HandSignal(g)
  BY <1>0, <1>00, <1>7 DEF HandSignal, HandAt, HandGo, Handlers, NoHandler, Matching, Pointers,
     CallHolds, HandHolds, InEntry
<1>8. CASE HandWait2(g)
  BY <1>0, <1>00, <1>8 DEF HandWait2, HandAt, HandGo, Handlers, NoHandler, Matching, Pointers,
     CallHolds, HandHolds, InEntry
<1> QED
  BY <1>1, <1>2, <1>3, <1>4, <1>5, <1>6, <1>7, <1>8 DEF HandStep

\* A new call keeps TypeInv.
LEMMA CallBegins ==
  ASSUME TypeInv, NEW t \in Threads, NEW g \in Threads, Call(t, g)
  PROVE  TypeInv'
<1>0. call \in [Threads -> Calls] /\ Pointers
  BY DEF TypeInv, TypeOK
<1>1. call' \in [Threads -> Calls]
  <2>1. "sig_lock" \in CallPcs /\ "none" \in Errors
    BY Pcs
  <2> QED
    BY <1>0, <2>1 DEF Call, Calls
<1>2. Pointers'
  BY <1>0 DEF Call, At, Calls, Pointers, CallHolds, HandHolds, InEntry
<1> QED
  BY <1>1, <1>2 DEF Call, TypeInv, TypeOK, kernel

\* Every step keeps TypeInv, if the pointers are counted.
LEMMA TypeStep ==
  ASSUME TypeInv, [Next]_vars,
         \A t \in Threads : CallHolds(t) => heap[call[t].entry].ref_count > 0
  PROVE  TypeInv'
<1>0. /\ call \in [Threads -> Calls] /\ hand \in [Threads -> Handlers] /\ Pointers
      /\ heap \in [Entries -> EntryObjects] /\ pending \in [Threads -> Seq(Signals)]
  BY DEF TypeInv, TypeOK
<1>1. ASSUME NEW t \in Threads, NEW g \in Threads, Call(t, g) PROVE TypeInv'
  BY <1>1, CallBegins
<1>2. ASSUME NEW t \in Threads, CallStep(t) PROVE TypeInv'
  <2>1. call' \in [Threads -> Calls] /\ heap' \in [Entries -> EntryObjects] /\ Pointers'
    BY <1>0, <1>2, CallTyped, HeapTyped, PointersCall, SMTT(30)
  <2>2. sigMutex' \in Threads \cup {None} /\ listMutex' \in Threads \cup {None}
    BY <1>2 DEF TypeInv, TypeOK, CallStep, LockSigaction, GetLock, Get, Lock, Install, Kill,
       Undo, Wait1, Restore, UnlockSigaction, UnwindFromContext, WakeLoad, WakeStore, Wait3,
       CheckGone, Unlock, RemoveLock, Remove, ErrorUnlock
  <2>3. sigact' \in Actions
    <3>1. sigact \in Actions /\ call[t].oldact \in Actions
      BY <1>0 DEF TypeInv, TypeOK, Calls
    <3>2. sigact' \in {sigact, call[t].oldact, "handler", "logonly"}
      BY <1>2, Zenon DEF CallStep, LockSigaction, GetLock, Get, Lock, Install, Kill, Undo, Wait1,
         Restore, RestoredAction, UnlockSigaction, UnwindFromContext, WakeLoad, WakeStore,
         Wait3, CheckGone, Unlock, RemoveLock, Remove, ErrorUnlock
    <3> QED
      BY <3>1, <3>2 DEF Actions
  <2>4. pending' \in [Threads -> Seq(Signals)]
    <3>1. <<t, call[t].n>> \in Signals /\ call[t].target \in Threads
      BY <1>0 DEF Calls, Signals
    <3>2. \/ UNCHANGED pending
          \/ pending' = [pending EXCEPT ![call[t].target] = Append(@, <<t, call[t].n>>)]
      BY <1>2, Zenon DEF CallStep, LockSigaction, GetLock, Get, Lock, Install, Kill, Undo, Wait1,
         Restore, UnlockSigaction, UnwindFromContext, WakeLoad, WakeStore, Wait3, CheckGone,
         Unlock, RemoveLock, Remove, ErrorUnlock, kernel
    <3>3. \A u \in Threads, x \in Signals : Append(pending[u], x) \in Seq(Signals)
      BY <1>0
    <3>4. Append(pending[call[t].target], <<t, call[t].n>>) \in Seq(Signals)
      BY <3>1, <3>3
    <3> QED
      BY <1>0, <3>2, <3>4, Zenon
  <2>5. UNCHANGED <<hand, alive, killed>>
    BY <1>2, Zenon DEF CallStep, LockSigaction, GetLock, Get, Lock, Install, Kill, Undo, Wait1,
       Restore, UnlockSigaction, UnwindFromContext, WakeLoad, WakeStore, Wait3, CheckGone,
       Unlock, RemoveLock, Remove, ErrorUnlock, kernel
  <2> QED
    BY <2>1, <2>2, <2>3, <2>4, <2>5 DEF TypeInv, TypeOK
<1>3. ASSUME NEW t \in Threads, HandStep(t) PROVE TypeInv'
  <2>1. hand' \in [Threads -> Handlers] /\ heap' \in [Entries -> EntryObjects] /\ Pointers'
    BY <1>0, <1>3, HandTyped, HeapTyped, PointersHand
  <2>2. listMutex' \in Threads \cup {None} /\ killed' \in BOOLEAN
    BY <1>3, Zenon DEF TypeInv, TypeOK, HandStep, Deliver, HandGetLock, HandGet, HandCopyUcontext,
       HandWakeLoad, HandWakeStore, HandSignal, HandWait2, kernel
  <2>3. pending' \in [Threads -> Seq(Signals)]
    <3>1. UNCHANGED pending \/ (pending[t] # <<>> /\ pending' = [pending EXCEPT ![t] = Tail(@)])
      BY <1>3 DEF HandStep, Deliver, HandGetLock, HandGet, HandCopyUcontext, HandWakeLoad,
         HandWakeStore, HandSignal, HandWait2, kernel
    <3>2. pending[t] # <<>> => Tail(pending[t]) \in Seq(Signals)
      BY <1>0
    <3> QED
      BY <1>0, <3>1, <3>2, Zenon
  <2>4. UNCHANGED <<sigMutex, sigact, call, alive>>
    BY <1>3 DEF HandStep, Deliver, HandGetLock, HandGet, HandCopyUcontext, HandWakeLoad,
       HandWakeStore, HandSignal, HandWait2, kernel
  <2> QED
    BY <2>1, <2>2, <2>3, <2>4 DEF TypeInv, TypeOK
<1>4. ASSUME NEW t \in Threads, Exit(t) PROVE TypeInv'
  <2>1. pending' \in [Threads -> Seq(Signals)] /\ Pointers'
    BY <1>0, <1>4 DEF Exit, Pointers, CallHolds, HandHolds, InEntry
  <2> QED
    BY <1>4, <2>1 DEF Exit, TypeInv, TypeOK
<1>5. CASE UNCHANGED vars
  BY <1>5 DEF vars, kernel, TypeInv, TypeOK, Pointers, CallHolds, HandHolds, InEntry
<1> QED
  BY <1>1, <1>2, <1>3, <1>4, <1>5 DEF Next, Finished
-----------------------------------------------------------------------------
(* The signal action *)

\* The places where g_sigaction_mutex is held whatever the path (the three
\* places of Remove are reached with and without it), and those where the
\* action is SignalHandler.
InSig(t) == call[t].pc \in {"get_lock", "get", "lock", "install", "kill", "undo",
                            "wait1", "wait1b", "restore", "sig_unlock", "err_unlock"}
Installed(t) == call[t].pc \in {"kill", "undo", "wait1", "wait1b", "restore"}
SigInv ==
  /\ \A t \in Threads : InSig(t) => sigMutex = t
  /\ \A t \in Threads : Installed(t) => call[t].oldact # "handler"
  /\ sigact = "handler" => \E t \in Threads : Installed(t)

\* A step of UnwindThread keeps SigInv.
LEMMA SigStep ==
  ASSUME call \in [Threads -> Calls], SigInv, NEW t \in Threads, CallStep(t)
  PROVE  SigInv'
<1>0. None \notin Threads
  BY ThreadsAssumption
<1>1. CASE LockSigaction(t)
  BY <1>0, <1>1 DEF LockSigaction, At, Go, Calls, SigInv, InSig, Installed
<1>2. CASE GetLock(t)
  BY <1>0, <1>2 DEF GetLock, At, Go, Calls, SigInv, InSig, Installed
<1>3. CASE Get(t)
  BY <1>0, <1>3 DEF Get, At, Go, Calls, SigInv, InSig, Installed
<1>4. CASE Lock(t)
  BY <1>0, <1>4 DEF Lock, At, Go, Calls, SigInv, InSig, Installed
<1>5. CASE Install(t)
  BY <1>0, <1>5 DEF Install, At, Go, Calls, SigInv, InSig, Installed
<1>6. CASE Kill(t)
  BY <1>0, <1>6 DEF Kill, At, Go, Calls, SigInv, InSig, Installed
<1>7. CASE Undo(t)
  BY <1>0, <1>7 DEF Undo, At, Go, Calls, SigInv, InSig, Installed
<1>8. CASE Wait1(t)
  BY <1>0, <1>8 DEF Wait1, At, Go, Calls, SigInv, InSig, Installed
<1>9. CASE Restore(t)
  BY <1>0, <1>9 DEF Restore, At, Go, RestoredAction, Calls, SigInv, InSig, Installed
<1>10. CASE UnlockSigaction(t)
  BY <1>0, <1>10 DEF UnlockSigaction, At, Go, Calls, SigInv, InSig, Installed
<1>11. CASE UnwindFromContext(t)
  BY <1>0, <1>11 DEF UnwindFromContext, At, Go, Calls, SigInv, InSig, Installed
<1>12. CASE WakeLoad(t)
  BY <1>0, <1>12 DEF WakeLoad, At, Go, Calls, SigInv, InSig, Installed
<1>13. CASE WakeStore(t)
  BY <1>0, <1>13 DEF WakeStore, At, Go, Calls, SigInv, InSig, Installed
<1>14. CASE Wait3(t)
  BY <1>0, <1>14 DEF Wait3, At, Go, Calls, SigInv, InSig, Installed
<1>15. CASE CheckGone(t)
  BY <1>0, <1>15 DEF CheckGone, At, Go, Calls, SigInv, InSig, Installed
<1>16. CASE Unlock(t)
  BY <1>0, <1>16 DEF Unlock, At, Go, Calls, SigInv, InSig, Installed
<1>17. CASE RemoveLock(t)
  BY <1>0, <1>17 DEF RemoveLock, At, Go, Calls, SigInv, InSig, Installed
<1>18. CASE Remove(t)
  BY <1>0, <1>18 DEF Remove, At, Go, Calls, SigInv, InSig, Installed
<1>19. CASE ErrorUnlock(t)
  BY <1>0, <1>19 DEF ErrorUnlock, At, Go, Calls, SigInv, InSig, Installed
<1> QED
  BY <1>1, <1>2, <1>3, <1>4, <1>5, <1>6, <1>7, <1>8, <1>9, <1>10, <1>11,
     <1>12, <1>13, <1>14, <1>15, <1>16, <1>17, <1>18, <1>19 DEF CallStep

\* Every step keeps SigInv.
LEMMA SigNext ==
  ASSUME TypeInv, SigInv, [Next]_vars
  PROVE  SigInv'
<1>0. call \in [Threads -> Calls]
  BY DEF TypeInv, TypeOK
<1>1. ASSUME NEW t \in Threads, NEW g \in Threads, Call(t, g) PROVE SigInv'
  BY <1>0, <1>1 DEF Call, At, Calls, SigInv, InSig, Installed
<1>2. ASSUME NEW t \in Threads, CallStep(t) PROVE SigInv'
  BY <1>0, <1>2, SigStep
<1>3. ASSUME UNCHANGED <<sigMutex, sigact, call>> PROVE SigInv'
  BY <1>3 DEF SigInv, InSig, Installed
<1>4. ASSUME NEW t \in Threads, HandStep(t) \/ Exit(t) PROVE UNCHANGED <<sigMutex, sigact, call>>
  BY <1>4 DEF HandStep, Deliver, HandGetLock, HandGet, HandCopyUcontext, HandWakeLoad,
     HandWakeStore, HandSignal, HandWait2, Exit
<1> QED
  BY <1>1, <1>2, <1>3, <1>4 DEF Next, Finished, vars

-----------------------------------------------------------------------------
(* The entries *)

\* Get never makes a second ThreadEntry for a thread that has one.
OneEntryPerThread ==
  \A e, f \in Entries :
    heap[e].live /\ heap[f].live /\ heap[e].tid = heap[f].tid => e = f

\* ref_count_ covers every pointer.  It may be larger: a handler does not give
\* its reference back.
Callers(e) == {t \in Threads : call[t].entry = e}
HandlersOn(e) == {g \in Threads : hand[g].entry = e}
Counted ==
  \A e \in Entries : heap[e].live =>
    heap[e].ref_count >= Cardinality(Callers(e)) + Cardinality(HandlersOn(e))

EntryInv == NoUseAfterFree /\ OneEntryPerThread /\ Counted

\* What an action has to leave alone for EntryInv to stay true.
PointersKept ==
  \A t \in Threads : /\ call'[t].entry = call[t].entry
                     /\ call[t].entry # None => call'[t].target = call[t].target
                     /\ hand'[t].entry = hand[t].entry
ObjectsKept ==
  \A e \in Entries : /\ heap'[e].live = heap[e].live
                     /\ heap'[e].tid = heap[e].tid
                     /\ heap'[e].ref_count = heap[e].ref_count

\* A step that keeps pointers and objects keeps EntryInv.
LEMMA EntryFrame ==
  ASSUME TypeInv, EntryInv, PointersKept, ObjectsKept
  PROVE  EntryInv'
<1>1. NoUseAfterFree' /\ OneEntryPerThread'
  <2>1. \A t \in Threads : /\ call[t].entry # None => call[t].entry \in Entries
                           /\ hand[t].entry # None => hand[t].entry \in Entries
    BY HeldEntry DEF TypeInv, Pointers
  <2> QED
    BY <2>1 DEF EntryInv, NoUseAfterFree, OneEntryPerThread, PointersKept, ObjectsKept
<1>2. \A e \in Entries : Callers(e)' = Callers(e) /\ HandlersOn(e)' = HandlersOn(e)
  BY DEF PointersKept, Callers, HandlersOn
<1>3. Counted'
  BY <1>2 DEF EntryInv, Counted, ObjectsKept
<1> QED
  BY <1>1, <1>3 DEF EntryInv

\* The pointers to an entry can be counted.
LEMMA PointerSets ==
  ASSUME NEW e
  PROVE  /\ IsFiniteSet(Callers(e)) /\ IsFiniteSet(HandlersOn(e))
         /\ Cardinality(Callers(e)) \in Nat /\ Cardinality(HandlersOn(e)) \in Nat
<1>1. Callers(e) \subseteq Threads /\ HandlersOn(e) \subseteq Threads
  BY DEF Callers, HandlersOn
<1>2. IsFiniteSet(Callers(e)) /\ IsFiniteSet(HandlersOn(e))
  BY <1>1, ThreadsAssumption, FS_Subset
<1> QED
  BY <1>2, FS_CardinalityType

\* A pointer in use is counted, and one that is counted alone is the only one.
LEMMA HeldCounted ==
  ASSUME TypeInv, EntryInv, NEW t \in Threads, CallHolds(t)
  PROVE  /\ heap[call[t].entry].ref_count > 0
         /\ heap[call[t].entry].ref_count = 1 =>
              /\ Callers(call[t].entry) = {t}
              /\ HandlersOn(call[t].entry) = {}
<1> DEFINE e == call[t].entry
<1>1. e \in Entries /\ heap[e].live /\ t \in Callers(e)
  BY HeldEntry DEF TypeInv, EntryInv, NoUseAfterFree, Callers, Pointers
<1>2. heap[e].ref_count \in Nat
  BY <1>1, EntryFields DEF TypeInv, TypeOK
<1>3. heap[e].ref_count >= Cardinality(Callers(e)) + Cardinality(HandlersOn(e))
  BY <1>1 DEF EntryInv, Counted
<1>4. /\ IsFiniteSet(Callers(e) \ {t})
      /\ Cardinality(Callers(e) \ {t}) = Cardinality(Callers(e)) - 1
      /\ Cardinality(Callers(e) \ {t}) \in Nat
  BY <1>1, PointerSets, FS_RemoveElement, FS_CardinalityType
<1>5. Cardinality(Callers(e)) \in Nat /\ Cardinality(HandlersOn(e)) \in Nat
  BY PointerSets
<1>6. heap[e].ref_count > 0
  BY <1>2, <1>3, <1>4, <1>5
<1>7. ASSUME heap[e].ref_count = 1 PROVE Callers(e) = {t} /\ HandlersOn(e) = {}
  <2>1. Cardinality(Callers(e) \ {t}) = 0 /\ Cardinality(HandlersOn(e)) = 0
    BY <1>2, <1>3, <1>4, <1>5, <1>7
  <2>2. Callers(e) \ {t} = {} /\ HandlersOn(e) = {}
    BY <1>4, <2>1, PointerSets, FS_EmptySet, SMTT(30)
  <2> QED
    BY <1>1, <2>2
<1> QED
  BY <1>6, <1>7


\* Most steps of a call leave the pointers and the counts alone.
LEMMA CallKeeps ==
  ASSUME TypeInv, NEW t \in Threads, CallStep(t), ~Get(t), ~Remove(t)
  PROVE  PointersKept /\ ObjectsKept
<1>0. /\ call \in [Threads -> Calls] /\ heap \in [Entries -> EntryObjects]
      /\ CallHolds(t) => call[t].entry \in Entries
  BY HeldEntry DEF TypeInv, TypeOK
<1>1. UNCHANGED hand
  BY ZenonT(30) DEF CallStep, LockSigaction, GetLock, Get, Lock, Install, Kill, Undo, Wait1, Restore,
         UnlockSigaction, UnwindFromContext, WakeLoad, WakeStore, Wait3, CheckGone, Unlock,
         RemoveLock, Remove, ErrorUnlock
<1>2. PointersKept
  BY <1>0, <1>1 DEF CallStep, LockSigaction, GetLock, Lock, Install, Kill, Undo, Wait1,
     Restore, UnlockSigaction, UnwindFromContext, WakeLoad, WakeStore, Wait3, CheckGone,
     Unlock, RemoveLock, ErrorUnlock, Go, Calls, PointersKept
<1>3. CASE Lock(t) \/ WakeLoad(t) \/ WakeStore(t) \/ Unlock(t)
  BY <1>0, <1>2, <1>3 DEF Lock, WakeLoad, WakeStore, Woken, Unlock, EntryObjects, ObjectsKept
<1>4. CASE UNCHANGED heap
  BY <1>2, <1>4 DEF ObjectsKept
<1> QED
  BY <1>3, <1>4 DEF CallStep, LockSigaction, GetLock, Install, Kill, Undo, Wait1, Restore,
     UnlockSigaction, UnwindFromContext, Wait3, CheckGone, RemoveLock, ErrorUnlock

\* The steps of SignalHandler that keep pointers and objects
LEMMA HandKeeps ==
  ASSUME TypeInv, NEW g \in Threads,
         \/ Deliver(g) \/ HandGetLock(g) \/ HandCopyUcontext(g) \/ HandWakeLoad(g)
         \/ HandWakeStore(g)
  PROVE  PointersKept /\ ObjectsKept
<1>0. hand \in [Threads -> Handlers] /\ heap \in [Entries -> EntryObjects]
  BY DEF TypeInv, TypeOK
<1>1. UNCHANGED call
  BY DEF Deliver, HandGetLock, HandCopyUcontext, HandWakeLoad, HandWakeStore
<1>2. PointersKept
  <2>1. CASE Deliver(g)
    BY <1>0, <1>1, <2>1, SMTT(60) DEF Deliver, Handlers, PointersKept
  <2>2. CASE HandGetLock(g) \/ HandCopyUcontext(g)
    BY <1>0, <1>1, <2>2 DEF HandGetLock, HandCopyUcontext, HandGo, Handlers, PointersKept
  <2>3. CASE HandWakeLoad(g) \/ HandWakeStore(g)
    BY <1>0, <1>1, <2>3 DEF HandWakeLoad, HandWakeStore, Handlers, PointersKept
  <2> QED
    BY <2>1, <2>2, <2>3
<1>3. CASE HandCopyUcontext(g) \/ HandWakeLoad(g) \/ HandWakeStore(g)
  BY <1>0, <1>2, <1>3 DEF HandCopyUcontext, HandWakeLoad, HandWakeStore, Woken,
     EntryObjects, ObjectsKept
<1>4. CASE UNCHANGED heap
  BY <1>2, <1>4 DEF ObjectsKept
<1> QED
  BY <1>3, <1>4 DEF Deliver, HandGetLock

\* ThreadEntry::Get in UnwindThread counts its pointer.
LEMMA GetKeeps ==
  ASSUME TypeInv, EntryInv, NEW t \in Threads, Get(t)
  PROVE  EntryInv'
<1>0. /\ call \in [Threads -> Calls] /\ heap \in [Entries -> EntryObjects]
      /\ call[t].target \in Threads /\ call[t].entry = None /\ None \notin Entries
  BY ThreadsAssumption, Zenon DEF TypeInv, TypeOK, Pointers, CallHolds, InEntry, Get, At, Calls
<1>1. PICK e \in Entries :
        /\ call' = [call EXCEPT ![t].pc = "lock", ![t].entry = e]
        /\ \/ e \in Matching(call[t].target) /\ heap' = Ref(e)
           \/ /\ Matching(call[t].target) = {} /\ ~heap[e].live
              /\ heap' = [heap EXCEPT ![e] = NewEntry(call[t].target)]
  BY Zenon DEF Get
<1>2. /\ UNCHANGED hand /\ call'[t].entry = e /\ call'[t].target = call[t].target
      /\ \A u \in Threads : u # t => call'[u] = call[u]
  BY <1>0, <1>1 DEF Get, Calls
<1>3. /\ heap'[e].live /\ heap'[e].tid = call[t].target
      /\ heap'[e].ref_count = IF heap[e].live THEN heap[e].ref_count + 1 ELSE 1
      /\ \A f \in Entries : f # e => heap'[f] = heap[f]
      /\ heap[e].live => heap[e].tid = call[t].target
      /\ ~heap[e].live => Matching(call[t].target) = {}
  <2>1. CASE e \in Matching(call[t].target) /\ heap' = Ref(e)
    BY <1>0, <2>1 DEF Matching, Ref, EntryObjects
  <2>2. CASE /\ Matching(call[t].target) = {} /\ ~heap[e].live
             /\ heap' = [heap EXCEPT ![e] = NewEntry(call[t].target)]
    BY <1>0, <2>2 DEF NewEntry, Freed
  <2> QED
    BY <1>1, <2>1, <2>2
<1>4. \A u \in Threads : /\ call[u].entry # None => call[u].entry \in Entries
                         /\ hand[u].entry # None => hand[u].entry \in Entries
  BY HeldEntry DEF TypeInv, Pointers
<1>5. NoUseAfterFree'
  BY <1>0, <1>2, <1>3, <1>4 DEF EntryInv, NoUseAfterFree
<1>6. OneEntryPerThread'
  BY <1>3 DEF EntryInv, OneEntryPerThread, Matching
<1>7. /\ Callers(e)' = Callers(e) \cup {t} /\ t \notin Callers(e)
      /\ \A f \in Entries : f # e => Callers(f)' = Callers(f)
      /\ \A f \in Entries : HandlersOn(f)' = HandlersOn(f)
  BY <1>0, <1>2 DEF Callers, HandlersOn
<1>8. Cardinality(Callers(e)') = Cardinality(Callers(e)) + 1
  BY <1>7, PointerSets, FS_AddElement, Zenon
<1>9. ~heap[e].live => Callers(e) = {} /\ HandlersOn(e) = {}
  BY <1>0 DEF EntryInv, NoUseAfterFree, Callers, HandlersOn
<1>10. Cardinality({}) = 0
  BY FS_EmptySet
<1>11. Counted'
  <2>1. heap'[e].ref_count >= Cardinality(Callers(e)') + Cardinality(HandlersOn(e)')
    <3>1. heap[e].ref_count \in Nat
      BY <1>0, EntryFields
    <3>2. CASE heap[e].live
      BY <1>3, <1>7, <1>8, <3>1, <3>2, PointerSets DEF EntryInv, Counted
    <3>3. CASE ~heap[e].live
      BY <1>3, <1>7, <1>8, <1>9, <1>10, <3>3
    <3> QED
      BY <3>2, <3>3
  <2>2. ASSUME NEW f \in Entries, f # e, heap'[f].live
        PROVE  heap'[f].ref_count >= Cardinality(Callers(f)') + Cardinality(HandlersOn(f)')
    BY <1>3, <1>7, <2>2 DEF EntryInv, Counted
  <2> QED
    BY <2>1, <2>2 DEF Counted
<1> QED
  BY <1>5, <1>6, <1>11 DEF EntryInv

\* ThreadEntry::Get in SignalHandler counts its pointer.
LEMMA HandGetKeeps ==
  ASSUME TypeInv, EntryInv, NEW g \in Threads, HandGet(g)
  PROVE  EntryInv'
<1>0. /\ hand \in [Threads -> Handlers] /\ heap \in [Entries -> EntryObjects]
      /\ hand[g].entry = None /\ None \notin Entries
  BY ThreadsAssumption DEF TypeInv, TypeOK, Pointers, HandHolds, HandGet, HandAt
<1>1. CASE hand' = [hand EXCEPT ![g] = NoHandler] /\ UNCHANGED heap
  BY <1>0, <1>1, EntryFrame, Zenon DEF HandGet, NoHandler, Handlers, PointersKept, ObjectsKept
<1>2. ASSUME NEW e \in Matching(g), heap' = Ref(e),
             hand' = [hand EXCEPT ![g].pc = "copy", ![g].entry = e]
      PROVE  EntryInv'
  <2>1. /\ UNCHANGED call /\ hand'[g].entry = e /\ e \in Entries
        /\ \A u \in Threads : u # g => hand'[u] = hand[u]
    <3>1. UNCHANGED call /\ e \in Entries
      BY <1>2 DEF HandGet, Matching
    <3> QED
      BY <1>0, <1>2, <3>1 DEF Handlers
  <2>2. /\ heap[e].live /\ heap[e].tid = g
        /\ heap'[e].live /\ heap'[e].tid = g /\ heap'[e].ref_count = heap[e].ref_count + 1
        /\ \A f \in Entries : f # e => heap'[f] = heap[f]
    BY <1>0, <1>2, <2>1 DEF Matching, Ref, EntryObjects
  <2>3. \A u \in Threads : /\ call[u].entry # None => call[u].entry \in Entries
                           /\ hand[u].entry # None => hand[u].entry \in Entries
    BY HeldEntry DEF TypeInv, Pointers
  <2>4. NoUseAfterFree' /\ OneEntryPerThread'
    BY <1>0, <2>1, <2>2, <2>3 DEF EntryInv, NoUseAfterFree, OneEntryPerThread
  <2>5. /\ HandlersOn(e)' = HandlersOn(e) \cup {g} /\ g \notin HandlersOn(e)
        /\ \A f \in Entries : f # e => HandlersOn(f)' = HandlersOn(f)
        /\ \A f \in Entries : Callers(f)' = Callers(f)
    BY <1>0, <2>1 DEF Callers, HandlersOn
  <2>6. Cardinality(HandlersOn(e)') = Cardinality(HandlersOn(e)) + 1
    BY <2>5, PointerSets, FS_AddElement, Zenon
  <2>7. heap[e].ref_count \in Nat
    BY <1>0, <2>1, EntryFields
  <2>8. heap'[e].ref_count >= Cardinality(Callers(e)') + Cardinality(HandlersOn(e)')
    BY <2>1, <2>2, <2>5, <2>6, <2>7, PointerSets DEF EntryInv, Counted
  <2>9. Counted'
    BY <2>2, <2>5, <2>8, Zenon DEF EntryInv, Counted
  <2> QED
    BY <2>4, <2>9 DEF EntryInv
<1> QED
  BY <1>1, <1>2 DEF HandGet


\* ThreadEntry::Remove deletes the entry only with its last pointer.
LEMMA RemoveKeeps ==
  ASSUME TypeInv, EntryInv, NEW t \in Threads, Remove(t)
  PROVE  EntryInv'
<1>0. /\ call \in [Threads -> Calls] /\ heap \in [Entries -> EntryObjects]
      /\ CallHolds(t) /\ None \notin Entries
  BY ThreadsAssumption DEF TypeInv, TypeOK, Remove, At, CallHolds
<1>1. PICK e \in Entries : e = call[t].entry /\ heap' = Unref(e)
  BY <1>0, HeldEntry DEF TypeInv, Remove
<1>2. /\ UNCHANGED hand /\ call'[t].entry = None
      /\ \A u \in Threads : u # t => call'[u] = call[u]
  BY <1>0 DEF Remove, Calls
<1>3. \A u \in Threads : /\ call[u].entry # None => call[u].entry \in Entries
                         /\ hand[u].entry # None => hand[u].entry \in Entries
  BY HeldEntry DEF TypeInv, Pointers
<1>4. \A f \in Entries : f # e => heap'[f] = heap[f]
  BY <1>0, <1>1 DEF Unref
<1>5. /\ Callers(e)' = Callers(e) \ {t} /\ t \in Callers(e)
      /\ \A f \in Entries : f # e => Callers(f)' = Callers(f)
      /\ \A f \in Entries : HandlersOn(f)' = HandlersOn(f)
  BY <1>0, <1>1, <1>2 DEF Callers, HandlersOn
<1>6. CASE heap[e].ref_count = 1
  <2>1. ~heap'[e].live
    BY <1>0, <1>1, <1>6 DEF Unref, Freed
  <2>2. \A u \in Threads : (u # t => call[u].entry # e) /\ hand[u].entry # e
    BY <1>0, <1>1, <1>6, HeldCounted DEF Callers, HandlersOn
  <2>3. NoUseAfterFree' /\ OneEntryPerThread'
    BY <1>2, <1>3, <1>4, <2>1, <2>2 DEF EntryInv, NoUseAfterFree, OneEntryPerThread
  <2>4. Counted'
    BY <1>4, <1>5, <2>1 DEF EntryInv, Counted
  <2> QED
    BY <2>3, <2>4 DEF EntryInv
<1>7. CASE heap[e].ref_count # 1
  <2>1. /\ heap'[e].live = heap[e].live /\ heap'[e].tid = heap[e].tid
        /\ heap'[e].ref_count = heap[e].ref_count - 1
    BY <1>0, <1>1, <1>7 DEF Unref, EntryObjects
  <2>2. NoUseAfterFree' /\ OneEntryPerThread'
    BY <1>2, <1>3, <1>4, <2>1 DEF EntryInv, NoUseAfterFree, OneEntryPerThread
  <2>3. Cardinality(Callers(e)') = Cardinality(Callers(e)) - 1
    BY <1>5, PointerSets, FS_RemoveElement, Zenon
  <2>4. heap[e].live => heap'[e].ref_count >= Cardinality(Callers(e)') + Cardinality(HandlersOn(e)')
    <3>1. heap[e].ref_count \in Nat
      BY <1>0, EntryFields
    <3> QED
      BY <1>5, <2>1, <2>3, <3>1, PointerSets DEF EntryInv, Counted
  <2>5. Counted'
    BY <1>4, <1>5, <2>1, <2>4, Zenon DEF EntryInv, Counted
  <2> QED
    BY <2>2, <2>5 DEF EntryInv
<1> QED
  BY <1>6, <1>7

\* A handler that returns drops its pointer and leaves the count too high.
LEMMA HandDropKeeps ==
  ASSUME TypeInv, EntryInv, NEW g \in Threads, UNCHANGED <<call, heap>>,
         hand' = [hand EXCEPT ![g] = NoHandler]
  PROVE  EntryInv'
<1>1. hand'[g].entry = None /\ \A u \in Threads : u # g => hand'[u] = hand[u]
  BY DEF TypeInv, TypeOK, NoHandler
<1>2. NoUseAfterFree' /\ OneEntryPerThread'
  BY <1>1 DEF EntryInv, NoUseAfterFree, OneEntryPerThread
<1>3. \A e \in Entries : Callers(e)' = Callers(e) /\ HandlersOn(e)' \subseteq HandlersOn(e)
  BY <1>1, ThreadsAssumption DEF Callers, HandlersOn
<1>4. \A e \in Entries : /\ Cardinality(HandlersOn(e)') <= Cardinality(HandlersOn(e))
                         /\ Cardinality(HandlersOn(e)') \in Nat
  BY <1>3, PointerSets, FS_Subset, FS_CardinalityType
<1>5. \A e \in Entries : heap[e].ref_count \in Nat
  BY EntryFields DEF TypeInv, TypeOK
<1>6. Counted'
  BY <1>3, <1>4, <1>5, PointerSets DEF EntryInv, Counted
<1> QED
  BY <1>2, <1>6 DEF EntryInv

\* Every step keeps EntryInv.
LEMMA EntryStep ==
  ASSUME TypeInv, EntryInv, [Next]_vars
  PROVE  EntryInv'
<1>0. call \in [Threads -> Calls] /\ hand \in [Threads -> Handlers]
  BY DEF TypeInv, TypeOK
<1>1. ASSUME NEW t \in Threads, NEW g \in Threads, Call(t, g) PROVE EntryInv'
  <2>1. call[t].entry = None
    BY <1>1 DEF TypeInv, Pointers, CallHolds, InEntry, Call, At
  <2> QED
    BY <1>0, <1>1, <2>1, EntryFrame DEF Call, Calls, PointersKept, ObjectsKept
<1>2. ASSUME NEW t \in Threads, CallStep(t) PROVE EntryInv'
  BY <1>2, CallKeeps, EntryFrame, GetKeeps, RemoveKeeps
<1>3. ASSUME NEW g \in Threads, HandStep(g) PROVE EntryInv'
  <2>1. CASE HandSignal(g) \/ HandWait2(g)
    <3>1. CASE hand' = [hand EXCEPT ![g] = NoHandler]
      BY <2>1, <3>1, HandDropKeeps, Zenon DEF HandSignal, HandWait2
    <3>2. ASSUME NEW p \in HandPcs, HandGo(g, p) PROVE EntryInv'
      BY <1>0, <2>1, <3>2, EntryFrame
      DEF HandSignal, HandWait2, HandGo, Handlers, PointersKept, ObjectsKept
    <3> QED
      BY <2>1, <3>1, <3>2, HandPc DEF HandSignal, HandWait2
  <2> QED
    BY <1>3, <2>1, HandKeeps, EntryFrame, HandGetKeeps DEF HandStep
<1>4. ASSUME UNCHANGED <<call, hand, heap>> PROVE EntryInv'
  BY <1>4, EntryFrame DEF PointersKept, ObjectsKept
<1> QED
  BY <1>1, <1>2, <1>3, <1>4 DEF Next, Finished, Exit, vars

-----------------------------------------------------------------------------
(* One unwind at a time *)

\* Between Lock and Unlock a call owns mutex_ of its entry.
MutexInv == \A t \in Threads : InEntry(t) => heap[call[t].entry].mutex = t

\* A step of UnwindThread keeps MutexInv.
LEMMA MutexCall ==
  ASSUME TypeInv, EntryInv, MutexInv, NEW t \in Threads, CallStep(t)
  PROVE  MutexInv'
<1>0. /\ call \in [Threads -> Calls] /\ heap \in [Entries -> EntryObjects]
      /\ None \notin Threads
      /\ \A u \in Threads : InEntry(u) => call[u].entry \in Entries
  BY HeldEntry, ThreadsAssumption DEF TypeInv, TypeOK, CallHolds
<1>00. CallHolds(t) => call[t].entry \in Entries
  BY HeldEntry DEF TypeInv
<1>1. CASE LockSigaction(t)
  BY <1>0, <1>1 DEF LockSigaction, At, Go, Calls, MutexInv, InEntry
<1>2. CASE GetLock(t)
  BY <1>0, <1>2 DEF GetLock, At, Go, Calls, MutexInv, InEntry
<1>3. CASE Get(t)
  <2>1. \A u \in Threads : InEntry(u) => heap[call[u].entry].live
    BY DEF TypeInv, EntryInv, NoUseAfterFree, Pointers, CallHolds
  <2>2. PICK e \in Entries :
          /\ call' = [call EXCEPT ![t].pc = "lock", ![t].entry = e]
          /\ \/ heap' = Ref(e)
             \/ ~heap[e].live /\ heap' = [heap EXCEPT ![e] = NewEntry(call[t].target)]
    BY <1>3, Zenon DEF Get
  <2>3. /\ call'[t].pc = "lock" /\ \A u \in Threads : u # t => call'[u] = call[u]
    BY <1>0, <2>2 DEF Calls
  <2>4. \A f \in Entries : heap[f].live => heap'[f].mutex = heap[f].mutex
    BY <1>0, <2>2 DEF Ref, EntryObjects
  <2> QED
    BY <1>0, <2>1, <2>3, <2>4 DEF MutexInv, InEntry
<1>4. CASE Lock(t)
  BY <1>0, <1>00, <1>4 DEF Lock, At, Go, Calls, EntryObjects, MutexInv, CallHolds, InEntry
<1>5. CASE Install(t)
  BY <1>0, <1>5 DEF Install, At, Go, Calls, MutexInv, InEntry
<1>6. CASE Kill(t)
  BY <1>0, <1>6 DEF Kill, At, Go, Calls, MutexInv, InEntry
<1>7. CASE Undo(t)
  BY <1>0, <1>7 DEF Undo, At, Go, Calls, MutexInv, InEntry
<1>8. CASE Wait1(t)
  BY <1>0, <1>8 DEF Wait1, At, Go, Calls, MutexInv, InEntry
<1>9. CASE Restore(t)
  BY <1>0, <1>9 DEF Restore, At, Go, Calls, MutexInv, InEntry
<1>10. CASE UnlockSigaction(t)
  BY <1>0, <1>10 DEF UnlockSigaction, At, Go, Calls, MutexInv, InEntry
<1>11. CASE UnwindFromContext(t)
  BY <1>0, <1>11 DEF UnwindFromContext, At, Go, Calls, MutexInv, InEntry
<1>12. CASE WakeLoad(t)
  BY <1>0, <1>00, <1>12 DEF WakeLoad, At, Go, Calls, EntryObjects, MutexInv, CallHolds, InEntry
<1>13. CASE WakeStore(t)
  BY <1>0, <1>00, <1>13 DEF WakeStore, Woken, At, Go, Calls, EntryObjects, MutexInv, CallHolds, InEntry
<1>14. CASE Wait3(t)
  BY <1>0, <1>14 DEF Wait3, At, Go, Calls, MutexInv, InEntry
<1>15. CASE CheckGone(t)
  BY <1>0, <1>15 DEF CheckGone, At, Go, Calls, MutexInv, InEntry
<1>16. CASE Unlock(t)
  BY <1>0, <1>00, <1>16 DEF Unlock, At, Go, Calls, EntryObjects, MutexInv, CallHolds, InEntry
<1>17. CASE RemoveLock(t)
  BY <1>0, <1>17 DEF RemoveLock, At, Go, Calls, MutexInv, InEntry
<1>18. CASE Remove(t)
  <2>1. PICK e \in Entries : e = call[t].entry /\ heap' = Unref(e) /\ CallHolds(t)
    BY <1>00, <1>18 DEF Remove, At, CallHolds
  <2>2. /\ call'[t].pc \in {"err_unlock", "idle"}
        /\ \A u \in Threads : u # t => call'[u] = call[u]
    BY <1>0, <1>18 DEF Remove, Calls
  <2>3. heap[e].ref_count = 1 => \A u \in Threads : u # t => call[u].entry # e
    BY <2>1, HeldCounted DEF Callers
  <2>4. \A f \in Entries : f # e \/ heap[e].ref_count # 1 => heap'[f].mutex = heap[f].mutex
    BY <1>0, <2>1 DEF Unref, EntryObjects
  <2> QED
    BY <1>0, <2>1, <2>2, <2>3, <2>4 DEF MutexInv, InEntry
<1>19. CASE ErrorUnlock(t)
  BY <1>0, <1>19 DEF ErrorUnlock, At, Go, Calls, MutexInv, InEntry
<1> QED
  BY <1>1, <1>2, <1>3, <1>4, <1>5, <1>6, <1>7, <1>8, <1>9, <1>10, <1>11,
     <1>12, <1>13, <1>14, <1>15, <1>16, <1>17, <1>18, <1>19 DEF CallStep

\* Every step keeps MutexInv.
LEMMA MutexStep ==
  ASSUME TypeInv, EntryInv, MutexInv, [Next]_vars
  PROVE  MutexInv'
<1>0. /\ call \in [Threads -> Calls] /\ heap \in [Entries -> EntryObjects]
      /\ \A u \in Threads : InEntry(u) => call[u].entry \in Entries
  BY HeldEntry DEF TypeInv, TypeOK, CallHolds
<1>1. ASSUME NEW t \in Threads, NEW g \in Threads, Call(t, g) PROVE MutexInv'
  BY <1>0, <1>1 DEF Call, At, Calls, MutexInv, InEntry
<1>2. ASSUME NEW t \in Threads, CallStep(t) PROVE MutexInv'
  BY <1>2, MutexCall
<1>3. ASSUME NEW g \in Threads, HandStep(g) PROVE MutexInv'
  <2>1. UNCHANGED call
    BY <1>3 DEF HandStep, Deliver, HandGetLock, HandGet, HandCopyUcontext, HandWakeLoad,
       HandWakeStore, HandSignal, HandWait2
  <2>2. \A e \in Entries : heap'[e].mutex = heap[e].mutex
    <3>1. CASE HandGet(g)
      BY <1>0, <3>1 DEF HandGet, Ref, Matching, EntryObjects
    <3>2. CASE HandCopyUcontext(g) \/ HandWakeLoad(g) \/ HandWakeStore(g)
      BY <1>0, <3>2 DEF HandCopyUcontext, HandWakeLoad, HandWakeStore, Woken, EntryObjects
    <3> QED
      BY <1>3, <3>1, <3>2 DEF HandStep, Deliver, HandGetLock, HandSignal, HandWait2
  <2> QED
    BY <1>0, <2>1, <2>2 DEF MutexInv, InEntry
<1>4. ASSUME UNCHANGED <<call, heap>> PROVE MutexInv'
  BY <1>4 DEF MutexInv, InEntry
<1> QED
  BY <1>1, <1>2, <1>3, <1>4 DEF Next, Finished, Exit, vars

-----------------------------------------------------------------------------
(* The theorems *)

IInv == TypeInv /\ SigInv /\ EntryInv /\ MutexInv

\* IInv holds of the initial states.
LEMMA InitIInv == Init => IInv
<1> SUFFICES ASSUME Init PROVE IInv
  OBVIOUS
<1>1. TypeInv
  BY InitType
<1>2. SigInv
  BY DEF Init, SigInv, InSig, Installed
<1>3. MutexInv
  BY DEF Init, MutexInv, InEntry
<1>4. EntryInv
  BY DEF Init, EntryInv, NoUseAfterFree, OneEntryPerThread, Counted, Freed, NoHandler
<1> QED
  BY <1>1, <1>2, <1>3, <1>4 DEF IInv

\* Every step keeps IInv.
LEMMA NextIInv == IInv /\ [Next]_vars => IInv'
<1> SUFFICES ASSUME IInv, [Next]_vars PROVE IInv'
  OBVIOUS
<1>1. \A t \in Threads : CallHolds(t) => heap[call[t].entry].ref_count > 0
  BY HeldCounted DEF IInv
<1>2. TypeInv'
  BY <1>1, TypeStep DEF IInv
<1>3. SigInv' /\ EntryInv' /\ MutexInv'
  BY SigNext, EntryStep, MutexStep DEF IInv
<1> QED
  BY <1>2, <1>3 DEF IInv

\* ref_count_ covers the pointers of calls and handlers, and both mutexes are held
\* exactly where UnwindThread holds them, at every moment.
THEOREM Invariance == Spec => []IInv
  BY InitIInv, NextIInv, PTL DEF Spec

\* Every variable of the protocol keeps its type; in particular ref_count_ of
\* an entry never becomes negative.
THEOREM TypeCorrect == Spec => []TypeOK
<1>1. IInv => TypeOK
  BY DEF IInv, TypeInv
<1> QED
  BY <1>1, Invariance, PTL

\* SignalHandler is the action of THREAD_SIGNAL only while some UnwindThread
\* call holds g_sigaction_mutex.
THEOREM HandlerRemoved == Spec => []HandlerNotLeftInstalled
<1>1. IInv => HandlerNotLeftInstalled
  BY ThreadsAssumption DEF IInv, SigInv, Installed, InSig, HandlerNotLeftInstalled
<1> QED
  BY <1>1, Invariance, PTL

\* Neither UnwindThread nor SignalHandler ever uses a ThreadEntry that Remove
\* has deleted, and each uses the entry of the right thread.
THEOREM PointersValid == Spec => []NoUseAfterFree
<1>1. IInv => NoUseAfterFree
  BY DEF IInv, EntryInv
<1> QED
  BY <1>1, Invariance, PTL

\* Two UnwindThread calls on one thread are never between Lock and Unlock at
\* the same time: they share the one entry of that thread, and its mutex_.
THEOREM UnwindsExclusive == Spec => []OneUnwindAtATime
<1>1. ASSUME IInv PROVE OneUnwindAtATime
  <2> SUFFICES ASSUME NEW t \in Threads, NEW u \in Threads, InEntry(t), InEntry(u),
                      call[t].target = call[u].target
               PROVE  t = u
    BY DEF OneUnwindAtATime
  <2>1. /\ CallHolds(t) /\ call[t].entry # None /\ call[t].entry \in Entries
        /\ CallHolds(u) /\ call[u].entry # None /\ call[u].entry \in Entries
    BY <1>1, HeldEntry DEF IInv, TypeInv, Pointers, CallHolds
  <2>2. call[t].entry = call[u].entry
    BY <1>1, <2>1 DEF IInv, EntryInv, NoUseAfterFree, OneEntryPerThread
  <2> QED
    BY <1>1, <2>2 DEF IInv, MutexInv
<1> QED
  BY <1>1, Invariance, PTL

-----------------------------------------------------------------------------
(* The hand-shake of UnwindThread and SignalHandler when Slow is FALSE: for *)
(* every call that is between Lock and Unlock, where the thread under test  *)
(* is, what is queued for it, and what the entry holds.                     *)

Signal(t) == <<t, call[t].n>>
Entry(t) == heap[call[t].entry]
Target(t) == hand[call[t].target]

\* No signal is queued for g, and a handler of an earlier call that still runs
\* there does not touch its entry any more.
Resting(g) == pending[g] = <<>> /\ hand[g].pc \in {"idle", "signal3"}

\* The thread under test stands in its handler, on the entry of the call.
InHandler(t, pcs) ==
  /\ pending[call[t].target] = <<>>
  /\ Target(t).pc \in pcs /\ Target(t).entry = call[t].entry
Stopped(t) ==
  /\ InHandler(t, {"signal1", "wait2", "wait2b"})
  /\ Entry(t).wait_value = 1 /\ Entry(t).ucontext = Signal(t)

\* From tgkill to the first Wake.
Sent(t) ==
  /\ Entry(t).wait_value = 0
  /\ \/ /\ pending[call[t].target] = <<Signal(t)>>
        /\ Target(t).pc \in {"idle", "signal3"}
     \/ /\ pending[call[t].target] = <<>>
        /\ Target(t).pc \in {"get_lock", "get"} /\ Target(t).sig = Signal(t)
     \/ InHandler(t, {"copy"}) /\ Target(t).sig = Signal(t)
     \/ /\ InHandler(t, {"wake1", "wake1_w"}) /\ Entry(t).ucontext = Signal(t)
        /\ Target(t).pc = "wake1_w" => Target(t).tmp = 0
     \/ call[t].target \notin alive

\* From the Wake of the call to the last Wake of the handler.
Released(t) ==
  \/ /\ InHandler(t, {"signal1", "wait2", "wait2b", "wake3", "wake3_w"})
     /\ Entry(t).wait_value = 2
     /\ Target(t).pc = "wake3_w" => Target(t).tmp = 2
  \/ Resting(call[t].target) /\ Entry(t).wait_value = 3

Session(t) ==
  /\ call[t].pc \in {"install", "kill"} => Resting(call[t].target) /\ Entry(t).wait_value = 0
  /\ call[t].pc \in {"undo", "unlock"} => Resting(call[t].target)
  /\ call[t].pc \in {"wait1", "wait1b"} => Sent(t) \/ Stopped(t)
  /\ call[t].pc \in {"restore", "sig_unlock"} =>
       IF call[t].completed THEN Stopped(t) ELSE call[t].target \notin alive
  /\ call[t].pc \in {"unwind", "wake", "wake_w"} => Stopped(t)
  /\ call[t].pc = "wake_w" => call[t].tmp = 1
  /\ call[t].pc \in {"wait3", "wait3b"} => Released(t)
  /\ call[t].pc = "check" => call[t].target \notin alive

\* The action is SignalHandler from sigaction to its restoration.
HandlerStays == \A t \in Threads : Installed(t) => sigact = "handler"

Gone(g) == g \notin alive => pending[g] = <<>> /\ hand[g].pc = "idle"
Left(g) == (\A t \in Threads : InEntry(t) => call[t].target # g) => Resting(g)

HandshakeInv ==
  /\ \A t \in Threads : InEntry(t) => Session(t)
  /\ \A g \in Threads : Gone(g) /\ Left(g)

TimelyInv == HandlerStays /\ HandshakeInv /\ ~killed

-----------------------------------------------------------------------------
(* What a step leaves alone *)

\* The parts of an invariant for a call that is still about the same thread,
\* entry and signal, when nothing they speak of has changed.
LEMMA PartsFrame ==
  ASSUME NEW t \in Threads,
         call'[t].target = call[t].target, call'[t].entry = call[t].entry, call'[t].n = call[t].n,
         hand'[call[t].target] = hand[call[t].target],
         pending'[call[t].target] = pending[call[t].target],
         heap'[call[t].entry].wait_value = heap[call[t].entry].wait_value,
         heap'[call[t].entry].ucontext = heap[call[t].entry].ucontext,
         call[t].target \in alive' <=> call[t].target \in alive
  PROVE  /\ Entry(t)'.wait_value = Entry(t).wait_value
         /\ Resting(call[t].target) => Resting(call[t].target)'
         /\ Sent(t) => Sent(t)'
         /\ Stopped(t) => Stopped(t)'
         /\ Released(t) => Released(t)'
         /\ call[t].target \notin alive => (call[t].target \notin alive)'
<1>1. Entry(t)'.wait_value = Entry(t).wait_value /\ Entry(t)'.ucontext = Entry(t).ucontext
  BY DEF Entry
<1>2. Target(t)' = Target(t) /\ Signal(t)' = Signal(t)
  BY DEF Target, Signal
<1>3. Resting(call[t].target) => Resting(call[t].target)'
  BY DEF Resting
<1>4. ASSUME NEW pcs PROVE InHandler(t, pcs) => InHandler(t, pcs)'
  BY <1>2 DEF InHandler
<1>5. Stopped(t) => Stopped(t)'
  BY <1>1, <1>2, <1>4 DEF Stopped
<1>6. Sent(t) => Sent(t)'
  BY <1>1, <1>2, <1>4 DEF Sent
<1>7. Released(t) => Released(t)'
  BY <1>1, <1>2, <1>3, <1>4 DEF Released
<1> QED
  BY <1>1, <1>3, <1>5, <1>6, <1>7

\* A call is where it was in its hand-shake when nothing it depends on has changed.
LEMMA SessionFrame ==
  ASSUME NEW t \in Threads, Session(t), call'[t] = call[t],
         hand'[call[t].target] = hand[call[t].target],
         pending'[call[t].target] = pending[call[t].target],
         heap'[call[t].entry].wait_value = heap[call[t].entry].wait_value,
         heap'[call[t].entry].ucontext = heap[call[t].entry].ucontext,
         call[t].target \in alive' <=> call[t].target \in alive
  PROVE  Session(t)'
  BY PartsFrame DEF Session

\* A call between Lock and Unlock shares neither thread nor entry with one that is, or gets, there.
LEMMA Exclusive ==
  ASSUME IInv, NEW t \in Threads, NEW u \in Threads, InEntry(u), t # u, CallHolds(t),
         InEntry(t) \/ heap[call[t].entry].mutex = None
  PROVE  call[t].target # call[u].target /\ call[t].entry # call[u].entry
<1>1. /\ call[t].entry # None /\ call[t].entry \in Entries
      /\ CallHolds(u) /\ call[u].entry # None /\ call[u].entry \in Entries
  BY HeldEntry DEF IInv, TypeInv, Pointers, CallHolds
<1>2. call[t].target = call[u].target => call[t].entry = call[u].entry
  BY <1>1 DEF IInv, EntryInv, NoUseAfterFree, OneEntryPerThread
<1>3. call[t].entry # call[u].entry
  BY ThreadsAssumption DEF IInv, MutexInv
<1> QED
  BY <1>2, <1>3

\* A step of t's call changes no other call.
LEMMA OthersStay ==
  ASSUME IInv, NEW t \in Threads, CallStep(t), NEW u \in Threads, u # t
  PROVE  call'[u] = call[u]
<1>0. call \in [Threads -> Calls]
  BY DEF IInv, TypeInv, TypeOK
<1>1. CASE Get(t) \/ Remove(t)
  BY <1>0, <1>1 DEF Get, Remove
<1>2. CASE Install(t) \/ Kill(t) \/ Wait1(t) \/ WakeLoad(t) \/ WakeStore(t) \/ Wait3(t) \/ CheckGone(t)
  BY <1>0, <1>2 DEF Install, Kill, Wait1, WakeLoad, WakeStore, Wait3, CheckGone, Go
<1>3. ASSUME NEW p, Go(t, p) PROVE call'[u] = call[u]
  BY <1>0, <1>3 DEF Go
<1> QED
  BY <1>1, <1>2, <1>3, ZenonT(30) DEF CallStep, LockSigaction, GetLock, Lock, Undo, Restore,
     UnlockSigaction, UnwindFromContext, Unlock, RemoveLock, ErrorUnlock

\* A call of t leaves the hand-shakes of other calls alone.
LEMMA CallFrame ==
  ASSUME IInv, NEW t \in Threads, CallStep(t), NEW u \in Threads, u # t, InEntry(u)
  PROVE  /\ call'[u] = call[u] /\ hand' = hand /\ alive' = alive
         /\ pending'[call[u].target] = pending[call[u].target]
         /\ heap'[call[u].entry].wait_value = heap[call[u].entry].wait_value
         /\ heap'[call[u].entry].ucontext = heap[call[u].entry].ucontext
<1> DEFINE e == call[u].entry
<1>0. /\ call \in [Threads -> Calls] /\ heap \in [Entries -> EntryObjects]
      /\ pending \in [Threads -> Seq(Signals)] /\ call[u].target \in Threads
      /\ CallHolds(t) => call[t].entry \in Entries
      /\ e \in Entries /\ heap[e].live /\ e # None
  BY HeldEntry, Zenon DEF IInv, TypeInv, TypeOK, Calls, CallHolds, Pointers, EntryInv, NoUseAfterFree
<1>1. hand' = hand /\ alive' = alive
  BY ZenonT(30) DEF CallStep, LockSigaction, GetLock, Get, Lock, Install, Kill, Undo, Wait1, Restore,
         UnlockSigaction, UnwindFromContext, WakeLoad, WakeStore, Wait3, CheckGone, Unlock,
         RemoveLock, Remove, ErrorUnlock, kernel
<1>2. call'[u] = call[u]
  BY OthersStay
<1>3. pending'[call[u].target] = pending[call[u].target]
  <2>1. CASE Kill(t)
    <3>1. call[t].target # call[u].target
      BY <2>1, Exclusive DEF Kill, At, InEntry, CallHolds
    <3> QED
      BY <1>0, <2>1, <3>1 DEF Kill
  <2>2. CASE pending' = pending
    BY <2>2
  <2> QED
    BY <2>1, <2>2, ZenonT(30) DEF CallStep, LockSigaction, GetLock, Get, Lock, Install, Undo, Wait1, Restore,
         UnlockSigaction, UnwindFromContext, WakeLoad, WakeStore, Wait3, CheckGone, Unlock,
         RemoveLock, Remove, ErrorUnlock, kernel
<1>4. CASE Lock(t) \/ WakeLoad(t) \/ WakeStore(t) \/ Unlock(t)
  <2>1. call[t].entry # e /\ call[t].entry \in Entries
    BY <1>0, <1>4, Exclusive DEF Lock, WakeLoad, WakeStore, Unlock, At, InEntry, CallHolds
  <2>2. heap'[e] = heap[e]
    BY <1>0, <1>4, <2>1 DEF Lock, WakeLoad, WakeStore, Woken, Unlock
  <2> QED
    BY <1>1, <1>2, <1>3, <2>2
<1>5. CASE Get(t)
  <2>1. PICK f \in Entries :
          \/ heap' = Ref(f)
          \/ ~heap[f].live /\ heap' = [heap EXCEPT ![f] = NewEntry(call[t].target)]
    BY <1>5, Zenon DEF Get
  <2>2. heap'[e].wait_value = heap[e].wait_value /\ heap'[e].ucontext = heap[e].ucontext
    <3>1. CASE heap' = Ref(f)
      BY <1>0, <3>1 DEF Ref, EntryObjects
    <3>2. CASE ~heap[f].live /\ heap' = [heap EXCEPT ![f] = NewEntry(call[t].target)]
      BY <1>0, <3>2
    <3> QED
      BY <2>1, <3>1, <3>2
  <2> QED
    BY <1>1, <1>2, <1>3, <2>2
<1>6. CASE Remove(t)
  <2>1. CallHolds(t)
    BY <1>6 DEF Remove, At, CallHolds
  <2>2. heap[call[t].entry].ref_count = 1 => call[t].entry # e
    BY <2>1, HeldCounted DEF IInv, Callers
  <2>3. heap'[e].wait_value = heap[e].wait_value /\ heap'[e].ucontext = heap[e].ucontext
    BY <1>0, <1>6, <2>1, <2>2 DEF Remove, Unref, EntryObjects
  <2> QED
    BY <1>1, <1>2, <1>3, <2>3
<1>7. CASE UNCHANGED heap
  BY <1>1, <1>2, <1>3, <1>7
<1> QED
  BY <1>4, <1>5, <1>6, <1>7, ZenonT(30) DEF CallStep, LockSigaction, GetLock, Install, Kill, Undo, Wait1, Restore,
         UnlockSigaction, UnwindFromContext, Wait3, CheckGone, RemoveLock, ErrorUnlock, kernel

\* The hand-shake of a call through the steps of that call.
LEMMA CallOwn ==
  ASSUME IInv, HandshakeInv, Slow = FALSE, NEW t \in Threads, CallStep(t), InEntry(t)'
  PROVE  Session(t)'
<1> DEFINE g == call[t].target
           e == call[t].entry
           Same == /\ call'[t].target = g /\ call'[t].entry = e /\ call'[t].n = call[t].n
                   /\ hand' = hand /\ alive' = alive
<1>0. /\ call \in [Threads -> Calls] /\ heap \in [Entries -> EntryObjects]
      /\ pending \in [Threads -> Seq(Signals)] /\ g \in Threads
      /\ CallHolds(t) => e \in Entries
  BY HeldEntry DEF IInv, TypeInv, TypeOK, Calls
<1>1. /\ InEntry(t) => Session(t)
      /\ g \notin alive => Resting(g) /\ hand[g].pc = "idle"
  BY <1>0 DEF HandshakeInv, Gone, Resting
<1>2. ASSUME Same, pending' = pending, heap'[e].wait_value = heap[e].wait_value,
             heap'[e].ucontext = heap[e].ucontext
      PROVE  /\ Entry(t)'.wait_value = Entry(t).wait_value
             /\ Resting(g) => Resting(g)'
             /\ Sent(t) => Sent(t)'
             /\ Stopped(t) => Stopped(t)'
             /\ Released(t) => Released(t)'
             /\ g \notin alive => g \notin alive'
  BY <1>2, PartsFrame
<1>3. CASE Lock(t)
  <2>1. Resting(g)
    <3>1. ASSUME NEW u \in Threads, InEntry(u) PROVE call[u].target # g
      <4>1. u # t /\ CallHolds(t) /\ heap[call[t].entry].mutex = None
        BY <1>3, <3>1 DEF Lock, At, InEntry, CallHolds
      <4> QED
        BY <3>1, <4>1, Exclusive
    <3> QED
      BY <1>0, <3>1 DEF HandshakeInv, Left
  <2>2. /\ call'[t].pc = "install" /\ call'[t].entry = e /\ call'[t].target = g
        /\ heap'[e].wait_value = 0 /\ hand' = hand /\ pending' = pending
    <3>1. e \in Entries
      BY <1>0, <1>3 DEF Lock, At, CallHolds
    <3> QED
      BY <1>0, <1>3, <3>1 DEF Lock, Go, Calls, kernel
  <2>3. Resting(g)' /\ Entry(t)'.wait_value = 0
    BY <2>1, <2>2 DEF Resting, Entry
  <2> QED
    BY <2>2, <2>3 DEF Session
<1>4. CASE Install(t)
  <2>1. Same /\ pending' = pending /\ heap' = heap /\ call'[t].pc \in {"kill", "unlock"}
    BY <1>0, <1>4 DEF Install, Calls, kernel
  <2>2. Resting(g) /\ Entry(t).wait_value = 0
    BY <1>1, <1>4 DEF Install, At, InEntry, Session
  <2> QED
    BY <1>2, <2>1, <2>2 DEF Session
<1>5. CASE Kill(t)
  <2>1. Same /\ heap' = heap
    BY <1>0, <1>5 DEF Kill, Go, Calls
  <2>2. Resting(g) /\ Entry(t).wait_value = 0
    BY <1>1, <1>5 DEF Kill, At, InEntry, Session
  <2>3. CASE pending' = [pending EXCEPT ![g] = Append(@, <<t, call[t].n>>)] /\ Go(t, "wait1")
    <3>1. call'[t].pc = "wait1"
      BY <1>0, <2>3 DEF Go, Calls
    <3>2. pending'[g] = <<Signal(t)>>
      BY <1>0, <2>2, <2>3 DEF Resting, Signal
    <3>3. Sent(t)'
      BY <2>1, <2>2, <3>2 DEF Sent, Resting, Target, Entry, Signal
    <3> QED
      BY <3>1, <3>3 DEF Session
  <2>4. CASE pending' = pending /\ call'[t].pc = "undo"
    BY <1>2, <2>1, <2>2, <2>4 DEF Session
  <2>5. pending' = pending => call'[t].pc = "undo" \/ Go(t, "wait1")
    BY <1>0, <1>5 DEF Kill, Calls
  <2> QED
    BY <1>0, <1>5, <2>3, <2>4 DEF Kill, Calls
<1>6. CASE Undo(t)
  <2>1. Same /\ pending' = pending /\ heap' = heap /\ call'[t].pc = "unlock"
    BY <1>0, <1>6 DEF Undo, Go, Calls, kernel
  <2>2. Resting(g)
    BY <1>1, <1>6 DEF Undo, At, InEntry, Session
  <2> QED
    BY <1>2, <2>1, <2>2 DEF Session
<1>7. CASE Wait1(t)
  <2>1. Same /\ pending' = pending /\ heap' = heap
    BY <1>0, <1>7 DEF Wait1, Go, Calls, kernel
  <2>2. Sent(t) \/ Stopped(t)
    BY <1>1, <1>7 DEF Wait1, At, InEntry, Session
  <2>3. CASE Go(t, "wait1b")
    <3>1. call'[t].pc = "wait1b"
      BY <1>0, <2>3 DEF Go, Calls
    <3> QED
      BY <1>2, <2>1, <2>2, <3>1 DEF Session
  <2>4. CASE Seen(e, 1) /\ call' = [call EXCEPT ![t].pc = "restore", ![t].completed = TRUE]
    <3>1. call'[t].pc = "restore" /\ call'[t].completed
      BY <1>0, <2>4 DEF Calls
    <3>2. Stopped(t)
      BY <2>2, <2>4 DEF Seen, Sent, Entry
    <3> QED
      BY <1>2, <2>1, <3>1, <3>2 DEF Session
  <2>5. CASE TimesOut(t) /\ call' = [call EXCEPT ![t].pc = "restore", ![t].completed = FALSE]
    <3>1. call'[t].pc = "restore" /\ ~call'[t].completed
      BY <1>0, <2>5 DEF Calls
    <3>2. g \notin alive
      BY <2>5 DEF TimesOut
    <3> QED
      BY <1>2, <2>1, <3>1, <3>2 DEF Session
  <2> QED
    BY <1>7, <2>3, <2>4, <2>5, Zenon DEF Wait1
<1>8. CASE Restore(t)
  <2>1. /\ Same /\ pending' = pending /\ heap' = heap /\ call'[t].pc = "sig_unlock"
        /\ call'[t].completed = call[t].completed
    BY <1>0, <1>8 DEF Restore, Go, Calls, kernel
  <2>2. IF call[t].completed THEN Stopped(t) ELSE g \notin alive
    BY <1>1, <1>8 DEF Restore, At, InEntry, Session
  <2> QED
    BY <1>2, <2>1, <2>2 DEF Session
<1>9. CASE UnlockSigaction(t)
  <2>1. /\ Same /\ pending' = pending /\ heap' = heap
        /\ call'[t].pc = IF call[t].completed THEN "unwind" ELSE "check"
    BY <1>0, <1>9 DEF UnlockSigaction, Go, Calls, kernel
  <2>2. IF call[t].completed THEN Stopped(t) ELSE g \notin alive
    BY <1>1, <1>9 DEF UnlockSigaction, At, InEntry, Session
  <2> QED
    BY <1>2, <2>1, <2>2 DEF Session
<1>10. CASE UnwindFromContext(t)
  <2>1. Same /\ pending' = pending /\ heap' = heap /\ call'[t].pc = "wake"
    BY <1>0, <1>10 DEF UnwindFromContext, Go, Calls, kernel
  <2>2. Stopped(t)
    BY <1>1, <1>10 DEF UnwindFromContext, At, InEntry, Session
  <2> QED
    BY <1>2, <2>1, <2>2 DEF Session
<1>11. CASE WakeLoad(t)
  <2>1. e \in Entries /\ Stopped(t)
    BY <1>0, <1>1, <1>11 DEF WakeLoad, At, CallHolds, InEntry, Session
  <2>2. /\ Same /\ pending' = pending /\ call'[t].pc = "wake_w"
        /\ call'[t].tmp = heap[e].wait_value
    BY <1>0, <1>11 DEF WakeLoad, Calls, kernel
  <2>3. heap'[e].wait_value = heap[e].wait_value /\ heap'[e].ucontext = heap[e].ucontext
    BY <1>0, <1>11, <2>1 DEF WakeLoad, EntryObjects
  <2>4. call'[t].tmp = 1
    BY <2>1, <2>2 DEF Stopped, Entry
  <2> QED
    BY <1>2, <2>1, <2>2, <2>3, <2>4 DEF Session
<1>12. CASE WakeStore(t)
  <2>1. e \in Entries /\ Stopped(t) /\ call[t].tmp = 1
    BY <1>0, <1>1, <1>12 DEF WakeStore, At, CallHolds, InEntry, Session
  <2>2. Same /\ pending' = pending /\ call'[t].pc = "wait3"
    BY <1>0, <1>12 DEF WakeStore, Calls, kernel
  <2>3. heap'[e].wait_value = 2
    BY <1>0, <1>12, <2>1 DEF WakeStore, Woken, EntryObjects
  <2>4. Released(t)'
    BY <2>1, <2>2, <2>3 DEF Stopped, Released, InHandler, Target, Entry
  <2> QED
    BY <2>2, <2>4 DEF Session
<1>13. CASE Wait3(t)
  <2>1. Same /\ pending' = pending /\ heap' = heap
    BY <1>0, <1>13 DEF Wait3, Go, Calls, kernel
  <2>2. Released(t)
    BY <1>1, <1>13 DEF Wait3, At, InEntry, Session
  <2>3. CASE Go(t, "wait3b")
    <3>1. call'[t].pc = "wait3b"
      BY <1>0, <2>3 DEF Go, Calls
    <3> QED
      BY <1>2, <2>1, <2>2, <3>1 DEF Session
  <2>4. CASE (Seen(e, 3) \/ TimesOut(t)) /\ Go(t, "unlock")
    <3>1. call'[t].pc = "unlock"
      BY <1>0, <2>4 DEF Go, Calls
    <3>2. Resting(g)
      <4>1. CASE Seen(e, 3)
        BY <2>2, <4>1 DEF Seen, Released, Entry
      <4>2. CASE TimesOut(t)
        BY <1>1, <4>2 DEF TimesOut
      <4> QED
        BY <2>4, <4>1, <4>2
    <3> QED
      BY <1>2, <2>1, <3>1, <3>2 DEF Session
  <2> QED
    BY <1>13, <2>3, <2>4, Zenon DEF Wait3
<1>14. CASE CheckGone(t)
  <2>1. Same /\ pending' = pending /\ heap' = heap /\ call'[t].pc = "unlock"
    BY <1>0, <1>14 DEF CheckGone, Calls, kernel
  <2>2. Resting(g)
    BY <1>1, <1>14 DEF CheckGone, At, InEntry, Session
  <2> QED
    BY <1>2, <2>1, <2>2 DEF Session
<1>15. CASE LockSigaction(t) \/ GetLock(t) \/ Get(t)
  <2>1. call'[t].pc \in {"get_lock", "get", "lock"}
    BY <1>0, <1>15 DEF LockSigaction, GetLock, Get, Go, Calls
  <2> QED
    BY <2>1 DEF InEntry
<1>16. CASE Unlock(t) \/ RemoveLock(t) \/ Remove(t) \/ ErrorUnlock(t)
  <2>1. call'[t].pc \in {"rm_lock", "rm", "err_unlock", "idle"}
    BY <1>0, <1>16 DEF Unlock, RemoveLock, Remove, ErrorUnlock, Go, Calls
  <2> QED
    BY <2>1 DEF InEntry
<1> QED
  BY <1>3, <1>4, <1>5, <1>6, <1>7, <1>8, <1>9, <1>10, <1>11, <1>12, <1>13, <1>14, <1>15,
     <1>16 DEF CallStep

\* A handler leaves the hand-shakes with other threads alone.
LEMMA HandFrame ==
  ASSUME IInv, NEW g \in Threads, HandStep(g)
  PROVE  /\ call' = call /\ alive' = alive /\ sigact' = sigact
         /\ \A h \in Threads : h # g => hand'[h] = hand[h] /\ pending'[h] = pending[h]
         /\ \A u \in Threads : InEntry(u) /\ call[u].target # g =>
              /\ heap'[call[u].entry].wait_value = heap[call[u].entry].wait_value
              /\ heap'[call[u].entry].ucontext = heap[call[u].entry].ucontext
<1>0. /\ call \in [Threads -> Calls] /\ heap \in [Entries -> EntryObjects]
      /\ hand \in [Threads -> Handlers] /\ pending \in [Threads -> Seq(Signals)]
      /\ HandHolds(g) => hand[g].entry \in Entries /\ hand[g].entry # None
  BY HeldEntry DEF IInv, TypeInv, TypeOK, Pointers
<1>1. call' = call /\ alive' = alive /\ sigact' = sigact
  BY Zenon DEF HandStep, Deliver, HandGetLock, HandGet, HandCopyUcontext, HandWakeLoad,
     HandWakeStore, HandSignal, HandWait2, kernel
<1>2. ASSUME NEW h \in Threads, h # g PROVE pending'[h] = pending[h]
  <2>1. CASE Deliver(g)
    BY <1>0, <1>2, <2>1 DEF Deliver
  <2>2. CASE pending' = pending
    BY <2>2
  <2> QED
    BY <2>1, <2>2, Zenon DEF HandStep, HandGetLock, HandGet, HandCopyUcontext, HandWakeLoad,
       HandWakeStore, HandSignal, HandWait2, kernel
<1>3. ASSUME NEW h \in Threads, h # g PROVE hand'[h] = hand[h]
  <2>1. ASSUME NEW p, HandGo(g, p) PROVE hand'[h] = hand[h]
    BY <1>0, <1>3, <2>1 DEF HandGo
  <2>2. CASE Deliver(g) \/ HandGet(g) \/ HandWakeLoad(g) \/ HandWakeStore(g)
    BY <1>0, <1>3, <2>2 DEF Deliver, HandGet, HandWakeLoad, HandWakeStore
  <2>3. CASE HandSignal(g) \/ HandWait2(g)
    <3>1. CASE hand' = [hand EXCEPT ![g] = NoHandler]
      BY <1>0, <1>3, <3>1
    <3> QED
      BY <2>1, <2>3, <3>1, Zenon DEF HandSignal, HandWait2
  <2> QED
    BY <2>1, <2>2, <2>3, Zenon DEF HandStep, HandGetLock, HandCopyUcontext
<1>4. ASSUME NEW u \in Threads, InEntry(u), call[u].target # g
      PROVE  /\ heap'[call[u].entry].wait_value = heap[call[u].entry].wait_value
             /\ heap'[call[u].entry].ucontext = heap[call[u].entry].ucontext
  <2> DEFINE e == call[u].entry
  <2>0. e \in Entries /\ e # None
    BY <1>4, HeldEntry DEF IInv, TypeInv, CallHolds, Pointers
  <2>1. HandHolds(g) => hand[g].entry # e
    BY <1>0, <1>4, <2>0 DEF IInv, EntryInv, NoUseAfterFree
  <2>2. CASE HandCopyUcontext(g) \/ HandWakeLoad(g) \/ HandWakeStore(g)
    <3>1. hand[g].entry # e /\ hand[g].entry \in Entries
      BY <1>0, <2>1, <2>2 DEF HandCopyUcontext, HandWakeLoad, HandWakeStore, HandAt, HandHolds
    <3>2. heap'[e] = heap[e]
      BY <1>0, <2>0, <2>2, <3>1 DEF HandCopyUcontext, HandWakeLoad, HandWakeStore, Woken
    <3> QED
      BY <3>2
  <2>3. CASE HandGet(g)
    <3>1. heap' = heap \/ \E f \in Entries : heap' = Ref(f)
      BY <2>3, Zenon DEF HandGet, Matching
    <3>2. ASSUME NEW f \in Entries, heap' = Ref(f)
          PROVE  heap'[e].wait_value = heap[e].wait_value /\ heap'[e].ucontext = heap[e].ucontext
      BY <1>0, <2>0, <3>2 DEF Ref, EntryObjects
    <3> QED
      BY <3>1, <3>2
  <2>4. CASE heap' = heap
    BY <2>4
  <2> QED
    BY <2>2, <2>3, <2>4, Zenon DEF HandStep, Deliver, HandGetLock, HandSignal, HandWait2
<1> QED
  BY <1>1, <1>2, <1>3, <1>4

\* The hand-shake of a call through the steps of the handler it is about: on a
\* thread that rests only a handler that is done returns.
LEMMA HandResting ==
  ASSUME IInv, NEW g \in Threads, HandStep(g), Resting(g)
  PROVE  Resting(g)' /\ heap' = heap /\ killed' = killed
<1>0. hand \in [Threads -> Handlers]
  BY DEF IInv, TypeInv, TypeOK
<1>1. HandSignal(g) /\ hand[g].pc = "signal3"
  BY DEF HandStep, Deliver, HandGetLock, HandGet, HandCopyUcontext, HandWakeLoad,
     HandWakeStore, HandSignal, HandWait2, HandAt, Resting
<1>2. hand' = [hand EXCEPT ![g] = NoHandler] /\ pending' = pending /\ heap' = heap /\ killed' = killed
  BY <1>1 DEF HandSignal, HandAt, kernel
<1> QED
  BY <1>0, <1>2 DEF Resting, NoHandler

\* Before the first Wake the handler finds the entry of the call and saves the
\* ucontext of its signal there.
LEMMA HandSent ==
  ASSUME IInv, NEW g \in Threads, HandStep(g), NEW u \in Threads, InEntry(u), call[u].target = g,
         Sent(u), sigact = "handler", g \in alive
  PROVE  (Sent(u)' \/ Stopped(u)') /\ killed' = killed
<1> DEFINE e == call[u].entry
<1>0. /\ call \in [Threads -> Calls] /\ heap \in [Entries -> EntryObjects]
      /\ hand \in [Threads -> Handlers] /\ pending \in [Threads -> Seq(Signals)]
      /\ e \in Entries /\ e # None /\ heap[e].live /\ heap[e].tid = g
  BY HeldEntry DEF IInv, TypeInv, TypeOK, CallHolds, Pointers, EntryInv, NoUseAfterFree
<1>1. call' = call /\ alive' = alive
  BY HandFrame
<1>2. Signal(u) = <<u, call[u].n>> /\ Signal(u)' = Signal(u)
  BY <1>1, SMTT(30) DEF Signal
<1>3. CASE Deliver(g)
  <2>1. pending[g] = <<Signal(u)>> /\ Entry(u).wait_value = 0
    BY <1>3 DEF Deliver, Sent, InHandler, Target
  <2>2. /\ hand' = [hand EXCEPT ![g].pc = "get_lock", ![g].sig = Head(pending[g])]
        /\ pending' = [pending EXCEPT ![g] = Tail(@)] /\ heap' = heap /\ killed' = killed
    BY <1>3 DEF Deliver
  <2>3. pending'[g] = <<>> /\ hand'[g].pc = "get_lock" /\ hand'[g].sig = Signal(u)
    BY <1>0, <2>1, <2>2 DEF Handlers
  <2> QED
    BY <1>1, <1>2, <2>1, <2>2, <2>3, Zenon DEF Sent, Entry, Target
<1>4. CASE HandGetLock(g)
  <2>1. pending[g] = <<>> /\ hand[g].sig = Signal(u) /\ Entry(u).wait_value = 0
    BY <1>4 DEF HandGetLock, HandAt, Sent, InHandler, Target
  <2>2. hand'[g].pc = "get" /\ hand'[g].sig = hand[g].sig
    BY <1>0, <1>4 DEF HandGetLock, HandGo, Handlers
  <2> QED
    BY <1>1, <1>2, <1>4, <2>1, <2>2, ZenonT(30) DEF HandGetLock, kernel, Sent, Entry, Target
<1>5. CASE HandGet(g)
  <2>1. pending[g] = <<>> /\ hand[g].sig = Signal(u) /\ Entry(u).wait_value = 0
    BY <1>5 DEF HandGet, HandAt, Sent, InHandler, Target
  <2>2. Matching(g) = {e}
    BY <1>0 DEF Matching, IInv, EntryInv, OneEntryPerThread
  <2>3. heap' = Ref(e) /\ hand' = [hand EXCEPT ![g].pc = "copy", ![g].entry = e]
    BY <1>5, <2>2 DEF HandGet
  <2>4. /\ hand'[g].pc = "copy" /\ hand'[g].entry = e /\ hand'[g].sig = hand[g].sig
        /\ heap'[e].wait_value = heap[e].wait_value
    BY <1>0, <2>3, SMTT(30) DEF Ref, EntryObjects, Handlers
  <2> QED
    BY <1>1, <1>2, <1>5, <2>1, <2>4 DEF HandGet, kernel, Sent, Entry, Target, InHandler
<1>6. CASE HandCopyUcontext(g)
  <2>1. /\ pending[g] = <<>> /\ hand[g].sig = Signal(u) /\ hand[g].entry = e
        /\ Entry(u).wait_value = 0
    BY <1>6 DEF HandCopyUcontext, HandAt, Sent, InHandler, Target
  <2>2. /\ heap'[e].ucontext = hand[g].sig /\ heap'[e].wait_value = heap[e].wait_value
        /\ hand'[g].pc = "wake1" /\ hand'[g].entry = e
    BY <1>0, <1>6, <2>1, SMTT(30) DEF HandCopyUcontext, HandGo, EntryObjects, Handlers
  <2> QED
    BY <1>1, <1>2, <1>6, <2>1, <2>2 DEF HandCopyUcontext, kernel, Sent, Entry, Target, InHandler
<1>7. CASE HandWakeLoad(g)
  <2>1. /\ pending[g] = <<>> /\ hand[g].pc = "wake1" /\ hand[g].entry = e
        /\ Entry(u).wait_value = 0 /\ Entry(u).ucontext = Signal(u)
    BY <1>7 DEF HandWakeLoad, HandAt, Sent, InHandler, Target
  <2>2. /\ heap'[e].ucontext = heap[e].ucontext /\ heap'[e].wait_value = heap[e].wait_value
        /\ hand'[g].pc = "wake1_w" /\ hand'[g].entry = e /\ hand'[g].tmp = heap[e].wait_value
    BY <1>0, <1>7, <2>1 DEF HandWakeLoad, EntryObjects, Handlers
  <2> QED
    BY <1>1, <1>2, <1>7, <2>1, <2>2, Zenon DEF HandWakeLoad, kernel, Sent, Entry, Target, InHandler
<1>8. CASE HandWakeStore(g)
  <2>1. /\ pending[g] = <<>> /\ hand[g].pc = "wake1_w" /\ hand[g].entry = e
        /\ hand[g].tmp = 0 /\ Entry(u).ucontext = Signal(u)
    BY <1>8 DEF HandWakeStore, HandAt, Sent, InHandler, Target
  <2>2. /\ heap'[e].ucontext = heap[e].ucontext /\ heap'[e].wait_value = 1
        /\ hand'[g].pc = "signal1" /\ hand'[g].entry = e
    BY <1>0, <1>8, <2>1 DEF HandWakeStore, Woken, EntryObjects, Handlers
  <2> QED
    BY <1>1, <1>2, <1>8, <2>1, <2>2, Zenon DEF HandWakeStore, kernel, Stopped, Entry, Target, InHandler
<1>9. CASE HandSignal(g)
  <2>1. hand[g].pc = "signal3" /\ pending[g] = <<Signal(u)>> /\ Entry(u).wait_value = 0
    BY <1>9 DEF HandSignal, HandAt, Sent, InHandler, Target
  <2>2. hand'[g].pc = "idle" /\ heap' = heap /\ pending' = pending /\ killed' = killed
    BY <1>0, <1>9, <2>1 DEF HandSignal, HandAt, NoHandler, kernel
  <2> QED
    BY <1>1, <1>2, <2>1, <2>2 DEF Sent, Entry, Target
<1>10. CASE HandWait2(g)
  BY <1>10, ZenonT(30) DEF HandWait2, HandAt, Sent, InHandler, Target
<1> QED
  BY <1>3, <1>4, <1>5, <1>6, <1>7, <1>8, <1>9, <1>10 DEF HandStep

\* From its first Wake to the Wake of the call the handler stays where it is.
LEMMA HandStopped ==
  ASSUME IInv, Slow = FALSE, NEW g \in Threads, HandStep(g), NEW u \in Threads, InEntry(u),
         call[u].target = g, Stopped(u)
  PROVE  Stopped(u)' /\ killed' = killed
<1>0. hand \in [Threads -> Handlers]
  BY DEF IInv, TypeInv, TypeOK
<1>1. call' = call
  BY HandFrame
<1>2. /\ hand[g].pc \in {"signal1", "wait2", "wait2b"} /\ hand[g].entry = call[u].entry
      /\ heap[call[u].entry].wait_value = 1
  BY DEF Stopped, InHandler, Target, Entry
<1>3. HandSignal(g) \/ HandWait2(g)
  BY <1>2 DEF HandStep, Deliver, HandGetLock, HandGet, HandCopyUcontext, HandWakeLoad,
     HandWakeStore, HandAt
<1>4. hand'[g].pc \in {"wait2", "wait2b"} /\ hand'[g].entry = hand[g].entry
  BY <1>0, <1>2, <1>3 DEF HandSignal, HandWait2, HandAt, HandGo, Seen, Handlers
<1>5. heap' = heap /\ pending' = pending /\ killed' = killed
  BY <1>3 DEF HandSignal, HandWait2, kernel
<1> QED
  BY <1>1, <1>4, <1>5 DEF Stopped, InHandler, Target, Entry, Signal

\* After the Wake of the call the handler wakes it in turn, and is done.
LEMMA HandReleased ==
  ASSUME IInv, Slow = FALSE, NEW g \in Threads, HandStep(g), NEW u \in Threads, InEntry(u),
         call[u].target = g, Released(u)
  PROVE  Released(u)' /\ killed' = killed
<1> DEFINE e == call[u].entry
<1>0. /\ hand \in [Threads -> Handlers] /\ heap \in [Entries -> EntryObjects] /\ e \in Entries
  BY HeldEntry DEF IInv, TypeInv, TypeOK, CallHolds
<1>1. call' = call
  BY HandFrame
<1>2. CASE Resting(g) /\ Entry(u).wait_value = 3
  BY <1>1, <1>2, HandResting DEF Released, Entry
<1>3. CASE /\ InHandler(u, {"signal1", "wait2", "wait2b", "wake3", "wake3_w"})
           /\ Entry(u).wait_value = 2
           /\ Target(u).pc = "wake3_w" => Target(u).tmp = 2
  <2>1. /\ pending[g] = <<>> /\ hand[g].entry = e /\ heap[e].wait_value = 2
        /\ hand[g].pc \in {"signal1", "wait2", "wait2b", "wake3", "wake3_w"}
        /\ hand[g].pc = "wake3_w" => hand[g].tmp = 2
    BY <1>3 DEF InHandler, Target, Entry
  <2>2. HandSignal(g) \/ HandWait2(g) \/ HandWakeLoad(g) \/ HandWakeStore(g)
    BY <2>1 DEF HandStep, Deliver, HandGetLock, HandGet, HandCopyUcontext, HandAt
  <2>3. pending' = pending /\ killed' = killed
    BY <2>2 DEF HandSignal, HandWait2, HandWakeLoad, HandWakeStore, kernel
  <2>4. CASE HandSignal(g) \/ HandWait2(g)
    <3>1. hand'[g].pc \in {"wait2", "wait2b", "wake3"} /\ hand'[g].entry = hand[g].entry
      BY <1>0, <2>1, <2>4 DEF HandSignal, HandWait2, HandAt, HandGo, Handlers
    <3>2. heap' = heap
      BY <2>4 DEF HandSignal, HandWait2
    <3> QED
      BY <1>1, <2>1, <2>3, <3>1, <3>2 DEF Released, InHandler, Target, Entry
  <2>5. CASE HandWakeLoad(g)
    <3>1. /\ hand'[g].pc = "wake3_w" /\ hand'[g].entry = e /\ hand'[g].tmp = 2
          /\ heap'[e].wait_value = 2
      BY <1>0, <2>1, <2>5 DEF HandWakeLoad, HandAt, Handlers, EntryObjects
    <3> QED
      BY <1>1, <2>1, <2>3, <3>1 DEF Released, InHandler, Target, Entry
  <2>6. CASE HandWakeStore(g)
    <3>1. hand'[g].pc = "signal3" /\ heap'[e].wait_value = 3
      BY <1>0, <2>1, <2>6 DEF HandWakeStore, HandAt, Woken, Handlers, EntryObjects
    <3> QED
      BY <1>1, <2>1, <2>3, <3>1 DEF Released, Resting, Entry
  <2> QED
    BY <2>2, <2>4, <2>5, <2>6
<1> QED
  BY <1>2, <1>3 DEF Released

\* A thread that has exited takes no step of a handler.
LEMMA HandAlive ==
  ASSUME NEW g \in Threads, Gone(g), HandStep(g)
  PROVE  g \in alive
  BY DEF Gone, HandStep, Deliver, HandGetLock, HandGet, HandCopyUcontext, HandWakeLoad,
     HandWakeStore, HandSignal, HandWait2, HandAt

\* A step of SignalHandler moves the hand-shake of its own call on.
LEMMA HandOwn ==
  ASSUME IInv, TimelyInv, Slow = FALSE, NEW g \in Threads, HandStep(g),
         NEW u \in Threads, InEntry(u), call[u].target = g
  PROVE  Session(u)' /\ killed' = killed
<1>1. g \in alive /\ Session(u)
  BY HandAlive DEF TimelyInv, HandshakeInv
<1>2. call' = call /\ alive' = alive
  BY HandFrame
<1>3. CASE call[u].pc \in {"install", "kill", "undo", "unlock"}
  <2>1. Resting(g)' /\ heap' = heap /\ killed' = killed
    BY <1>1, <1>3, HandResting DEF Session
  <2> QED
    BY <1>1, <1>2, <1>3, <2>1 DEF Session, Entry
<1>4. CASE call[u].pc \in {"wait1", "wait1b"}
  <2>1. sigact = "handler"
    BY <1>4 DEF TimelyInv, HandlerStays, Installed
  <2>2. (Sent(u)' \/ Stopped(u)') /\ killed' = killed
    BY <1>1, <1>4, <2>1, HandSent, HandStopped, Zenon DEF Session
  <2> QED
    BY <1>2, <1>4, <2>2 DEF Session
<1>5. CASE call[u].pc \in {"restore", "sig_unlock", "unwind", "wake", "wake_w"}
  <2>1. Stopped(u)' /\ killed' = killed
    BY <1>1, <1>5, HandStopped, Zenon DEF Session
  <2> QED
    BY <1>1, <1>2, <1>5, <2>1 DEF Session
<1>6. CASE call[u].pc \in {"wait3", "wait3b"}
  <2>1. Released(u)' /\ killed' = killed
    BY <1>1, <1>6, HandReleased, Zenon DEF Session
  <2> QED
    BY <1>2, <1>6, <2>1 DEF Session
<1>7. CASE call[u].pc = "check"
  BY <1>1, <1>7 DEF Session
<1> QED
  BY <1>3, <1>4, <1>5, <1>6, <1>7 DEF InEntry

-----------------------------------------------------------------------------
(* The invariant is kept *)

\* Whoever changes the action holds g_sigaction_mutex.
LEMMA HandlerStaysCall ==
  ASSUME IInv, HandlerStays, NEW t \in Threads, CallStep(t)
  PROVE  HandlerStays'
<1>0. call \in [Threads -> Calls]
  BY DEF IInv, TypeInv, TypeOK
<1>1. ASSUME NEW u \in Threads, u # t PROVE Installed(u)' => Installed(u) /\ sigMutex = u
  BY <1>1, OthersStay DEF Installed, IInv, SigInv, InSig
<1>2. CASE Install(t) \/ Undo(t) \/ Restore(t)
  <2>1. sigMutex = t
    BY <1>2 DEF Install, Undo, Restore, At, IInv, SigInv, InSig
  <2>2. ASSUME NEW u \in Threads, Installed(u)' PROVE u = t
    BY <1>1, <2>1, <2>2
  <2>3. CASE Install(t)
    <3>1. sigact' = "handler" \/ call'[t].pc = "unlock"
      BY <1>0, <2>3 DEF Install, Calls
    <3> QED
      BY <2>2, <3>1 DEF HandlerStays, Installed
  <2>4. CASE Undo(t) \/ Restore(t)
    <3>1. call'[t].pc \in {"unlock", "sig_unlock"}
      BY <1>0, <2>4 DEF Undo, Restore, Go, Calls
    <3> QED
      BY <2>2, <3>1 DEF HandlerStays, Installed
  <2> QED
    BY <1>2, <2>3, <2>4
<1>3. CASE Kill(t) \/ Wait1(t)
  <2>1. sigact' = sigact /\ Installed(t)
    BY <1>3 DEF Kill, Wait1, At, Installed
  <2> QED
    BY <1>1, <2>1 DEF HandlerStays
<1>4. CASE \/ LockSigaction(t) \/ GetLock(t) \/ Get(t) \/ Lock(t) \/ UnlockSigaction(t)
           \/ UnwindFromContext(t) \/ WakeLoad(t) \/ WakeStore(t) \/ Wait3(t)
           \/ CheckGone(t) \/ Unlock(t) \/ RemoveLock(t) \/ Remove(t) \/ ErrorUnlock(t)
  <2>1. sigact' = sigact
    BY <1>4 DEF LockSigaction, GetLock, Get, Lock, UnlockSigaction, UnwindFromContext, WakeLoad,
       WakeStore, Wait3, CheckGone, Unlock, RemoveLock, Remove, ErrorUnlock
  <2>2. ~Installed(t)'
    <3>1. CASE LockSigaction(t) \/ GetLock(t) \/ Lock(t) \/ UnlockSigaction(t) \/ UnwindFromContext(t)
      BY <1>0, <3>1 DEF LockSigaction, GetLock, Lock, UnlockSigaction, UnwindFromContext, Go, Calls, Installed
    <3>2. CASE Get(t) \/ WakeLoad(t) \/ WakeStore(t) \/ Wait3(t)
      BY <1>0, <3>2 DEF Get, WakeLoad, WakeStore, Wait3, Go, Calls, Installed
    <3>3. CASE CheckGone(t) \/ Unlock(t) \/ RemoveLock(t) \/ Remove(t) \/ ErrorUnlock(t)
      BY <1>0, <3>3 DEF CheckGone, Unlock, RemoveLock, Remove, ErrorUnlock, Go, Calls, Installed
    <3> QED
      BY <1>4, <3>1, <3>2, <3>3
  <2> QED
    BY <1>1, <2>1, <2>2 DEF HandlerStays
<1> QED
  BY <1>2, <1>3, <1>4 DEF CallStep

\* A call leaves its hand-shake by Unlock only.
LEMMA CallLeaves ==
  ASSUME IInv, NEW t \in Threads, CallStep(t), InEntry(t), ~Unlock(t)
  PROVE  InEntry(t)' /\ call'[t].target = call[t].target
<1>0. call \in [Threads -> Calls]
  BY DEF IInv, TypeInv, TypeOK
<1>1. CASE Install(t) \/ Undo(t) \/ Restore(t) \/ UnlockSigaction(t) \/ UnwindFromContext(t)
  BY <1>0, <1>1 DEF Install, Undo, Restore, UnlockSigaction, UnwindFromContext, Go, Calls, InEntry
<1>2. CASE Kill(t) \/ CheckGone(t)
  BY <1>0, <1>2 DEF Kill, CheckGone, Go, Calls, InEntry
<1>3. CASE Wait1(t) \/ Wait3(t)
  BY <1>0, <1>3 DEF Wait1, Wait3, Go, Calls, InEntry
<1>4. CASE WakeLoad(t) \/ WakeStore(t)
  BY <1>0, <1>4 DEF WakeLoad, WakeStore, Calls, InEntry
<1> QED
  BY <1>1, <1>2, <1>3, <1>4 DEF CallStep, LockSigaction, GetLock, Get, Lock, RemoveLock, Remove,
     ErrorUnlock, At, InEntry

\* A step of UnwindThread keeps TimelyInv.
LEMMA TimelyCall ==
  ASSUME IInv, TimelyInv, Slow = FALSE, NEW t \in Threads, CallStep(t)
  PROVE  TimelyInv'
<1>0. /\ call \in [Threads -> Calls] /\ pending \in [Threads -> Seq(Signals)]
      /\ call[t].target \in Threads
  BY DEF IInv, TypeInv, TypeOK, Calls
<1>1. hand' = hand /\ alive' = alive /\ killed' = killed
  BY ZenonT(30) DEF CallStep, LockSigaction, GetLock, Get, Lock, Install, Kill, Undo, Wait1, Restore,
     UnlockSigaction, UnwindFromContext, WakeLoad, WakeStore, Wait3, CheckGone, Unlock,
     RemoveLock, Remove, ErrorUnlock, kernel
<1>2. \/ pending' = pending
      \/ /\ Kill(t) /\ call[t].target \in alive
         /\ \A h \in Threads : h # call[t].target => pending'[h] = pending[h]
  <2>1. CASE Kill(t)
    BY <1>0, <2>1 DEF Kill
  <2> QED
    BY <2>1, ZenonT(30) DEF CallStep, LockSigaction, GetLock, Get, Lock, Install, Undo, Wait1, Restore,
       UnlockSigaction, UnwindFromContext, WakeLoad, WakeStore, Wait3, CheckGone, Unlock,
       RemoveLock, Remove, ErrorUnlock, kernel
<1>3. ASSUME NEW u \in Threads, InEntry(u)' PROVE Session(u)'
  <2>1. CASE u = t
    BY <1>3, <2>1, CallOwn, Zenon DEF TimelyInv
  <2>2. CASE u # t
    <3>1. InEntry(u)
      BY <1>3, <2>2, OthersStay DEF InEntry
    <3>2. Session(u)
      BY <3>1 DEF TimelyInv, HandshakeInv
    <3> QED
      BY <2>2, <3>1, <3>2, CallFrame, SessionFrame
  <2> QED
    BY <2>1, <2>2
<1>4. ASSUME NEW g \in Threads PROVE Gone(g)'
  <2>1. Gone(g)
    BY DEF TimelyInv, HandshakeInv
  <2> QED
    BY <1>1, <1>2, <2>1 DEF Gone
<1>5. ASSUME NEW g \in Threads PROVE Left(g)'
  <2> SUFFICES ASSUME \A u \in Threads : InEntry(u)' => call'[u].target # g
               PROVE  Resting(g)'
    BY DEF Left
  <2>1. pending'[g] = pending[g]
    <3>1. Kill(t) => InEntry(t)' /\ call'[t].target = call[t].target
      BY CallLeaves, Zenon DEF Kill, Unlock, At, InEntry
    <3> QED
      BY <1>2, <3>1
  <2>2. Resting(g)
    <3>1. CASE \A u \in Threads : InEntry(u) => call[u].target # g
      BY <3>1 DEF TimelyInv, HandshakeInv, Left
    <3>2. CASE \E u \in Threads : InEntry(u) /\ call[u].target = g
      <4>1. PICK u \in Threads : InEntry(u) /\ call[u].target = g
        BY <3>2
      <4>2. u = t
        BY <4>1, OthersStay DEF InEntry
      <4>3. Unlock(t)
        BY <4>1, <4>2, CallLeaves
      <4>4. Session(t) /\ call[t].pc = "unlock"
        BY <4>1, <4>2, <4>3 DEF TimelyInv, HandshakeInv, Unlock, At
      <4> QED
        BY <4>1, <4>2, <4>4 DEF Session
    <3> QED
      BY <3>1, <3>2
  <2> QED
    BY <1>1, <2>1, <2>2 DEF Resting
<1>6. HandlerStays'
  BY HandlerStaysCall DEF TimelyInv
<1> QED
  BY <1>1, <1>3, <1>4, <1>5, <1>6 DEF TimelyInv, HandshakeInv

\* A step of SignalHandler keeps TimelyInv.
LEMMA TimelyHand ==
  ASSUME IInv, TimelyInv, Slow = FALSE, NEW g \in Threads, HandStep(g)
  PROVE  TimelyInv'
<1>0. \A u \in Threads : call[u].target \in Threads
  BY DEF IInv, TypeInv, TypeOK, Calls
<1>1. /\ call' = call /\ alive' = alive /\ sigact' = sigact
      /\ \A h \in Threads : h # g => hand'[h] = hand[h] /\ pending'[h] = pending[h]
  BY HandFrame
<1>2. g \in alive
  BY HandAlive DEF TimelyInv, HandshakeInv
<1>3. ASSUME NEW u \in Threads, InEntry(u)' PROVE Session(u)'
  <2>1. InEntry(u) /\ Session(u)
    BY <1>1, <1>3 DEF TimelyInv, HandshakeInv, InEntry
  <2>2. CASE call[u].target = g
    BY <2>1, <2>2, HandOwn, Zenon
  <2>3. CASE call[u].target # g
    <3>1. /\ heap'[call[u].entry].wait_value = heap[call[u].entry].wait_value
          /\ heap'[call[u].entry].ucontext = heap[call[u].entry].ucontext
      BY <2>1, <2>3, HandFrame
    <3> QED
      BY <1>0, <1>1, <2>1, <2>3, <3>1, SessionFrame
  <2> QED
    BY <2>2, <2>3
<1>4. ASSUME NEW h \in Threads PROVE Gone(h)'
  BY <1>1, <1>2 DEF Gone, TimelyInv, HandshakeInv
<1>5. ASSUME NEW h \in Threads PROVE Left(h)'
  <2>1. CASE \A u \in Threads : InEntry(u) => call[u].target # h
    <3>1. Resting(h)
      BY <2>1 DEF TimelyInv, HandshakeInv, Left
    <3>2. Resting(h)'
      <4>1. CASE h = g
        BY <3>1, <4>1, HandResting
      <4>2. CASE h # g
        BY <1>1, <3>1, <4>2 DEF Resting
      <4> QED
        BY <4>1, <4>2
    <3> QED
      BY <3>2 DEF Left
  <2>2. CASE ~\A u \in Threads : InEntry(u) => call[u].target # h
    BY <1>1, <2>2 DEF Left, InEntry
  <2> QED
    BY <2>1, <2>2
<1>6. HandlerStays'
  BY <1>1 DEF HandlerStays, Installed, TimelyInv
<1>7. ~killed'
  <2>1. CASE \A u \in Threads : InEntry(u) => call[u].target # g
    BY <2>1, HandResting DEF TimelyInv, HandshakeInv, Left
  <2>2. CASE \E u \in Threads : InEntry(u) /\ call[u].target = g
    BY <2>2, HandOwn, Zenon DEF TimelyInv
  <2> QED
    BY <2>1, <2>2
<1> QED
  BY <1>3, <1>4, <1>5, <1>6, <1>7 DEF TimelyInv, HandshakeInv

\* The exit of a thread keeps TimelyInv.
LEMMA TimelyExit ==
  ASSUME IInv, TimelyInv, NEW g \in Threads, Exit(g)
  PROVE  TimelyInv'
<1>0. pending \in [Threads -> Seq(Signals)] /\ \A u \in Threads : call[u].target \in Threads
  BY DEF IInv, TypeInv, TypeOK, Calls
<1>1. /\ call' = call /\ hand' = hand /\ heap' = heap /\ sigact' = sigact /\ killed' = killed
      /\ alive' = alive \ {g} /\ pending'[g] = <<>>
      /\ \A h \in Threads : h # g => pending'[h] = pending[h]
      /\ hand[g].pc = "idle"
  BY <1>0 DEF Exit, At
<1>2. ASSUME NEW u \in Threads, InEntry(u)' PROVE Session(u)'
  <2>1. InEntry(u) /\ Session(u)
    BY <1>1, <1>2 DEF TimelyInv, HandshakeInv, InEntry
  <2>2. CASE call[u].target = g
    <3>1. Resting(g)' /\ ~(call[u].target \in alive)' /\ ~Stopped(u)
      BY <1>1, <2>2, SMTT(30) DEF Resting, Stopped, InHandler, Target
    <3>2. Sent(u) => Sent(u)'
      BY <1>1, <3>1, SMTT(30) DEF Sent, Entry
    <3>3. Released(u) => Released(u)'
      BY <1>1, <2>2, <3>1, SMTT(30) DEF Released, InHandler, Target, Entry
    <3> QED
      BY <1>1, <2>1, <2>2, <3>1, <3>2, <3>3 DEF Session, Entry
  <2>3. CASE call[u].target # g
    BY <1>0, <1>1, <2>1, <2>3, SessionFrame
  <2> QED
    BY <2>2, <2>3
<1>3. ASSUME NEW h \in Threads PROVE Gone(h)' /\ Left(h)'
  <2>1. Gone(h) /\ Left(h)
    BY DEF TimelyInv, HandshakeInv
  <2>2. Gone(h)'
    BY <1>1, <2>1 DEF Gone
  <2>3. Resting(h) => Resting(h)'
    BY <1>1 DEF Resting
  <2> QED
    BY <1>1, <2>1, <2>2, <2>3 DEF Left, InEntry
<1>4. HandlerStays' /\ ~killed'
  BY <1>1 DEF HandlerStays, Installed, TimelyInv
<1> QED
  BY <1>2, <1>3, <1>4 DEF TimelyInv, HandshakeInv

\* A new call is not in a hand-shake yet; stuttering changes nothing.
LEMMA TimelyOther ==
  ASSUME IInv, TimelyInv, (\E t, h \in Threads : Call(t, h)) \/ UNCHANGED vars
  PROVE  TimelyInv'
<1>1. UNCHANGED <<sigact, heap, hand, pending, alive, killed>>
  BY Zenon DEF Call, vars, kernel
<1>2. ASSUME NEW u \in Threads
      PROVE  call'[u] = call[u] \/ (~InEntry(u) /\ ~Installed(u) /\ ~InEntry(u)' /\ ~Installed(u)')
  <2>0. call \in [Threads -> Calls]
    BY DEF IInv, TypeInv, TypeOK
  <2>1. ASSUME NEW t \in Threads, NEW h \in Threads, Call(t, h)
        PROVE  call'[u] = call[u] \/ (call[u].pc = "idle" /\ call'[u].pc = "sig_lock")
    <3>1. call[t].pc = "idle" /\ \E n : call' = [call EXCEPT ![t].pc = "sig_lock", ![t].target = h,
                                                           ![t].n = n, ![t].error = "none"]
      BY <2>1, Zenon DEF Call, At
    <3>2. CASE u = t
      BY <2>0, <3>1, <3>2 DEF Calls
    <3>3. CASE u # t
      BY <2>0, <3>1, <3>3
    <3> QED
      BY <3>2, <3>3
  <2> QED
    BY <2>1 DEF vars, InEntry, Installed
<1>3. ASSUME NEW u \in Threads, InEntry(u)' PROVE Session(u)'
  <2>1. call'[u] = call[u] /\ InEntry(u)
    BY <1>2, <1>3 DEF InEntry
  <2> QED
    BY <1>1, <2>1, SessionFrame DEF TimelyInv, HandshakeInv
<1>4. ASSUME NEW g \in Threads PROVE Gone(g)' /\ Left(g)'
  <2>1. Gone(g) /\ Left(g)
    BY DEF TimelyInv, HandshakeInv
  <2>2. (\A u \in Threads : InEntry(u)' => call'[u].target # g) =>
          \A u \in Threads : InEntry(u) => call[u].target # g
    BY <1>2 DEF InEntry
  <2> QED
    BY <1>1, <2>1, <2>2 DEF Gone, Left, Resting
<1>5. HandlerStays' /\ ~killed'
  BY <1>1, <1>2 DEF HandlerStays, Installed, TimelyInv
<1> QED
  BY <1>3, <1>4, <1>5 DEF TimelyInv, HandshakeInv

\* TimelyInv holds of the initial states.
LEMMA InitTimely == Init => TimelyInv
<1> SUFFICES ASSUME Init PROVE TimelyInv
  OBVIOUS
<1>1. \A t \in Threads : call[t].pc = "idle" /\ hand[t].pc = "idle" /\ pending[t] = <<>>
  BY DEF Init, NoHandler
<1>2. ~killed
  BY DEF Init
<1> QED
  BY <1>1, <1>2 DEF TimelyInv, HandlerStays, Installed, HandshakeInv, InEntry, Gone, Left, Resting

\* Every step keeps TimelyInv, when no wait runs out.
LEMMA NextTimely ==
  ASSUME Slow = FALSE
  PROVE  IInv /\ TimelyInv /\ [Next]_vars => TimelyInv'
  BY TimelyCall, TimelyHand, TimelyExit, TimelyOther, Zenon DEF Next, Finished

-----------------------------------------------------------------------------
(* Theorems *)

\* The invariant implies the three properties.
LEMMA TimelyImplies ==
  ASSUME IInv, TimelyInv
  PROVE  ReceivedBeforeContinuing /\ PausedWhileUnwound /\ NotKilled
<1>1. \A t \in Threads : InEntry(t) => Session(t)
  BY DEF TimelyInv, HandshakeInv
<1>2. ReceivedBeforeContinuing
  <2>1. ASSUME NEW t \in Threads, call[t].pc = "sig_unlock", call[t].completed
        PROVE  pending[call[t].target] = <<>>
    BY <1>1, <2>1 DEF InEntry, Session, Stopped, InHandler
  <2> QED
    BY <2>1 DEF ReceivedBeforeContinuing
<1>3. PausedWhileUnwound
  <2>1. ASSUME NEW t \in Threads, call[t].pc = "unwind" PROVE Stopped(t)
    BY <1>1, <2>1 DEF InEntry, Session
  <2> QED
    BY <2>1 DEF PausedWhileUnwound, Stopped, InHandler, Target, Entry, Signal
<1> QED
  BY <1>2, <1>3 DEF TimelyInv, NotKilled

\* When no wait runs out while the other side is alive, every call is at every
\* moment at the place of its hand-shake that TimelyInv gives it.
THEOREM TimelyInvariance ==
  ASSUME Slow = FALSE
  PROVE  Spec => [](IInv /\ TimelyInv)
<1>1. Init => IInv /\ TimelyInv
  BY InitIInv, InitTimely
<1>2. (IInv /\ TimelyInv) /\ [Next]_vars => (IInv /\ TimelyInv)'
  BY NextIInv, NextTimely, Zenon
<1> QED
  BY <1>1, <1>2, PTL DEF Spec

\* The comment of UnwindThread ("allow other threads to continue"): when it gives
\* g_sigaction_mutex back after a successful Wait(1), its signal is not queued.
THEOREM SignalReceived ==
  ASSUME Slow = FALSE
  PROVE  Spec => []ReceivedBeforeContinuing
<1>1. IInv /\ TimelyInv => ReceivedBeforeContinuing
  BY TimelyImplies
<1> QED
  BY <1>1, TimelyInvariance, PTL

\* UnwindFromContext works on the ucontext that SignalHandler saved for this very
\* call, and the thread stands in that handler meanwhile.
THEOREM PausedForUnwind ==
  ASSUME Slow = FALSE
  PROVE  Spec => []PausedWhileUnwound
<1>1. IInv /\ TimelyInv => PausedWhileUnwound
  BY TimelyImplies
<1> QED
  BY <1>1, TimelyInvariance, PTL

\* A signal of tgkill in UnwindThread is delivered while SignalHandler is
\* installed, never to the default action that would end the process.
THEOREM NeverKilled ==
  ASSUME Slow = FALSE
  PROVE  Spec => []NotKilled
<1>1. IInv /\ TimelyInv => NotKilled
  BY TimelyImplies
<1> QED
  BY <1>1, TimelyInvariance, PTL

==============================================================================
