---------------------------- MODULE Channel_proofs ----------------------------
(***************************************************************************)
(* Machine-checked proofs about Channel, for any set of channels, any      *)
(* capacity and any number of threads in any of the roles:                 *)
(*   TypeCorrect                     Spec => []TypeOK                      *)
(*   WithinCapacityAlways            Spec => []WithinCapacity              *)
(*   ClosedIsFinalAlways             Spec => []ClosedIsFinal               *)
(*   NoWakeUpIsLostAlways            Spec => []NoWakeUpIsLost              *)
(*   SelectorsAreNotForgottenAlways  Spec => []SelectorsAreNotForgotten    *)
(*   SelectFindsTheEndAlways         Spec => []SelectFindsTheEnd           *)
(*   LocksAreOrderedAlways           Spec => []LocksAreOrdered             *)
(*   CallsNeverDeadlockAlways        Spec => []CallsNeverDeadlock          *)
(* They rest on the inductive invariant IInv: who holds which lock         *)
(* (LocksInv), hence what a thread saw under it still holds (WaitInv,      *)
(* FinalInv, ScanInv, SeenInv), and the balance of messages, slots and     *)
(* threads on their way to them (MessageInv, SlotInv).                     *)
(***************************************************************************)
EXTENDS Channel, TLAPS, FiniteSetTheorems

-----------------------------------------------------------------------------
(* The inductive invariant. *)

\* The critical sections of the queue's mutex and of the parker's lock.
HoldsQueue(t) == pc[t] \in {"s_push", "s_wait", "r_wait"}
HoldsPark(t)  == pc[t] \in {"w_notify", "x_scan", "x_notify", "x_unlock"}

\* A mutex is held by exactly the thread that is in its critical section.
LocksInv ==
  /\ \A c \in Chans, t \in Threads : holder[c] = t <=> HoldsQueue(t) /\ chan[t] = c
  /\ \A t \in Threads : park_holder = t <=> HoldsPark(t)

SelectLabels == {"x_lock", "x_scan", "x_notify", "x_asleep", "x_unlock", "x_leave"}
Selecting == {t \in Threads : pc[t] \in SelectLabels}

\* SelectPark::selectors is the number of selects in progress.
CountInv == selectors = Cardinality(Selecting)

\* What a thread saw before it goes to sleep still holds, as it has the mutex.
WaitInv ==
  \A t \in Threads :
    /\ pc[t] = "s_wait" => Full(chan[t])
    /\ pc[t] = "r_wait" => len[chan[t]] = 0

-----------------------------------------------------------------------------
(* Counting threads. *)

\* A set of threads can be counted.
LEMMA ThreadsAreFinite ==
  ASSUME NEW S, S \subseteq Threads
  PROVE  /\ IsFiniteSet(S)
         /\ Cardinality(S) \in Nat
         /\ Cardinality(S) <= Cardinality(Threads)
<1>1. IsFiniteSet(S) /\ Cardinality(S) <= Cardinality(Threads)
  BY ChannelAssumption, FS_Subset
<1> QED
  BY <1>1, FS_CardinalityType

-----------------------------------------------------------------------------
(* Types. *)

\* A step keeps the count of the selectors.
LEMMA CountStep ==
  ASSUME TypeOK, CountInv, [Next]_vars
  PROVE  CountInv'
<1> USE DEF Selecting, SelectLabels, TypeOK
<1>0. IsFiniteSet(Selecting) /\ Cardinality(Selecting) \in Nat
  BY ThreadsAreFinite
<1>s. ASSUME Selecting' = Selecting, selectors' = selectors PROVE CountInv'
  BY <1>s DEF CountInv
<1>1. ASSUME NEW t \in Threads, NEW c \in Chans,
             SendCall(t, c) \/ RecvCall(t, c) \/ TryRecv(t, c) \/ CloseCall(t, c)
      PROVE  CountInv'
  <2>1. Selecting' = Selecting /\ selectors' = selectors
    BY <1>1 DEF SendCall, RecvCall, TryRecv, CloseCall, At, Goto, parkVars
  <2> QED
    BY <2>1, <1>s
<1>2. ASSUME NEW t \in Threads, NEW else \in BOOLEAN, SelectCall(t, else)
      PROVE  CountInv'
  <2>1. Selecting' = Selecting \cup {t} /\ t \notin Selecting /\ selectors' = selectors + 1
    BY <1>2 DEF SelectCall, At, Goto
  <2> QED
    BY <1>0, <2>1, FS_AddElement DEF CountInv
<1>3. ASSUME NEW t \in Threads, SelectLeave(t)
      PROVE  CountInv'
  <2>1. Selecting' = Selecting \ {t} /\ t \in Selecting /\ selectors' = selectors - 1
    BY <1>3 DEF SelectLeave, At, Goto
  <2> HIDE DEF Selecting
  <2>2. Cardinality(Selecting \ {t}) = Cardinality(Selecting) - 1
    BY <1>0, <2>1, FS_RemoveElement
  <2> QED
    BY <2>1, <2>2 DEF CountInv
<1>4. ASSUME NEW t \in Threads, SpuriousWake(t) PROVE CountInv'
  <2>1. Selecting' = Selecting /\ selectors' = selectors
    BY <1>4 DEF SpuriousWake, Goto, Awake, parkVars
  <2> QED
    BY <2>1, <1>s
<1>5. ASSUME NEW t \in Threads,
             SendEnter(t) \/ SendSleep(t) \/ SendPush(t) \/ RecvEnter(t) \/ RecvSleep(t)
      PROVE  CountInv'
  <2>1. Selecting' = Selecting /\ selectors' = selectors
    BY <1>5 DEF SendEnter, SendSleep, SendPush, RecvEnter, RecvSleep, At, Goto, parkVars
  <2> QED
    BY <2>1, <1>s
<1>6. ASSUME NEW t \in Threads, SendNotify(t) \/ RecvNotify(t) \/ SelectNotify(t)
      PROVE  CountInv'
  <2>1. Selecting' = Selecting /\ selectors' = selectors
    BY <1>6 DEF SendNotify, RecvNotify, SelectNotify, NotifyOne, Asleep, At, Goto, parkVars
  <2> QED
    BY <2>1, <1>s
<1>7. ASSUME NEW t \in Threads,
             \/ CloseNotifyEmpty(t) \/ CloseNotifyFull(t)
             \/ WakeLoad(t) \/ WakeLock(t) \/ WakeNotify(t)
      PROVE  CountInv'
  <2>1. Selecting' = Selecting /\ selectors' = selectors
    BY <1>7 DEF CloseNotifyEmpty, CloseNotifyFull, WakeLoad, WakeLock, WakeNotify, NotifyAll,
                Asleep, At, Goto, parkVars
  <2> QED
    BY <2>1, <1>s
<1>8. ASSUME NEW t \in Threads,
             SelectLock(t) \/ SelectNoHit(t) \/ SelectUnlock(t) \/ \E c \in Chans : SelectTry(t, c)
      PROVE  CountInv'
  <2>1. Selecting' = Selecting /\ selectors' = selectors
    BY <1>8 DEF SelectLock, SelectNoHit, SelectUnlock, SelectTry, At, Goto, parkVars
  <2> QED
    BY <2>1, <1>s
<1>9. CASE UNCHANGED vars
  BY <1>9, <1>s DEF vars, parkVars
<1> QED
  BY <1>1, <1>2, <1>3, <1>4, <1>5, <1>6, <1>7, <1>8, <1>9 DEF Next, Call, Step, Threads

\* The initial state is well typed.
LEMMA TypeInit ==
  ASSUME Init
  PROVE  TypeOK /\ CountInv
<1>1. (CHOOSE c \in Chans : TRUE) \in Chans
  BY ChannelAssumption
<1>2. Selecting = {}
  BY DEF Init, Selecting, SelectLabels
<1>3. CountInv
  BY <1>2, FS_EmptySet DEF Init, CountInv
<1>4. selectors \in 0..Cardinality(Threads)
  BY ThreadsAreFinite DEF Init
<1> QED
  BY <1>1, <1>3, <1>4 DEF Init, TypeOK, Labels

\* Every step keeps the types.
LEMMA TypeStep ==
  ASSUME TypeOK, CountInv', [Next]_vars
  PROVE  TypeOK'
<1> USE DEF TypeOK, Labels, chanVars, parkVars, selectVars
<1>0. selectors' \in 0..Cardinality(Threads)
  <2>1. Selecting' \subseteq Threads
    BY DEF Selecting
  <2>2. Cardinality(Selecting') \in Nat /\ Cardinality(Selecting') <= Cardinality(Threads)
    BY <2>1, ThreadsAreFinite
  <2> QED
    BY <2>2, ThreadsAreFinite DEF CountInv
<1>1. ASSUME NEW t \in Threads, NEW c \in Chans,
             SendCall(t, c) \/ RecvCall(t, c) \/ TryRecv(t, c) \/ CloseCall(t, c)
      PROVE  TypeOK'
  <2>1. CASE SendCall(t, c) \/ RecvCall(t, c)
    BY <1>0, <2>1 DEF SendCall, RecvCall, Goto
  <2>2. CASE TryRecv(t, c)
    BY <1>0, <2>2 DEF TryRecv, Goto
  <2>3. CASE CloseCall(t, c)
    BY <1>0, <2>3 DEF CloseCall, Goto
  <2> QED
    BY <1>1, <2>1, <2>2, <2>3
<1>2. ASSUME NEW t \in Threads, NEW else \in BOOLEAN, SelectCall(t, else)
      PROVE  TypeOK'
  BY <1>0, <1>2 DEF SelectCall, At, Goto
<1>3. ASSUME NEW t \in Threads, SelectLeave(t) \/ SpuriousWake(t)
      PROVE  TypeOK'
  <2>1. CASE SelectLeave(t)
    BY <1>0, <2>1 DEF SelectLeave, Goto
  <2>2. CASE SpuriousWake(t)
    <3>1. Awake[pc[t]] \in Labels
      BY <2>2 DEF SpuriousWake, Awake
    <3> QED
      BY <1>0, <2>2, <3>1 DEF SpuriousWake, Goto
  <2> QED
    BY <1>3, <2>1, <2>2
<1>4. ASSUME NEW t \in Threads,
             SendEnter(t) \/ SendSleep(t) \/ SendPush(t) \/ RecvEnter(t) \/ RecvSleep(t)
      PROVE  TypeOK'
  <2>1. CASE SendEnter(t)
    BY <1>0, <2>1 DEF SendEnter, Lock, Goto
  <2>2. CASE SendSleep(t) \/ SendPush(t) \/ RecvSleep(t)
    BY <1>0, <2>2 DEF SendSleep, SendPush, RecvSleep, Unlock, Goto
  <2>3. CASE RecvEnter(t)
    <3>1. len' \in [Chans -> Nat]
      BY <2>3 DEF RecvEnter
    <3>2. pc' \in [Threads -> Labels]
      BY <2>3 DEF RecvEnter, Goto
    <3>3. told' \in [Chans -> BOOLEAN]
      BY <2>3 DEF RecvEnter
    <3>4. holder' \in [Chans -> Threads \cup {NoOne}]
      <4>1. holder' = holder \/ holder' = [holder EXCEPT ![chan[t]] = t]
        BY <2>3 DEF RecvEnter, Lock
      <4> QED
        BY <4>1
    <3> QED
      BY <1>0, <2>3, <3>1, <3>2, <3>3, <3>4 DEF RecvEnter
  <2> QED
    BY <1>4, <2>1, <2>2, <2>3
<1>5. ASSUME NEW t \in Threads, SendNotify(t) \/ RecvNotify(t) \/ SelectNotify(t)
      PROVE  TypeOK'
  BY <1>0, <1>5 DEF SendNotify, RecvNotify, SelectNotify, NotifyOne, Asleep, At, Goto
<1>6. ASSUME NEW t \in Threads,
             \/ CloseNotifyEmpty(t) \/ CloseNotifyFull(t)
             \/ WakeLoad(t) \/ WakeLock(t) \/ WakeNotify(t)
      PROVE  TypeOK'
  BY <1>0, <1>6 DEF CloseNotifyEmpty, CloseNotifyFull, WakeLoad, WakeLock, WakeNotify, NotifyAll,
                    Asleep, At, Goto
<1>7. ASSUME NEW t \in Threads,
             SelectLock(t) \/ SelectNoHit(t) \/ SelectUnlock(t) \/ \E c \in Chans : SelectTry(t, c)
      PROVE  TypeOK'
  <2>1. CASE SelectLock(t)
    <3>1. pc' \in [Threads -> Labels] /\ left' \in [Selectors -> SUBSET Chans]
      BY <2>1 DEF SelectLock, Goto
    <3> QED
      BY <1>0, <2>1, <3>1 DEF SelectLock
  <2>4. CASE SelectUnlock(t)
    BY <1>0, <2>4 DEF SelectUnlock, Goto
  <2>2. CASE SelectNoHit(t)
    BY <1>0, <2>2 DEF SelectNoHit, Goto
  <2>3. ASSUME NEW c \in Chans, SelectTry(t, c) PROVE TypeOK'
    <3>1. len' \in [Chans -> Nat]
      BY <2>3 DEF SelectTry
    <3>2. pc' \in [Threads -> Labels]
      BY <2>3 DEF SelectTry, Goto
    <3>3. left' \in [Selectors -> SUBSET Chans]
      BY <2>3 DEF SelectTry
    <3>4. /\ told' \in [Chans -> BOOLEAN] /\ chan' \in [Threads -> Chans]
          /\ all_closed' \in [Selectors -> BOOLEAN]
          /\ answer' \in [Selectors -> {"none", "fired", "else", "all_closed"}]
      BY <2>3 DEF SelectTry, SoFarClosed
    <3> QED
      BY <1>0, <2>3, <3>1, <3>2, <3>3, <3>4 DEF SelectTry
  <2> QED
    BY <1>7, <2>1, <2>2, <2>3, <2>4
<1>8. CASE UNCHANGED vars
  BY <1>8 DEF vars
<1> HIDE DEF TypeOK
<1> QED
  BY <1>1, <1>2, <1>3, <1>4, <1>5, <1>6, <1>7, <1>8 DEF Next, Call, Step, Threads

\* Every step keeps each lock with the thread in its critical section.
LEMMA LocksStep ==
  ASSUME TypeOK, LocksInv, [Next]_vars
  PROVE  LocksInv'
<1> USE ChannelAssumption
    DEF TypeOK, LocksInv, HoldsQueue, HoldsPark, chanVars, parkVars, selectVars
<1>1. ASSUME NEW t \in Threads, NEW c \in Chans,
             SendCall(t, c) \/ RecvCall(t, c) \/ TryRecv(t, c) \/ CloseCall(t, c)
      PROVE  LocksInv'
  BY <1>1 DEF SendCall, RecvCall, TryRecv, CloseCall, At, Goto
<1>2. ASSUME NEW t \in Threads, NEW else \in BOOLEAN, SelectCall(t, else)
      PROVE  LocksInv'
  BY <1>2 DEF SelectCall, At, Goto
<1>3. ASSUME NEW t \in Threads, SelectLeave(t) \/ SpuriousWake(t)
      PROVE  LocksInv'
  BY <1>3 DEF SelectLeave, SpuriousWake, Awake, At, Goto
<1>4. ASSUME NEW t \in Threads,
             SendEnter(t) \/ SendSleep(t) \/ SendPush(t) \/ RecvEnter(t) \/ RecvSleep(t)
      PROVE  LocksInv'
  BY <1>4 DEF SendEnter, SendSleep, SendPush, RecvEnter, RecvSleep, Lock, Unlock, At, Goto
<1>5. ASSUME NEW t \in Threads, SendNotify(t) \/ RecvNotify(t) \/ SelectNotify(t)
      PROVE  LocksInv'
  BY <1>5 DEF SendNotify, RecvNotify, SelectNotify, NotifyOne, Asleep, At, Goto
<1>6. ASSUME NEW t \in Threads,
             \/ CloseNotifyEmpty(t) \/ CloseNotifyFull(t)
             \/ WakeLoad(t) \/ WakeLock(t) \/ WakeNotify(t)
      PROVE  LocksInv'
  BY <1>6 DEF CloseNotifyEmpty, CloseNotifyFull, WakeLoad, WakeLock, WakeNotify, NotifyAll,
              Asleep, At, Goto
<1>7. ASSUME NEW t \in Threads,
             SelectLock(t) \/ SelectNoHit(t) \/ SelectUnlock(t) \/ \E c \in Chans : SelectTry(t, c)
      PROVE  LocksInv'
  BY <1>7 DEF SelectLock, SelectNoHit, SelectUnlock, SelectTry, At, Goto
<1>8. CASE UNCHANGED vars
  BY <1>8 DEF vars
<1> QED
  BY <1>1, <1>2, <1>3, <1>4, <1>5, <1>6, <1>7, <1>8 DEF Next, Call, Step, Threads

-----------------------------------------------------------------------------
(* What a thread saw before it sleeps. *)

\* No step takes away what a thread that is about to sleep has seen.
LEMMA WaitStep ==
  ASSUME TypeOK, LocksInv, WaitInv, [Next]_vars
  PROVE  WaitInv'
<1> USE ChannelAssumption
    DEF TypeOK, LocksInv, WaitInv, HoldsQueue, Full, chanVars, parkVars, selectVars
<1>1. ASSUME NEW t \in Threads, NEW c \in Chans,
             SendCall(t, c) \/ RecvCall(t, c) \/ TryRecv(t, c) \/ CloseCall(t, c)
      PROVE  WaitInv'
  BY <1>1 DEF SendCall, RecvCall, TryRecv, CloseCall, At, Goto
<1>2. ASSUME NEW t \in Threads, NEW else \in BOOLEAN, SelectCall(t, else)
      PROVE  WaitInv'
  BY <1>2 DEF SelectCall, At, Goto
<1>3. ASSUME NEW t \in Threads, SelectLeave(t) \/ SpuriousWake(t)
      PROVE  WaitInv'
  BY <1>3 DEF SelectLeave, SpuriousWake, Awake, At, Goto
<1>4. ASSUME NEW t \in Threads,
             SendEnter(t) \/ SendSleep(t) \/ SendPush(t) \/ RecvEnter(t) \/ RecvSleep(t)
      PROVE  WaitInv'
  BY <1>4 DEF SendEnter, SendSleep, SendPush, RecvEnter, RecvSleep, Lock, Unlock, At, Goto
<1>5. ASSUME NEW t \in Threads, SendNotify(t) \/ RecvNotify(t) \/ SelectNotify(t)
      PROVE  WaitInv'
  BY <1>5 DEF SendNotify, RecvNotify, SelectNotify, NotifyOne, Asleep, At, Goto
<1>6. ASSUME NEW t \in Threads,
             \/ CloseNotifyEmpty(t) \/ CloseNotifyFull(t)
             \/ WakeLoad(t) \/ WakeLock(t) \/ WakeNotify(t)
      PROVE  WaitInv'
  BY <1>6 DEF CloseNotifyEmpty, CloseNotifyFull, WakeLoad, WakeLock, WakeNotify, NotifyAll,
              Asleep, At, Goto
<1>7. ASSUME NEW t \in Threads,
             SelectLock(t) \/ SelectNoHit(t) \/ SelectUnlock(t) \/ \E c \in Chans : SelectTry(t, c)
      PROVE  WaitInv'
  BY <1>7 DEF SelectLock, SelectNoHit, SelectUnlock, SelectTry, At, Goto
<1>8. CASE UNCHANGED vars
  BY <1>8 DEF vars
<1> HIDE DEF TypeOK, LocksInv, WaitInv
<1> QED
  BY <1>1, <1>2, <1>3, <1>4, <1>5, <1>6, <1>7, <1>8 DEF Next, Call, Step, Threads

-----------------------------------------------------------------------------
(* closed is final. *)

\* After a receive has reported Closed nobody is past the check of `closed` on
\* the way to push: whoever was held the mutex the receive took.
FinalInv ==
  \A c \in Chans : told[c] =>
    closed[c] /\ len[c] = 0 /\ \A t \in Threads : pc[t] = "s_push" => chan[t] # c

\* Nobody gets past that check afterwards.
LEMMA FinalStep ==
  ASSUME TypeOK, LocksInv, FinalInv, [Next]_vars
  PROVE  FinalInv'
<1> USE ChannelAssumption
    DEF TypeOK, LocksInv, FinalInv, HoldsQueue, chanVars, parkVars, selectVars
<1>1. ASSUME NEW t \in Threads, NEW c \in Chans,
             SendCall(t, c) \/ RecvCall(t, c) \/ TryRecv(t, c) \/ CloseCall(t, c)
      PROVE  FinalInv'
  BY <1>1 DEF SendCall, RecvCall, TryRecv, CloseCall, At, Goto
<1>2. ASSUME NEW t \in Threads, NEW else \in BOOLEAN, SelectCall(t, else)
      PROVE  FinalInv'
  BY <1>2 DEF SelectCall, At, Goto
<1>3. ASSUME NEW t \in Threads, SelectLeave(t) \/ SpuriousWake(t)
      PROVE  FinalInv'
  BY <1>3 DEF SelectLeave, SpuriousWake, Awake, At, Goto
<1>4. ASSUME NEW t \in Threads,
             SendEnter(t) \/ SendSleep(t) \/ SendPush(t) \/ RecvEnter(t) \/ RecvSleep(t)
      PROVE  FinalInv'
  BY <1>4 DEF SendEnter, SendSleep, SendPush, RecvEnter, RecvSleep, Lock, Unlock, At, Goto
<1>5. ASSUME NEW t \in Threads, SendNotify(t) \/ RecvNotify(t) \/ SelectNotify(t)
      PROVE  FinalInv'
  BY <1>5 DEF SendNotify, RecvNotify, SelectNotify, NotifyOne, Asleep, At, Goto
<1>6. ASSUME NEW t \in Threads,
             \/ CloseNotifyEmpty(t) \/ CloseNotifyFull(t)
             \/ WakeLoad(t) \/ WakeLock(t) \/ WakeNotify(t)
      PROVE  FinalInv'
  BY <1>6 DEF CloseNotifyEmpty, CloseNotifyFull, WakeLoad, WakeLock, WakeNotify, NotifyAll,
              Asleep, At, Goto
<1>7. ASSUME NEW t \in Threads,
             SelectLock(t) \/ SelectNoHit(t) \/ SelectUnlock(t) \/ \E c \in Chans : SelectTry(t, c)
      PROVE  FinalInv'
  BY <1>7 DEF SelectLock, SelectNoHit, SelectUnlock, SelectTry, At, Goto
<1>8. CASE UNCHANGED vars
  BY <1>8 DEF vars
<1> HIDE DEF TypeOK, LocksInv, FinalInv
<1> QED
  BY <1>1, <1>2, <1>3, <1>4, <1>5, <1>6, <1>7, <1>8 DEF Next, Call, Step, Threads

-----------------------------------------------------------------------------
(* No wake-up is lost. *)

\* Who is on the way to a message of channel c, and who to a free slot of it.
ForMessage(c) == {t \in Threads : chan[t] = c /\ pc[t] \in {"s_notify", "r_lock"}}
ForSlot(c)    == {t \in Threads : chan[t] = c
                                  /\ pc[t] \in {"r_notify", "x_notify", "s_lock", "s_push"}}

MessageInv ==
  \A c \in Chans : Asleep("r_asleep", c) # {} => len[c] <= Cardinality(ForMessage(c))

SlotInv ==
  \A c \in Bounded :
    Asleep("s_asleep", c) # {} /\ ~closed[c] => Cap - len[c] <= Cardinality(ForSlot(c))

\* How the size of a set of threads follows its members.
LEMMA Counting ==
  ASSUME NEW A, NEW B, A \subseteq Threads, B \subseteq Threads
  PROVE  /\ Cardinality(A) \in Nat /\ Cardinality(B) \in Nat
         /\ A \subseteq B => Cardinality(A) <= Cardinality(B)
         /\ \A t : A \ {t} \subseteq B => Cardinality(A) - 1 <= Cardinality(B)
         /\ \A t : A \cup {t} \subseteq B /\ t \notin A => Cardinality(A) + 1 <= Cardinality(B)
         /\ \A t, u : (A \ {t}) \cup {u} \subseteq B /\ u \notin A
                        => Cardinality(A) <= Cardinality(B)
<1>1. IsFiniteSet(A) /\ IsFiniteSet(B) /\ Cardinality(A) \in Nat /\ Cardinality(B) \in Nat
  BY ThreadsAreFinite
<1>2. ASSUME NEW S, S \subseteq B
      PROVE  Cardinality(S) <= Cardinality(B)
  BY <1>1, <1>2, FS_Subset
<1>3. ASSUME NEW t
      PROVE  /\ IsFiniteSet(A \ {t}) /\ Cardinality(A \ {t}) \in Nat
             /\ Cardinality(A \ {t}) >= Cardinality(A) - 1
  <2>1. /\ IsFiniteSet(A \ {t})
        /\ Cardinality(A \ {t}) = IF t \in A THEN Cardinality(A) - 1 ELSE Cardinality(A)
    BY <1>1, FS_RemoveElement
  <2>2. Cardinality(A \ {t}) \in Nat
    BY <2>1, FS_CardinalityType
  <2> QED
    BY <1>1, <2>1, <2>2
<1>4. ASSUME NEW t, A \ {t} \subseteq B
      PROVE  Cardinality(A) - 1 <= Cardinality(B)
  <2>1. Cardinality(A \ {t}) <= Cardinality(B)
    BY <1>2, <1>4
  <2>2. Cardinality(A \ {t}) \in Nat /\ Cardinality(A \ {t}) >= Cardinality(A) - 1
    BY <1>3
  <2> QED
    BY <1>1, <2>1, <2>2
<1>5. ASSUME NEW t, A \cup {t} \subseteq B, t \notin A
      PROVE  Cardinality(A) + 1 <= Cardinality(B)
  <2>1. Cardinality(A \cup {t}) = Cardinality(A) + 1
    BY <1>1, <1>5, FS_AddElement
  <2> QED
    BY <1>2, <1>5, <2>1
<1>6. ASSUME NEW t, NEW u, (A \ {t}) \cup {u} \subseteq B, u \notin A
      PROVE  Cardinality(A) <= Cardinality(B)
  <2>1. Cardinality((A \ {t}) \cup {u}) = Cardinality(A \ {t}) + 1
    BY <1>3, <1>6, FS_AddElement
  <2>2. Cardinality((A \ {t}) \cup {u}) <= Cardinality(B)
    BY <1>2, <1>6
  <2>3. Cardinality(A \ {t}) \in Nat /\ Cardinality(A \ {t}) >= Cardinality(A) - 1
    BY <1>3
  <2> QED
    BY <1>1, <2>1, <2>2, <2>3
<1> QED
  BY <1>1, <1>2, <1>4, <1>5, <1>6

\* Whoever is counted is counted once.
LEMMA WakersCounted ==
  ASSUME NEW c
  PROVE  /\ Cardinality(ForMessage(c)) = On("s_notify", c) + On("r_lock", c)
         /\ Cardinality(ForSlot(c)) = On("r_notify", c) + On("x_notify", c)
                                        + On("s_lock", c) + On("s_push", c)
<1> DEFINE A(label) == Asleep(label, c)
<1>1. ASSUME NEW label PROVE IsFiniteSet(A(label)) /\ Cardinality(A(label)) \in Nat
  BY ThreadsAreFinite DEF Asleep
<1>2. ASSUME NEW S, NEW label, IsFiniteSet(S), S \cap A(label) = {}
      PROVE  /\ IsFiniteSet(S \cup A(label))
             /\ Cardinality(S \cup A(label)) = Cardinality(S) + Cardinality(A(label))
  <2>1. Cardinality(S \cap A(label)) = 0
    BY <1>2, FS_EmptySet
  <2>2. Cardinality(S) \in Nat
    BY <1>2, FS_CardinalityType
  <2> QED
    BY <1>1, <1>2, <2>1, <2>2, FS_Union
<1>3. /\ ForMessage(c) = A("s_notify") \cup A("r_lock")
      /\ ForSlot(c) = ((A("r_notify") \cup A("x_notify")) \cup A("s_lock")) \cup A("s_push")
  BY DEF ForMessage, ForSlot, Asleep
<1>4. /\ A("s_notify") \cap A("r_lock") = {}
      /\ A("r_notify") \cap A("x_notify") = {}
      /\ (A("r_notify") \cup A("x_notify")) \cap A("s_lock") = {}
      /\ ((A("r_notify") \cup A("x_notify")) \cup A("s_lock")) \cap A("s_push") = {}
  BY DEF Asleep
<1> HIDE DEF A
<1>5. Cardinality(ForMessage(c)) = Cardinality(A("s_notify")) + Cardinality(A("r_lock"))
  BY <1>1, <1>2, <1>3, <1>4
<1>6. /\ IsFiniteSet(A("r_notify") \cup A("x_notify"))
      /\ Cardinality(A("r_notify") \cup A("x_notify"))
           = Cardinality(A("r_notify")) + Cardinality(A("x_notify"))
  BY <1>1, <1>2, <1>4
<1>7. /\ IsFiniteSet((A("r_notify") \cup A("x_notify")) \cup A("s_lock"))
      /\ Cardinality((A("r_notify") \cup A("x_notify")) \cup A("s_lock"))
           = Cardinality(A("r_notify")) + Cardinality(A("x_notify")) + Cardinality(A("s_lock"))
  BY <1>2, <1>4, <1>6
<1>8. Cardinality(ForSlot(c))
        = Cardinality(A("r_notify")) + Cardinality(A("x_notify")) + Cardinality(A("s_lock"))
            + Cardinality(A("s_push"))
  BY <1>2, <1>3, <1>4, <1>7
<1> QED
  BY <1>5, <1>8 DEF A, On

\* While a receiver sleeps, a message added brings the thread that will notify,
\* and that thread wakes somebody; one taken leaves with whoever took it.
LEMMA MessageStep ==
  ASSUME TypeOK, TypeOK', WaitInv, MessageInv, [Next]_vars
  PROVE  MessageInv'
<1> DEFINE Sleepers(c) == Asleep("r_asleep", c)
           Quiet(c) == /\ Sleepers(c)' \subseteq Sleepers(c)
                       /\ ForMessage(c) \subseteq ForMessage(c)'
                       /\ len'[c] <= len[c]
<1>0. ASSUME NEW c \in Chans
      PROVE  /\ len[c] \in Nat /\ len'[c] \in Nat
             /\ ForMessage(c) \subseteq Threads /\ ForMessage(c)' \subseteq Threads
             /\ Sleepers(c) # {} => len[c] <= Cardinality(ForMessage(c))
             /\ Cardinality(ForMessage(c)) \in Nat /\ Cardinality(ForMessage(c)') \in Nat
  <2>1. ForMessage(c) \subseteq Threads /\ ForMessage(c)' \subseteq Threads
    BY DEF ForMessage
  <2> QED
    BY <2>1, ThreadsAreFinite DEF TypeOK, MessageInv
<1>q. ASSUME NEW c \in Chans, Quiet(c)
      PROVE  Sleepers(c)' # {} => len'[c] <= Cardinality(ForMessage(c)')
  <2>1. Cardinality(ForMessage(c)) <= Cardinality(ForMessage(c)')
    BY <1>0, <1>q, Counting
  <2> QED
    BY <1>0, <1>q, <2>1
<1>e. ASSUME NEW c \in Chans, len'[c] = 0 \/ Sleepers(c)' = {}
      PROVE  Sleepers(c)' # {} => len'[c] <= Cardinality(ForMessage(c)')
  BY <1>0, <1>e
<1>g. ASSUME NEW C, \A c \in Chans \ {C} : Quiet(c),
             C \in Chans => (Sleepers(C)' # {} => len'[C] <= Cardinality(ForMessage(C)'))
      PROVE  MessageInv'
  BY <1>q, <1>g DEF MessageInv
<1>n. ASSUME \A c \in Chans : Quiet(c) PROVE MessageInv'
  BY <1>n, <1>q DEF MessageInv
<1> USE DEF chanVars, parkVars, selectVars
<1>1. ASSUME NEW t \in Threads, NEW C \in Chans,
             SendCall(t, C) \/ RecvCall(t, C) \/ TryRecv(t, C) \/ CloseCall(t, C)
      PROVE  MessageInv'
  <2>1. \A c \in Chans : Quiet(c)
    BY <1>1 DEF TypeOK, ForMessage, Asleep, SendCall, RecvCall, TryRecv, CloseCall, At, Goto
  <2> QED
    BY <2>1, <1>n
<1>2. ASSUME NEW t \in Threads,
             \/ \E else \in BOOLEAN : SelectCall(t, else)
             \/ SelectLeave(t) \/ SpuriousWake(t)
      PROVE  MessageInv'
  <2>1. \A c \in Chans : Quiet(c)
    BY <1>2 DEF TypeOK, ForMessage, Asleep, SelectCall, SelectLeave, SpuriousWake, Awake, At, Goto
  <2> QED
    BY <2>1, <1>n
<1>3. ASSUME NEW t \in Threads, SendEnter(t) \/ SendSleep(t)
      PROVE  MessageInv'
  <2>1. \A c \in Chans : Quiet(c)
    BY <1>3 DEF TypeOK, ForMessage, Asleep, SendEnter, SendSleep, At, Goto
  <2> QED
    BY <2>1, <1>n
<1>4. ASSUME NEW t \in Threads, NEW k \in Chans, k = chan[t], SendPush(t)
      PROVE  MessageInv'
  <2>1. \A c \in Chans \ {k} : Quiet(c)
    BY <1>4 DEF TypeOK, ForMessage, Asleep, SendPush, At, Goto
  <2>2. /\ Sleepers(k)' = Sleepers(k)
        /\ len'[k] = len[k] + 1
        /\ ForMessage(k) \cup {t} \subseteq ForMessage(k)' /\ t \notin ForMessage(k)
    BY <1>4 DEF TypeOK, ForMessage, Asleep, SendPush, At, Goto
  <2>3. Cardinality(ForMessage(k)) + 1 <= Cardinality(ForMessage(k)')
    BY <1>0, <2>2, Counting
  <2> QED
    BY <1>0, <1>g, <2>1, <2>2, <2>3
<1>5. ASSUME NEW t \in Threads, NEW k \in Chans, k = chan[t], SendNotify(t)
      PROVE  MessageInv'
  <2>1. \A c \in Chans \ {k} : Quiet(c)
    BY <1>5 DEF TypeOK, ForMessage, Asleep, SendNotify, NotifyOne, At, Goto
  <2>3. CASE Sleepers(k) = {}
    <3>1. Sleepers(k)' = {}
      BY <1>5, <2>3 DEF TypeOK, ForMessage, Asleep, SendNotify, NotifyOne, At, Goto
    <3> QED
      BY <1>e, <1>g, <2>1, <3>1
  <2>4. CASE Sleepers(k) # {}
    <3>1. PICK u \in Sleepers(k) : pc' = [pc EXCEPT ![u] = "r_lock", ![t] = "w_load"]
      BY <1>5, <2>4 DEF TypeOK, ForMessage, Asleep, SendNotify, NotifyOne
    <3>2. /\ len' = len /\ chan' = chan /\ pc[t] = "s_notify" /\ u # t
          /\ u \notin ForMessage(k)
      BY <1>5, <3>1 DEF TypeOK, ForMessage, Asleep, SendNotify, At
    <3>3. (ForMessage(k) \ {t}) \cup {u} \subseteq ForMessage(k)'
      BY <3>1, <3>2 DEF ForMessage, Asleep, TypeOK
    <3>4. Cardinality(ForMessage(k)) <= Cardinality(ForMessage(k)')
      BY <1>0, <3>2, <3>3, Counting
    <3> QED
      BY <1>0, <1>g, <2>1, <2>4, <3>2, <3>4
  <2> QED
    BY <2>3, <2>4
<1>6. ASSUME NEW t \in Threads, NEW k \in Chans, k = chan[t], RecvEnter(t)
      PROVE  MessageInv'
  <2>1. \A c \in Chans \ {k} : Quiet(c)
    BY <1>6 DEF TypeOK, ForMessage, Asleep, RecvEnter, Lock, At, Goto
  <2>3. CASE len[k] > 0
    <3>1. /\ Sleepers(k)' = Sleepers(k)
          /\ len'[k] = len[k] - 1
          /\ ForMessage(k) \ {t} \subseteq ForMessage(k)'
      BY <1>6, <2>3 DEF TypeOK, ForMessage, Asleep, RecvEnter, At, Goto
    <3>2. Cardinality(ForMessage(k)) - 1 <= Cardinality(ForMessage(k)')
      BY <1>0, <3>1, Counting
    <3> QED
      BY <1>0, <1>g, <2>1, <3>1, <3>2
  <2>4. CASE ~(len[k] > 0)
    <3>1. len'[k] = 0
      BY <1>6, <2>4 DEF TypeOK, ForMessage, Asleep, RecvEnter
    <3> QED
      BY <1>e, <1>g, <2>1, <3>1
  <2> QED
    BY <2>3, <2>4
<1>7. ASSUME NEW t \in Threads, NEW k \in Chans, k = chan[t], SendSleep(t) \/ RecvSleep(t)
      PROVE  MessageInv'
  <2>1. \A c \in Chans \ {k} : Quiet(c)
    BY <1>7 DEF TypeOK, ForMessage, Asleep, SendSleep, RecvSleep, At, Goto
  <2>2. CASE SendSleep(t)
    BY <1>3, <2>2
  <2>3. CASE RecvSleep(t)
    <3>1. len'[k] = 0
      BY <1>7, <2>3 DEF TypeOK, RecvSleep, At, WaitInv
    <3> QED
      BY <1>e, <1>g, <2>1, <3>1 DEF TypeOK
  <2> QED
    BY <1>7, <2>2, <2>3
<1>8. ASSUME NEW t \in Threads, RecvNotify(t) \/ SelectNotify(t)
      PROVE  MessageInv'
  <2>1. \A c \in Chans : Quiet(c)
    BY <1>8 DEF TypeOK, ForMessage, Asleep, RecvNotify, SelectNotify, NotifyOne, At, Goto
  <2> QED
    BY <2>1, <1>n
<1>9. ASSUME NEW t \in Threads,
             \/ CloseNotifyEmpty(t) \/ CloseNotifyFull(t)
             \/ WakeLoad(t) \/ WakeLock(t) \/ WakeNotify(t)
      PROVE  MessageInv'
  <2>1. \A c \in Chans : Quiet(c)
    BY <1>9
    DEF TypeOK, ForMessage, Asleep, CloseNotifyEmpty, CloseNotifyFull, WakeLoad, WakeLock,
        WakeNotify, NotifyAll, At, Goto
  <2> QED
    BY <2>1, <1>n
<1>10. ASSUME NEW t \in Threads,
              SelectLock(t) \/ SelectNoHit(t) \/ SelectUnlock(t) \/ \E c \in Chans : SelectTry(t, c)
       PROVE  MessageInv'
  <2>1. \A c \in Chans : Quiet(c)
    BY <1>10
    DEF TypeOK, ForMessage, Asleep, SelectLock, SelectNoHit, SelectUnlock, SelectTry, At, Goto
  <2> QED
    BY <2>1, <1>n
<1>11. CASE UNCHANGED vars
  <2>1. \A c \in Chans : Quiet(c)
    BY <1>11 DEF TypeOK, ForMessage, Asleep, vars
  <2> QED
    BY <2>1, <1>n
<1>12. \A t \in Threads : chan[t] \in Chans
  BY DEF TypeOK
<1> QED
  BY <1>1, <1>2, <1>3, <1>4, <1>5, <1>6, <1>7, <1>8, <1>9, <1>10, <1>11, <1>12
  DEF Next, Call, Step, Threads

\* While a sender sleeps on an open channel, a slot freed brings the thread that
\* will notify, and that thread wakes somebody; one taken goes with its taker.
LEMMA SlotStep ==
  ASSUME TypeOK, TypeOK', WaitInv, SlotInv, [Next]_vars
  PROVE  SlotInv'
<1> DEFINE Sleepers(c) == Asleep("s_asleep", c)
           Quiet(c) == /\ Sleepers(c)' \subseteq Sleepers(c)
                       /\ ForSlot(c) \subseteq ForSlot(c)'
                       /\ len'[c] >= len[c] /\ (closed[c] => closed'[c])
           Holds(c) == Sleepers(c)' # {} /\ ~closed'[c] => Cap - len'[c] <= Cardinality(ForSlot(c)')
<1>0. ASSUME NEW c \in Bounded
      PROVE  /\ c \in Chans /\ len[c] \in Nat /\ len'[c] \in Nat /\ Cap \in Nat
             /\ ForSlot(c) \subseteq Threads /\ ForSlot(c)' \subseteq Threads
             /\ Sleepers(c) # {} /\ ~closed[c] => Cap - len[c] <= Cardinality(ForSlot(c))
             /\ Cardinality(ForSlot(c)) \in Nat /\ Cardinality(ForSlot(c)') \in Nat
  <2>1. ForSlot(c) \subseteq Threads /\ ForSlot(c)' \subseteq Threads
    BY DEF ForSlot
  <2> QED
    BY <2>1, ThreadsAreFinite, ChannelAssumption DEF TypeOK, SlotInv
<1>q. ASSUME NEW c \in Bounded, Quiet(c)
      PROVE  Holds(c)
  <2>1. Cardinality(ForSlot(c)) <= Cardinality(ForSlot(c)')
    BY <1>0, <1>q, Counting
  <2> QED
    BY <1>0, <1>q, <2>1
<1>e. ASSUME NEW c \in Bounded, Cap <= len'[c] \/ Sleepers(c)' = {} \/ closed'[c]
      PROVE  Holds(c)
  BY <1>0, <1>e
<1>g. ASSUME NEW k, \A c \in Chans \ {k} : Quiet(c), k \in Bounded => Holds(k)
      PROVE  SlotInv'
  BY <1>0, <1>q, <1>g DEF SlotInv
<1>n. ASSUME \A c \in Chans : Quiet(c) PROVE SlotInv'
  BY <1>0, <1>n, <1>q DEF SlotInv
<1>f. ASSUME NEW k \in Bounded, NEW t, Sleepers(k)' \subseteq Sleepers(k),
             len'[k] = len[k] - 1, closed' = closed,
             ForSlot(k) \cup {t} \subseteq ForSlot(k)', t \notin ForSlot(k)
      PROVE  Holds(k)
  <2>1. Cardinality(ForSlot(k)) + 1 <= Cardinality(ForSlot(k)')
    BY <1>0, <1>f, Counting
  <2> QED
    BY <1>0, <1>f, <2>1
<1> USE DEF chanVars, parkVars, selectVars
<1>1. ASSUME NEW t \in Threads, NEW k \in Chans, SendCall(t, k) \/ RecvCall(t, k)
      PROVE  SlotInv'
  <2>1. \A c \in Chans : Quiet(c)
    BY <1>1 DEF TypeOK, ForSlot, Asleep, SendCall, RecvCall, At, Goto
  <2> QED
    BY <2>1, <1>n
<1>2. ASSUME NEW t \in Threads, NEW k \in Chans, TryRecv(t, k)
      PROVE  SlotInv'
  <2>1. \A c \in Chans \ {k} : Quiet(c)
    BY <1>2 DEF TypeOK, ForSlot, Asleep, TryRecv, At, Goto
  <2>2. CASE len[k] > 0
    <3>1. /\ Sleepers(k)' \subseteq Sleepers(k) /\ len'[k] = len[k] - 1 /\ closed' = closed
          /\ ForSlot(k) \cup {t} \subseteq ForSlot(k)' /\ t \notin ForSlot(k)
      BY <1>2, <2>2 DEF TypeOK, ForSlot, Asleep, TryRecv, At, Goto
    <3> QED
      BY <1>f, <1>g, <2>1, <3>1
  <2>3. CASE ~(len[k] > 0)
    <3>1. Quiet(k)
      BY <1>2, <2>3 DEF TypeOK, ForSlot, Asleep, TryRecv, At, Goto
    <3> QED
      BY <1>n, <2>1, <3>1
  <2> QED
    BY <2>2, <2>3
<1>3. ASSUME NEW t \in Threads, NEW k \in Chans, CloseCall(t, k)
      PROVE  SlotInv'
  <2>1. \A c \in Chans : Quiet(c)
    BY <1>3 DEF TypeOK, ForSlot, Asleep, CloseCall, At, Goto
  <2> QED
    BY <2>1, <1>n
<1>4. ASSUME NEW t \in Threads,
             \/ \E else \in BOOLEAN : SelectCall(t, else)
             \/ SelectLeave(t) \/ SpuriousWake(t)
      PROVE  SlotInv'
  <2>1. \A c \in Chans : Quiet(c)
    BY <1>4 DEF TypeOK, ForSlot, Asleep, SelectCall, SelectLeave, SpuriousWake, Awake, At, Goto
  <2> QED
    BY <2>1, <1>n
<1>5. ASSUME NEW t \in Threads, NEW k \in Chans, k = chan[t], SendEnter(t)
      PROVE  SlotInv'
  <2>1. \A c \in Chans \ {k} : Quiet(c)
    BY <1>5 DEF TypeOK, ForSlot, Asleep, SendEnter, Lock, At, Goto
  <2>2. CASE closed[k] \/ Full(k)
    <3>1. k \in Bounded => Cap <= len'[k] \/ closed'[k]
      BY <1>0, <1>5, <2>2 DEF SendEnter, Full
    <3> QED
      BY <1>e, <1>g, <2>1, <3>1
  <2>3. CASE ~closed[k] /\ ~Full(k)
    <3>1. Quiet(k)
      BY <1>5, <2>3 DEF TypeOK, ForSlot, Asleep, SendEnter, At, Goto
    <3> QED
      BY <1>n, <2>1, <3>1
  <2> QED
    BY <2>2, <2>3
<1>6. ASSUME NEW t \in Threads, NEW k \in Chans, k = chan[t], SendSleep(t)
      PROVE  SlotInv'
  <2>1. \A c \in Chans \ {k} : Quiet(c)
    BY <1>6 DEF TypeOK, ForSlot, Asleep, SendSleep, At, Goto
  <2>2. k \in Bounded => Cap <= len'[k]
    BY <1>0, <1>6 DEF SendSleep, At, WaitInv, Full
  <2> QED
    BY <1>e, <1>g, <2>1, <2>2
<1>7. ASSUME NEW t \in Threads, NEW k \in Chans, k = chan[t], SendPush(t)
      PROVE  SlotInv'
  <2>1. \A c \in Chans \ {k} : Quiet(c)
    BY <1>7 DEF TypeOK, ForSlot, Asleep, SendPush, At, Goto
  <2>2. /\ Sleepers(k)' = Sleepers(k) /\ closed' = closed
        /\ len'[k] = len[k] + 1
        /\ ForSlot(k) \ {t} \subseteq ForSlot(k)'
    BY <1>7 DEF TypeOK, ForSlot, Asleep, SendPush, At, Goto
  <2>3. k \in Bounded => Cardinality(ForSlot(k)) - 1 <= Cardinality(ForSlot(k)')
    BY <1>0, <2>2, Counting
  <2>4. k \in Bounded => Holds(k)
    BY <1>0, <2>2, <2>3
  <2> QED
    BY <1>g, <2>1, <2>4
<1>8. ASSUME NEW t \in Threads, NEW k \in Chans, k = chan[t], RecvEnter(t)
      PROVE  SlotInv'
  <2>1. \A c \in Chans \ {k} : Quiet(c)
    BY <1>8 DEF TypeOK, ForSlot, Asleep, RecvEnter, Lock, At, Goto
  <2>2. CASE len[k] > 0
    <3>1. /\ Sleepers(k)' \subseteq Sleepers(k) /\ len'[k] = len[k] - 1 /\ closed' = closed
          /\ ForSlot(k) \cup {t} \subseteq ForSlot(k)' /\ t \notin ForSlot(k)
      BY <1>8, <2>2 DEF TypeOK, ForSlot, Asleep, RecvEnter, At, Goto
    <3> QED
      BY <1>f, <1>g, <2>1, <3>1
  <2>3. CASE ~(len[k] > 0)
    <3>1. Quiet(k)
      BY <1>8, <2>3 DEF TypeOK, ForSlot, Asleep, RecvEnter, At, Goto
    <3> QED
      BY <1>n, <2>1, <3>1
  <2> QED
    BY <2>2, <2>3
<1>9. ASSUME NEW t \in Threads, NEW k \in Chans, k = chan[t], RecvNotify(t) \/ SelectNotify(t)
      PROVE  SlotInv'
  <2>1. \A c \in Chans \ {k} : Quiet(c)
    BY <1>9 DEF TypeOK, ForSlot, Asleep, RecvNotify, SelectNotify, NotifyOne, At, Goto
  <2>2. CASE Sleepers(k) = {}
    <3>1. Sleepers(k)' = {}
      BY <1>9, <2>2
      DEF TypeOK, ForSlot, Asleep, RecvNotify, SelectNotify, NotifyOne, At, Goto
    <3> QED
      BY <1>e, <1>g, <2>1, <3>1
  <2>3. CASE Sleepers(k) # {}
    <3>1. PICK u \in Sleepers(k), next \in {"idle", "x_unlock"} :
            pc' = [pc EXCEPT ![u] = "s_lock", ![t] = next]
      BY <1>9, <2>3 DEF RecvNotify, SelectNotify, NotifyOne
    <3>2. /\ len' = len /\ closed' = closed /\ chan' = chan
          /\ pc[t] \in {"r_notify", "x_notify"} /\ u # t /\ u \notin ForSlot(k)
      BY <1>9, <3>1 DEF RecvNotify, SelectNotify, ForSlot, Asleep, At
    <3>3. (ForSlot(k) \ {t}) \cup {u} \subseteq ForSlot(k)'
      BY <3>1, <3>2 DEF ForSlot, Asleep, TypeOK
    <3>4. k \in Bounded => Cardinality(ForSlot(k)) <= Cardinality(ForSlot(k)')
      BY <1>0, <3>2, <3>3, Counting
    <3>5. k \in Bounded => Holds(k)
      BY <1>0, <2>3, <3>2, <3>4
    <3> QED
      BY <1>g, <2>1, <3>5
  <2> QED
    BY <2>2, <2>3
<1>10. ASSUME NEW t \in Threads, SendNotify(t) \/ RecvSleep(t)
       PROVE  SlotInv'
  <2>1. \A c \in Chans : Quiet(c)
    BY <1>10 DEF TypeOK, ForSlot, Asleep, SendNotify, RecvSleep, NotifyOne, At, Goto
  <2> QED
    BY <2>1, <1>n
<1>11. ASSUME NEW t \in Threads,
              \/ CloseNotifyEmpty(t) \/ CloseNotifyFull(t)
              \/ WakeLoad(t) \/ WakeLock(t) \/ WakeNotify(t)
       PROVE  SlotInv'
  <2>1. \A c \in Chans : Quiet(c)
    BY <1>11
    DEF TypeOK, ForSlot, Asleep, CloseNotifyEmpty, CloseNotifyFull, WakeLoad, WakeLock,
        WakeNotify, NotifyAll, At, Goto
  <2> QED
    BY <2>1, <1>n
<1>12. ASSUME NEW t \in Threads, SelectLock(t) \/ SelectNoHit(t) \/ SelectUnlock(t)
       PROVE  SlotInv'
  <2>1. \A c \in Chans : Quiet(c)
    BY <1>12 DEF TypeOK, ForSlot, Asleep, SelectLock, SelectNoHit, SelectUnlock, At, Goto
  <2> QED
    BY <2>1, <1>n
<1>13. ASSUME NEW t \in Threads, NEW k \in Chans, SelectTry(t, k)
       PROVE  SlotInv'
  <2>1. \A c \in Chans \ {k} : Quiet(c)
    BY <1>13 DEF TypeOK, ForSlot, Asleep, SelectTry, At, Goto
  <2>2. CASE len[k] > 0
    <3>1. /\ Sleepers(k)' \subseteq Sleepers(k) /\ len'[k] = len[k] - 1 /\ closed' = closed
          /\ ForSlot(k) \cup {t} \subseteq ForSlot(k)' /\ t \notin ForSlot(k)
      BY <1>13, <2>2 DEF TypeOK, ForSlot, Asleep, SelectTry, At, Goto
    <3> QED
      BY <1>f, <1>g, <2>1, <3>1
  <2>3. CASE ~(len[k] > 0)
    <3>1. Quiet(k)
      BY <1>13, <2>3 DEF TypeOK, ForSlot, Asleep, SelectTry, At, Goto
    <3> QED
      BY <1>n, <2>1, <3>1
  <2> QED
    BY <2>2, <2>3
<1>14. CASE UNCHANGED vars
  <2>1. \A c \in Chans : Quiet(c)
    BY <1>14 DEF TypeOK, ForSlot, Asleep, vars
  <2> QED
    BY <2>1, <1>n
<1>15. \A t \in Threads : chan[t] \in Chans
  BY DEF TypeOK
<1> QED
  BY <1>1, <1>2, <1>3, <1>4, <1>5, <1>6, <1>7, <1>8, <1>9, <1>10, <1>11, <1>12, <1>13, <1>14, <1>15
  DEF Next, Call, Step, Threads

-----------------------------------------------------------------------------
(* No select is forgotten. *)

\* Only selectors are inside a select.
RoleInv == Selecting \subseteq Selectors

\* Some sender or closer has still to go by the parker.
OnTheWay ==
  \E u \in Threads :
    pc[u] \in {"s_notify", "c_empty", "c_full", "w_load", "w_lock", "w_notify"}

\* What a select did not find on the channels it has tried, and would miss if it
\* slept, somebody is on the way to tell it.
ScanInv ==
  \A t \in Threads : pc[t] = "x_scan" =>
    /\ \A c \in Chans \ left[t] : len[c] > 0 => OnTheWay
    /\ ~all_closed[t] /\ (\A c \in Chans : closed[c]) => OnTheWay

ParkInv ==
  (\E t \in Threads : pc[t] = "x_asleep")
    /\ ((\E c \in Chans : len[c] > 0) \/ (\A c \in Chans : closed[c]))
  => OnTheWay

\* Every step keeps the threads of a select selectors.
LEMMA RoleStep ==
  ASSUME TypeOK, RoleInv, [Next]_vars
  PROVE  RoleInv'
<1> USE DEF RoleInv, Selecting, SelectLabels, TypeOK
<1>1. ASSUME NEW t \in Threads, NEW c \in Chans,
             SendCall(t, c) \/ RecvCall(t, c) \/ TryRecv(t, c) \/ CloseCall(t, c)
      PROVE  RoleInv'
  BY <1>1 DEF SendCall, RecvCall, TryRecv, CloseCall, At, Goto
<1>2. ASSUME NEW t \in Selectors, NEW else \in BOOLEAN, SelectCall(t, else)
      PROVE  RoleInv'
  BY <1>2 DEF SelectCall, At, Goto
<1>3. ASSUME NEW t \in Threads, SelectLeave(t) \/ SpuriousWake(t)
      PROVE  RoleInv'
  BY <1>3 DEF SelectLeave, SpuriousWake, Awake, At, Goto
<1>4. ASSUME NEW t \in Threads,
             SendEnter(t) \/ SendSleep(t) \/ SendPush(t) \/ RecvEnter(t) \/ RecvSleep(t)
      PROVE  RoleInv'
  BY <1>4 DEF SendEnter, SendSleep, SendPush, RecvEnter, RecvSleep, At, Goto
<1>5. ASSUME NEW t \in Threads, SendNotify(t) \/ RecvNotify(t) \/ SelectNotify(t)
      PROVE  RoleInv'
  BY <1>5 DEF SendNotify, RecvNotify, SelectNotify, NotifyOne, Asleep, At, Goto
<1>6. ASSUME NEW t \in Threads,
             \/ CloseNotifyEmpty(t) \/ CloseNotifyFull(t)
             \/ WakeLoad(t) \/ WakeLock(t) \/ WakeNotify(t)
      PROVE  RoleInv'
  BY <1>6 DEF CloseNotifyEmpty, CloseNotifyFull, WakeLoad, WakeLock, WakeNotify, NotifyAll,
              Asleep, At, Goto
<1>7. ASSUME NEW t \in Threads,
             SelectLock(t) \/ SelectNoHit(t) \/ SelectUnlock(t) \/ \E c \in Chans : SelectTry(t, c)
      PROVE  RoleInv'
  BY <1>7 DEF SelectLock, SelectNoHit, SelectUnlock, SelectTry, At, Goto
<1>8. CASE UNCHANGED vars
  BY <1>8 DEF vars
<1> HIDE DEF TypeOK, RoleInv
<1> QED
  BY <1>1, <1>2, <1>3, <1>4, <1>5, <1>6, <1>7, <1>8 DEF Next, Call, Step, Threads

\* Whoever is on the way gets there: it leaves only with nobody in a select, or
\* once it has woken those asleep, holding the lock a scan would need.
LEMMA WayStep ==
  ASSUME TypeOK, CountInv, LocksInv, OnTheWay, [Next]_vars
  PROVE  OnTheWay' \/ \A t \in Threads : pc'[t] \notin {"x_scan", "x_asleep"}
<1>0. selectors = 0 => \A t \in Threads : pc[t] \notin SelectLabels
  <2>1. Selecting \subseteq Threads /\ IsFiniteSet(Selecting)
    BY ThreadsAreFinite DEF Selecting
  <2>2. selectors = 0 => Selecting = {}
    BY <2>1, FS_EmptySet DEF CountInv
  <2> QED
    BY <2>2 DEF Selecting
<1> USE DEF TypeOK, OnTheWay, SelectLabels
<1>1. ASSUME NEW t \in Threads, NEW c \in Chans,
             SendCall(t, c) \/ RecvCall(t, c) \/ TryRecv(t, c) \/ CloseCall(t, c)
      PROVE  OnTheWay'
  BY <1>1 DEF SendCall, RecvCall, TryRecv, CloseCall, At, Goto
<1>2. ASSUME NEW t \in Threads, \E else \in BOOLEAN : SelectCall(t, else)
      PROVE  OnTheWay'
  BY <1>2 DEF SelectCall, At, Goto
<1>3. ASSUME NEW t \in Threads, SelectLeave(t) \/ SpuriousWake(t)
      PROVE  OnTheWay'
  BY <1>3 DEF SelectLeave, SpuriousWake, Awake, At, Goto
<1>4. ASSUME NEW t \in Threads,
             SendEnter(t) \/ SendSleep(t) \/ SendPush(t) \/ RecvEnter(t) \/ RecvSleep(t)
      PROVE  OnTheWay'
  BY <1>4 DEF SendEnter, SendSleep, SendPush, RecvEnter, RecvSleep, At, Goto
<1>5. ASSUME NEW t \in Threads, SendNotify(t) \/ RecvNotify(t) \/ SelectNotify(t)
      PROVE  OnTheWay'
  <2>1. CASE SendNotify(t)
    <3>1. pc'[t] = "w_load"
      BY <2>1 DEF SendNotify, NotifyOne, Asleep, At, Goto
    <3> QED
      BY <3>1
  <2>2. CASE RecvNotify(t) \/ SelectNotify(t)
    BY <2>2 DEF RecvNotify, SelectNotify, NotifyOne, Asleep, At, Goto
  <2> QED
    BY <1>5, <2>1, <2>2
<1>6. ASSUME NEW t \in Threads, CloseNotifyEmpty(t) \/ CloseNotifyFull(t) \/ WakeLock(t)
      PROVE  OnTheWay'
  BY <1>6 DEF CloseNotifyEmpty, CloseNotifyFull, WakeLock, NotifyAll, Asleep, At, Goto
<1>7. ASSUME NEW t \in Threads, WakeLoad(t)
      PROVE  OnTheWay' \/ \A u \in Threads : pc'[u] \notin {"x_scan", "x_asleep"}
  BY <1>0, <1>7 DEF WakeLoad, At, Goto
<1>8. ASSUME NEW t \in Threads, WakeNotify(t)
      PROVE  \A u \in Threads : pc'[u] \notin {"x_scan", "x_asleep"}
  BY <1>8 DEF WakeNotify, At, LocksInv, HoldsPark
<1>9. ASSUME NEW t \in Threads,
             SelectLock(t) \/ SelectNoHit(t) \/ SelectUnlock(t) \/ \E c \in Chans : SelectTry(t, c)
      PROVE  OnTheWay'
  BY <1>9 DEF SelectLock, SelectNoHit, SelectUnlock, SelectTry, At, Goto
<1>10. CASE UNCHANGED vars
  BY <1>10 DEF vars
<1> HIDE DEF TypeOK, OnTheWay
<1> QED
  BY <1>1, <1>2, <1>3, <1>4, <1>5, <1>6, <1>7, <1>8, <1>9, <1>10 DEF Next, Call, Step, Threads

\* A select that goes on looking, or goes to sleep, misses nothing.
LEMMA SelectStep ==
  ASSUME TypeOK, CountInv, LocksInv, RoleInv, ScanInv, ParkInv, [Next]_vars
  PROVE  ScanInv' /\ ParkInv'
<1>1. CASE OnTheWay'
  BY <1>1 DEF ScanInv, ParkInv
<1>2. CASE \A t \in Threads : pc'[t] \notin {"x_scan", "x_asleep"}
  BY <1>2 DEF ScanInv, ParkInv
<1>3. CASE ~OnTheWay /\ ~OnTheWay'
  <2> DEFINE Hit(c) == len[c] > 0
             Scan(t) == /\ \A c \in Chans \ left[t] : ~Hit(c)
                        /\ all_closed[t] \/ \E c \in Chans : ~closed[c]
             Park == (\A c \in Chans : ~Hit(c)) /\ \E c \in Chans : ~closed[c]
  <2>1. /\ \A t \in Threads : pc[t] = "x_scan" => t \in Selectors /\ Scan(t)
        /\ (\E t \in Threads : pc[t] = "x_asleep") => Park
    BY <1>3 DEF ScanInv, ParkInv, RoleInv, Selecting, SelectLabels
  <2>2. SUFFICES /\ \A t \in Threads : pc'[t] = "x_scan" => Scan(t)'
                 /\ (\E t \in Threads : pc'[t] = "x_asleep") => Park'
    BY <1>3 DEF ScanInv, ParkInv
  <2> USE DEF TypeOK, chanVars, parkVars, selectVars
  <2>3. ASSUME NEW t \in Threads, NEW c \in Chans,
               SendCall(t, c) \/ RecvCall(t, c) \/ TryRecv(t, c)
        PROVE  (\A u \in Threads : pc'[u] = "x_scan" => Scan(u)')
               /\ ((\E u \in Threads : pc'[u] = "x_asleep") => Park')
    BY <2>1, <2>3 DEF SendCall, RecvCall, TryRecv, At, Goto
  <2>4. ASSUME NEW t \in Threads, NEW c \in Chans, CloseCall(t, c) PROVE FALSE
    BY <1>3, <2>4 DEF CloseCall, Goto, OnTheWay
  <2>5. ASSUME NEW t \in Threads, SendPush(t) PROVE FALSE
    BY <1>3, <2>5 DEF SendPush, Goto, OnTheWay
  <2>6. ASSUME NEW t \in Threads,
               (\E else \in BOOLEAN : SelectCall(t, else)) \/ SelectLeave(t) \/ SpuriousWake(t)
        PROVE  (\A u \in Threads : pc'[u] = "x_scan" => Scan(u)')
               /\ ((\E u \in Threads : pc'[u] = "x_asleep") => Park')
    BY <2>1, <2>6 DEF SelectCall, SelectLeave, SpuriousWake, Awake, At, Goto
  <2>7. ASSUME NEW t \in Threads,
               SendEnter(t) \/ SendSleep(t) \/ RecvEnter(t) \/ RecvSleep(t)
        PROVE  (\A u \in Threads : pc'[u] = "x_scan" => Scan(u)')
               /\ ((\E u \in Threads : pc'[u] = "x_asleep") => Park')
    BY <2>1, <2>7 DEF SendEnter, SendSleep, RecvEnter, RecvSleep, At, Goto
  <2>8. ASSUME NEW t \in Threads, SendNotify(t) \/ RecvNotify(t) \/ SelectNotify(t)
        PROVE  (\A u \in Threads : pc'[u] = "x_scan" => Scan(u)')
               /\ ((\E u \in Threads : pc'[u] = "x_asleep") => Park')
    BY <2>1, <2>8 DEF SendNotify, RecvNotify, SelectNotify, NotifyOne, Asleep, At, Goto
  <2>9. ASSUME NEW t \in Threads,
               \/ CloseNotifyEmpty(t) \/ CloseNotifyFull(t)
               \/ WakeLoad(t) \/ WakeLock(t) \/ WakeNotify(t)
        PROVE  FALSE
    BY <1>3, <2>9
    DEF CloseNotifyEmpty, CloseNotifyFull, WakeLoad, WakeLock, WakeNotify, At, OnTheWay
  <2>10. ASSUME NEW t \in Threads, SelectLock(t) \/ SelectUnlock(t)
         PROVE  (\A u \in Threads : pc'[u] = "x_scan" => Scan(u)')
                /\ ((\E u \in Threads : pc'[u] = "x_asleep") => Park')
    <3>1. CASE SelectUnlock(t)
      BY <2>1, <3>1 DEF SelectUnlock, At, Goto
    <3>2. CASE SelectLock(t)
      <4>1. t \in Selectors
        BY <3>2 DEF SelectLock, At, RoleInv, Selecting, SelectLabels
      <4>2. left'[t] = Chans /\ all_closed'[t] = TRUE
        BY <3>2, <4>1 DEF SelectLock
      <4>3. Scan(t)'
        BY <4>2
      <4>4. \A u \in Threads \ {t} : pc'[u] = pc[u] /\ (pc[u] = "x_scan" => Scan(u)')
        BY <2>1, <3>2 DEF SelectLock, Goto
      <4> QED
        BY <2>1, <3>2, <4>3, <4>4 DEF SelectLock, Goto
    <3> QED
      BY <2>10, <3>1, <3>2
  <2>11. ASSUME NEW t \in Threads, SelectNoHit(t)
         PROVE  (\A u \in Threads : pc'[u] = "x_scan" => Scan(u)')
                /\ ((\E u \in Threads : pc'[u] = "x_asleep") => Park')
    BY <2>1, <2>11 DEF SelectNoHit, At, Goto
  <2>12. ASSUME NEW t \in Threads, NEW k \in Chans, SelectTry(t, k)
         PROVE  (\A u \in Threads : pc'[u] = "x_scan" => Scan(u)')
                /\ ((\E u \in Threads : pc'[u] = "x_asleep") => Park')
    BY <2>1, <2>12 DEF SelectTry, SoFarClosed, At, Goto
  <2>13. CASE UNCHANGED vars
    BY <2>1, <2>13 DEF vars
  <2> HIDE DEF TypeOK
  <2> QED
    BY <2>3, <2>4, <2>5, <2>6, <2>7, <2>8, <2>9, <2>10, <2>11, <2>12, <2>13
    DEF Next, Call, Step, Threads
<1> QED
  BY <1>1, <1>2, <1>3, WayStep

-----------------------------------------------------------------------------
(* Backpressure. *)

\* A bounded channel holds no more than its capacity, and less while a sender that
\* has found it so is about to push.
CapacityInv ==
  \A c \in Bounded :
    /\ len[c] <= Cap
    /\ \A t \in Threads : pc[t] = "s_push" /\ chan[t] = c => len[c] < Cap

\* Several senders may be woken for one slot, some of them spuriously: each looks
\* again under the mutex, which it keeps until it has pushed.
LEMMA CapacityStep ==
  ASSUME TypeOK, LocksInv, CapacityInv, [Next]_vars
  PROVE  CapacityInv'
<1> USE ChannelAssumption DEF TypeOK, CapacityInv, chanVars, parkVars, selectVars
<1>1. ASSUME NEW t \in Threads, NEW c \in Chans,
             SendCall(t, c) \/ RecvCall(t, c) \/ TryRecv(t, c) \/ CloseCall(t, c)
      PROVE  CapacityInv'
  BY <1>1 DEF SendCall, RecvCall, TryRecv, CloseCall, At, Goto
<1>2. ASSUME NEW t \in Threads, NEW else \in BOOLEAN, SelectCall(t, else)
      PROVE  CapacityInv'
  BY <1>2 DEF SelectCall, At, Goto
<1>3. ASSUME NEW t \in Threads, SelectLeave(t) \/ SpuriousWake(t)
      PROVE  CapacityInv'
  BY <1>3 DEF SelectLeave, SpuriousWake, Awake, At, Goto
<1>4. ASSUME NEW t \in Threads, SendEnter(t) \/ SendSleep(t) \/ RecvSleep(t)
      PROVE  CapacityInv'
  BY <1>4 DEF SendEnter, SendSleep, RecvSleep, Full, At, Goto
<1>5. ASSUME NEW t \in Threads, SendPush(t) PROVE CapacityInv'
  <2>1. \A u \in Threads \ {t} : pc[u] = "s_push" => chan[u] # chan[t]
    BY <1>5 DEF SendPush, At, LocksInv, HoldsQueue
  <2>2. /\ pc[t] = "s_push" /\ pc' = [pc EXCEPT ![t] = "s_notify"]
        /\ len' = [len EXCEPT ![chan[t]] = @ + 1] /\ chan' = chan
    BY <1>5 DEF SendPush, At, Goto
  <2> QED
    BY <2>1, <2>2
<1>6. ASSUME NEW t \in Threads, RecvEnter(t) PROVE CapacityInv'
  BY <1>6 DEF RecvEnter, At, Goto
<1>7. ASSUME NEW t \in Threads, SendNotify(t) \/ RecvNotify(t) \/ SelectNotify(t)
      PROVE  CapacityInv'
  BY <1>7 DEF SendNotify, RecvNotify, SelectNotify, NotifyOne, Asleep, At, Goto
<1>8. ASSUME NEW t \in Threads,
             \/ CloseNotifyEmpty(t) \/ CloseNotifyFull(t)
             \/ WakeLoad(t) \/ WakeLock(t) \/ WakeNotify(t)
      PROVE  CapacityInv'
  BY <1>8 DEF CloseNotifyEmpty, CloseNotifyFull, WakeLoad, WakeLock, WakeNotify, NotifyAll,
              Asleep, At, Goto
<1>9. ASSUME NEW t \in Threads, SelectLock(t) \/ SelectNoHit(t) \/ SelectUnlock(t)
      PROVE  CapacityInv'
  BY <1>9 DEF SelectLock, SelectNoHit, SelectUnlock, At, Goto
<1>10. ASSUME NEW t \in Threads, NEW c \in Chans, SelectTry(t, c) PROVE CapacityInv'
  BY <1>10 DEF SelectTry, At, Goto
<1>11. CASE UNCHANGED vars
  BY <1>11 DEF vars
<1> HIDE DEF TypeOK, CapacityInv
<1> QED
  BY <1>1, <1>2, <1>3, <1>4, <1>5, <1>6, <1>7, <1>8, <1>9, <1>10, <1>11 DEF Next, Call, Step, Threads

-----------------------------------------------------------------------------
(* What a select has seen. *)

\* A channel counted as closed in a scan has been told of, and all of them have
\* been when a select answers that every one is closed.
SeenInv ==
  \A t \in Selectors :
    /\ pc[t] = "x_scan" /\ all_closed[t] => \A c \in Chans \ left[t] : told[c]
    /\ answer[t] = "all_closed" => \A c \in Chans : told[c]

\* Nothing told of is taken back, and a scan adds what it sees.
LEMMA SeenStep ==
  ASSUME TypeOK, RoleInv, SeenInv, [Next]_vars
  PROVE  SeenInv'
<1> USE DEF TypeOK, SeenInv, chanVars, parkVars, selectVars, Threads
<1>1. ASSUME NEW t \in Threads, NEW c \in Chans,
             SendCall(t, c) \/ RecvCall(t, c) \/ TryRecv(t, c) \/ CloseCall(t, c)
      PROVE  SeenInv'
  BY <1>1 DEF SendCall, RecvCall, TryRecv, CloseCall, At, Goto
<1>2. ASSUME NEW t \in Selectors, NEW else \in BOOLEAN, SelectCall(t, else)
      PROVE  SeenInv'
  BY <1>2 DEF SelectCall, At, Goto
<1>3. ASSUME NEW t \in Threads, SelectLeave(t) \/ SpuriousWake(t)
      PROVE  SeenInv'
  BY <1>3 DEF SelectLeave, SpuriousWake, Awake, At, Goto
<1>4. ASSUME NEW t \in Threads,
             SendEnter(t) \/ SendSleep(t) \/ SendPush(t) \/ RecvEnter(t) \/ RecvSleep(t)
      PROVE  SeenInv'
  BY <1>4 DEF SendEnter, SendSleep, SendPush, RecvEnter, RecvSleep, At, Goto
<1>5. ASSUME NEW t \in Threads, SendNotify(t) \/ RecvNotify(t) \/ SelectNotify(t)
      PROVE  SeenInv'
  BY <1>5 DEF SendNotify, RecvNotify, SelectNotify, NotifyOne, Asleep, At, Goto
<1>6. ASSUME NEW t \in Threads,
             \/ CloseNotifyEmpty(t) \/ CloseNotifyFull(t)
             \/ WakeLoad(t) \/ WakeLock(t) \/ WakeNotify(t)
      PROVE  SeenInv'
  BY <1>6 DEF CloseNotifyEmpty, CloseNotifyFull, WakeLoad, WakeLock, WakeNotify, NotifyAll,
              Asleep, At, Goto
<1>7. ASSUME NEW t \in Threads, SelectLock(t) PROVE SeenInv'
  <2>1. left' = [left EXCEPT ![t] = Chans] /\ UNCHANGED <<told, answer>>
    BY <1>7 DEF SelectLock
  <2>2. \A u \in Threads \ {t} : pc'[u] = pc[u] /\ left'[u] = left[u] /\ all_closed'[u] = all_closed[u]
    BY <1>7 DEF SelectLock, Goto
  <2> QED
    BY <2>1, <2>2
<1>8. ASSUME NEW t \in Threads, SelectUnlock(t) PROVE SeenInv'
  BY <1>8 DEF SelectUnlock, At, Goto
<1>9. ASSUME NEW t \in Threads, SelectNoHit(t) PROVE SeenInv'
  <2>1. pc[t] = "x_scan" /\ left[t] = {} /\ t \in Selectors
    BY <1>9 DEF SelectNoHit, At, RoleInv, Selecting, SelectLabels
  <2>2. pc'[t] # "x_scan" /\ UNCHANGED <<told, left, all_closed>>
    BY <1>9 DEF SelectNoHit, Goto
  <2>3. /\ \A u \in Threads \ {t} : pc'[u] = pc[u]
        /\ \A u \in Selectors \ {t} : answer'[u] = answer[u]
        /\ answer'[t] = "all_closed" => all_closed[t] \/ answer[t] = "all_closed"
    BY <1>9, <2>1 DEF SelectNoHit, Goto
  <2> QED
    BY <2>1, <2>2, <2>3
<1>10. ASSUME NEW t \in Threads, NEW c \in Chans, SelectTry(t, c) PROVE SeenInv'
  <2>0. pc[t] = "x_scan" /\ t \in Selectors
    BY <1>10 DEF SelectTry, At, RoleInv, Selecting, SelectLabels
  <2>1. CASE len[c] > 0
    BY <1>10, <2>0, <2>1 DEF SelectTry, Goto
  <2>2. CASE ~(len[c] > 0)
    <3>1. /\ told' = [told EXCEPT ![c] = told[c] \/ closed[c]]
          /\ all_closed' = [all_closed EXCEPT ![t] = all_closed[t] /\ closed[c]]
          /\ left' = [left EXCEPT ![t] = @ \ {c}]
          /\ UNCHANGED <<answer, pc>>
      BY <1>10, <2>2 DEF SelectTry, SoFarClosed
    <3>2. \A k \in Chans : told[k] => told'[k]
      BY <3>1
    <3>3. all_closed'[t] => all_closed[t] /\ closed[c] /\ told'[c]
      BY <2>0, <3>1
    <3>4. /\ left'[t] = left[t] \ {c}
          /\ \A u \in Selectors \ {t} : left'[u] = left[u] /\ all_closed'[u] = all_closed[u]
      BY <2>0, <3>1
    <3> QED
      BY <2>0, <3>1, <3>2, <3>3, <3>4
  <2> QED
    BY <2>1, <2>2
<1>11. CASE UNCHANGED vars
  BY <1>11 DEF vars
<1> HIDE DEF TypeOK, SeenInv
<1> QED
  BY <1>1, <1>2, <1>3, <1>4, <1>5, <1>6, <1>7, <1>8, <1>9, <1>10, <1>11 DEF Next, Call, Step, Threads

-----------------------------------------------------------------------------
(* The theorems. *)

\* The inductive invariant.
IInv == /\ TypeOK /\ CountInv /\ LocksInv /\ WaitInv /\ FinalInv
        /\ MessageInv /\ SlotInv /\ RoleInv /\ ScanInv /\ ParkInv /\ SeenInv
        /\ CapacityInv

\* It holds at the start, is kept by every step, and so holds always.
LEMMA InvInit == Init => IInv
<1> SUFFICES ASSUME Init PROVE IInv
  OBVIOUS
<1>1. TypeOK /\ CountInv
  BY TypeInit
<1>2. LocksInv /\ WaitInv /\ FinalInv
  BY ChannelAssumption DEF Init, LocksInv, HoldsQueue, HoldsPark, WaitInv, FinalInv
<1>3. MessageInv /\ SlotInv
  BY DEF Init, MessageInv, SlotInv, Asleep
<1>4. RoleInv /\ ScanInv /\ ParkInv /\ SeenInv
  BY DEF Init, RoleInv, Selecting, SelectLabels, ScanInv, ParkInv, SeenInv, Threads
<1>5. CapacityInv
  BY ChannelAssumption DEF Init, CapacityInv
<1> QED
  BY <1>1, <1>2, <1>3, <1>4, <1>5 DEF IInv

\* Each part is kept, given the parts before it.
LEMMA InvStep == IInv /\ [Next]_vars => IInv'
<1> SUFFICES ASSUME IInv, [Next]_vars PROVE IInv'
  OBVIOUS
<1>1. CountInv'
  BY CountStep DEF IInv
<1>2. TypeOK'
  BY <1>1, TypeStep DEF IInv
<1>3. LocksInv' /\ WaitInv' /\ FinalInv'
  BY LocksStep, WaitStep, FinalStep DEF IInv
<1>4. MessageInv' /\ SlotInv'
  BY <1>2, MessageStep, SlotStep DEF IInv
<1>5. RoleInv' /\ ScanInv' /\ ParkInv' /\ SeenInv'
  BY RoleStep, SelectStep, SeenStep DEF IInv
<1>6. CapacityInv'
  BY CapacityStep DEF IInv
<1> QED
  BY <1>1, <1>2, <1>3, <1>4, <1>5, <1>6 DEF IInv

\* It holds in every reachable state.
LEMMA InvAlways == Spec => []IInv
BY InvInit, InvStep, PTL DEF Spec

\* The state of the channels and of the threads inside them is well typed; the
\* count of selectors in particular never goes below zero (the fetch_sub at the end of select).
THEOREM TypeCorrect == Spec => []TypeOK
<1>1. IInv => TypeOK
  BY DEF IInv
<1> QED
  BY <1>1, InvAlways, PTL

\* Backpressure: a bounded channel holds no more than its capacity.
WithinCapacity == \A c \in Bounded : len[c] <= Cap

\* A send never pushes past the capacity, however many senders one free slot has
\* woken and whoever has taken the slot meanwhile.
THEOREM WithinCapacityAlways == Spec => []WithinCapacity
<1>1. IInv => WithinCapacity
  BY DEF IInv, CapacityInv, WithinCapacity
<1> QED
  BY <1>1, InvAlways, PTL

\* Once a receive has reported a channel closed and drained no message appears
\* on it again, though close stores the flag without the mutex: a send that has
\* found the channel open keeps the mutex until it has pushed.
THEOREM ClosedIsFinalAlways == Spec => []ClosedIsFinal
<1>1. IInv => ClosedIsFinal
  BY DEF IInv, FinalInv, ClosedIsFinal
<1> QED
  BY <1>1, InvAlways, PTL

\* notify_one after the mutex is dropped loses no wake-up, for any number of
\* senders, receivers and selectors, spurious wake-ups included.
THEOREM NoWakeUpIsLostAlways == Spec => []NoWakeUpIsLost
<1>1. IInv => NoWakeUpIsLost
  <2> SUFFICES ASSUME IInv PROVE NoWakeUpIsLost
    OBVIOUS
  <2>1. EveryMessageWakesAReceiver
    BY WakersCounted DEF IInv, MessageInv, EveryMessageWakesAReceiver
  <2>2. EverySlotWakesASender
    BY WakersCounted DEF IInv, SlotInv, EverySlotWakesASender
  <2> QED
    BY <2>1, <2>2 DEF NoWakeUpIsLost
<1> QED
  BY <1>1, InvAlways, PTL

\* A parked select that could return has somebody on the way to wake it, though
\* send and close skip the parker when they read a count of zero.
THEOREM SelectorsAreNotForgottenAlways == Spec => []SelectorsAreNotForgotten
<1>1. IInv => SelectorsAreNotForgotten
  BY DEF IInv, ParkInv, OnTheWay, SelectorsAreNotForgotten, Threads
<1> QED
  BY <1>1, InvAlways, PTL

\* A select that reports every channel closed has found each of them closed and
\* drained, and they are so still, however many channels it scanned meanwhile.
THEOREM SelectFindsTheEndAlways == Spec => []SelectFindsTheEnd
<1>1. IInv => SelectFindsTheEnd
  BY DEF IInv, SeenInv, FinalInv, SelectFindsTheEnd
<1> QED
  BY <1>1, InvAlways, PTL

-----------------------------------------------------------------------------
(* Waiting for locks. *)

\* The threads that hold a lock `t` is about to take; for a select that still has
\* channels to try, whichever of them comes next.
WaitsFor(t) ==
  CASE pc[t] \in {"s_lock", "r_lock"} -> {holder[chan[t]]} \ {NoOne}
    [] pc[t] \in {"w_lock", "x_lock"} -> {park_holder} \ {NoOne}
    [] pc[t] = "x_scan" -> {holder[c] : c \in left[t]} \ {NoOne}
    [] OTHER -> {}

\* The parker's lock comes before the queues' mutexes, and nothing after those:
\* who is waited for is inside a call and awake, and waits, if at all, for one who
\* waits for nobody.
LocksAreOrdered ==
  \A t \in Threads : \A u \in WaitsFor(t) :
    /\ u \in Threads /\ InsideACall(u)
    /\ \A v \in WaitsFor(u) : v \in Threads /\ InsideACall(v) /\ WaitsFor(v) = {}

\* So no threads wait for each other's locks in a circle, though a select keeps the
\* parker's lock while it takes one mutex after another, and sends and closes take
\* both.
THEOREM LocksAreOrderedAlways == Spec => []LocksAreOrdered
<1>1. IInv => LocksAreOrdered
  <2> SUFFICES ASSUME IInv PROVE LocksAreOrdered
    OBVIOUS
  <2>0. TypeOK /\ LocksInv /\ RoleInv
    BY DEF IInv
  <2>1. ASSUME NEW c \in Chans, holder[c] # NoOne
        PROVE  holder[c] \in Threads /\ InsideACall(holder[c]) /\ WaitsFor(holder[c]) = {}
    <3>1. holder[c] \in Threads /\ HoldsQueue(holder[c])
      BY <2>0, <2>1 DEF TypeOK, LocksInv
    <3> QED
      BY <3>1 DEF HoldsQueue, InsideACall, At, WaitsFor
  <2>2. ASSUME NEW t \in Threads, NEW u \in WaitsFor(t), pc[t] # "w_lock", pc[t] # "x_lock"
        PROVE  \E c \in Chans : u = holder[c] /\ holder[c] # NoOne
    <3>1. chan[t] \in Chans
      BY <2>0 DEF TypeOK
    <3>2. pc[t] = "x_scan" => left[t] \subseteq Chans
      BY <2>0 DEF TypeOK, RoleInv, Selecting, SelectLabels
    <3> QED
      BY <2>2, <3>1, <3>2 DEF WaitsFor
  <2>3. ASSUME NEW t \in Threads, NEW u \in WaitsFor(t), pc[t] = "w_lock" \/ pc[t] = "x_lock"
        PROVE  u \in Threads /\ HoldsPark(u)
    <3>1. u = park_holder /\ park_holder # NoOne
      BY <2>3 DEF WaitsFor
    <3> QED
      BY <2>0, <3>1 DEF TypeOK, LocksInv
  <2>4. ASSUME NEW t \in Threads, NEW u \in WaitsFor(t)
        PROVE  /\ u \in Threads /\ InsideACall(u)
               /\ \A v \in WaitsFor(u) : v \in Threads /\ InsideACall(v) /\ WaitsFor(v) = {}
    <3>1. CASE pc[t] = "w_lock" \/ pc[t] = "x_lock"
      <4>1. u \in Threads /\ HoldsPark(u)
        BY <2>3, <3>1
      <4>2. InsideACall(u) /\ pc[u] # "w_lock" /\ pc[u] # "x_lock"
        BY <4>1 DEF HoldsPark, InsideACall, At
      <4> QED
        BY <2>1, <2>2, <4>1, <4>2
    <3>2. CASE pc[t] # "w_lock" /\ pc[t] # "x_lock"
      <4>1. PICK c \in Chans : u = holder[c] /\ holder[c] # NoOne
        BY <2>2, <3>2
      <4> QED
        BY <2>1, <4>1
    <3> QED
      BY <3>1, <3>2
  <2> QED
    BY <2>4 DEF LocksAreOrdered
<1> QED
  BY <1>1, InvAlways, PTL

\* While a thread is inside a call and awake some such thread can take its next
\* step, for any number of threads and channels: a thread that is held up, the one
\* that holds it up, or the one that holds that one up.
THEOREM CallsNeverDeadlockAlways == Spec => []CallsNeverDeadlock
<1>1. IInv /\ LocksAreOrdered => CallsNeverDeadlock
  <2> SUFFICES ASSUME IInv, LocksAreOrdered, NEW t \in Threads, InsideACall(t)
               PROVE  \E u \in Threads : InsideACall(u) /\ CanGo(u)
    BY DEF CallsNeverDeadlock
  <2>1. ASSUME NEW u \in Threads, WaitsFor(u) = {} PROVE CanGo(u)
    BY <2>1 DEF WaitsFor, CanGo, At
  <2>2. CASE WaitsFor(t) = {}
    BY <2>1, <2>2
  <2>3. ASSUME NEW u \in WaitsFor(t) PROVE \E v \in Threads : InsideACall(v) /\ CanGo(v)
    <3>1. /\ u \in Threads /\ InsideACall(u)
          /\ \A v \in WaitsFor(u) : v \in Threads /\ InsideACall(v) /\ WaitsFor(v) = {}
      BY <2>3 DEF LocksAreOrdered
    <3>2. CASE WaitsFor(u) = {}
      BY <2>1, <3>1, <3>2
    <3>3. CASE WaitsFor(u) # {}
      BY <2>1, <3>1, <3>3
    <3> QED
      BY <3>2, <3>3
  <2> QED
    BY <2>2, <2>3
<1> QED
  BY <1>1, InvAlways, LocksAreOrderedAlways, PTL

=============================================================================
