-------------------------- MODULE GreenThreads_proofs --------------------------
(***************************************************************************)
(* Machine-checked proofs about GreenThreads, for any number of            *)
(* coroutines, jobs, deferreds and clock ticks and for either value of     *)
(* BlockingTimersOk:                                                       *)
(*   TypeCorrect                 Spec => []TypeOK                          *)
(*   OnePlaceAlways              Spec => []OnePlace                        *)
(*   NobodyStrandedAlways        Spec => []NobodyStranded                  *)
(*   NoCancelSleptThroughAlways  Spec => []NoCancelSleptThrough            *)
(*   OutcomesAreFinal            Spec => OutcomesAreWrittenOnce            *)
(*   NobodyIsOvertakenEver       Spec => NobodyIsOvertaken                 *)
(* The second, fourth and fifth rest on the inductive invariant PlaceInv.  *)
(***************************************************************************)
EXTENDS GreenThreads, TLAPS, FiniteSetTheorems, SequenceTheorems

-----------------------------------------------------------------------------
(* Facts about the data. *)

\* A set of coroutines is finite, so it can be counted and ordered.
LEMMA CoroutinesAreFinite ==
  ASSUME NEW S, S \subseteq Coroutine
  PROVE  IsFiniteSet(S) /\ Cardinality(S) \in Nat
<1>1. IsFiniteSet(Coroutine)
  BY FS_Interval, BoundsAssumption DEF Coroutine
<1>2. IsFiniteSet(S)
  BY <1>1, FS_Subset
<1> QED
  BY <1>2, FS_CardinalityType

\* An order of a set of coroutines is a sequence of them.
LEMMA OrdersAreSequences ==
  ASSUME NEW S, S \subseteq Coroutine, NEW w \in Orders(S)
  PROVE  /\ w \in Seq(Coroutine)
         /\ Len(w) = Cardinality(S)
         /\ \A i \in 1..Len(w) : w[i] \in S
<1>1. Cardinality(S) \in Nat
  BY CoroutinesAreFinite
<1>2. w \in [1..Cardinality(S) -> S]
  BY DEF Orders
<1>3. w \in Seq(S) /\ Len(w) = Cardinality(S)
  BY <1>1, <1>2
<1> QED
  BY <1>2, <1>3

\* The outcomes the actions deliver are outcomes.
LEMMA OutcomeFacts ==
  /\ \A v \in Payloads : Value(v) \in Outcomes /\ Value(v) # None
  /\ \A e \in Errors : Raise(e) \in Outcomes /\ Raise(e) # None
  /\ JobOutcomes \subseteq Outcomes
BY DEF Payloads, Errors, Outcomes, Value, Raise, None, JobOutcomes

\* Appending the woken coroutines keeps a run-queue of coroutines.
LEMMA WakeKeepsQueue ==
  ASSUME SchedTypeOK, NEW S, S \subseteq Coroutine,
         \E w \in Orders(S) : queue' = queue \o w
  PROVE  queue' \in Seq(Coroutine)
<1>1. PICK w \in Orders(S) : queue' = queue \o w
  OBVIOUS
<1>2. w \in Seq(Coroutine)
  BY OrdersAreSequences
<1>3. queue \in Seq(Coroutine)
  BY DEF SchedTypeOK
<1> QED
  BY <1>1, <1>2, <1>3

\* What each collection holds are coroutines.
LEMMA ParkedAreCoroutines ==
  ASSUME SchedTypeOK
  PROVE  /\ Threads(blocked) \subseteq Coroutine
         /\ Threads(io_blocked) \subseteq Coroutine
         /\ Threads(timer_blocked) \subseteq Coroutine
         /\ Threads(deferred_blocked) \subseteq Coroutine
         /\ Queued \subseteq Coroutine
<1>1. Queued \subseteq Coroutine
  BY DEF Queued, SchedTypeOK
<1>2. Threads(blocked) \subseteq Coroutine
  BY DEF Threads, SchedTypeOK
<1>3. Threads(io_blocked) \subseteq Coroutine
  BY DEF Threads, SchedTypeOK
<1>4. Threads(timer_blocked) \subseteq Coroutine
  BY DEF Threads, SchedTypeOK
<1>5. Threads(deferred_blocked) \subseteq Coroutine
  BY DEF Threads, SchedTypeOK
<1> QED
  BY <1>1, <1>2, <1>3, <1>4, <1>5

\* Delivering one outcome to every joiner of a finished coroutine.
LEMMA WakeJoinersType ==
  ASSUME SchedTypeOK, NEW g \in Coroutine, NEW o \in Outcomes \cup {None},
         WakeJoiners(g, o)
  PROVE  /\ queue' \in Seq(Coroutine)
         /\ parked_resume' \in [Coroutine -> Outcomes \cup {None}]
         /\ blocked' \subseteq [awaiting : Green, thread : Coroutine]
<1>1. Joiners(g) \subseteq Coroutine
  BY DEF Joiners, Threads, SchedTypeOK
<1>2. queue' \in Seq(Coroutine)
  BY <1>1, WakeKeepsQueue DEF WakeJoiners, MakeReady
<1> QED
  BY <1>2 DEF WakeJoiners, MakeReady, SchedTypeOK

\* The same for the awaiters of a deferred that settles.
LEMMA WakeDeferredType ==
  ASSUME SchedTypeOK, NEW d \in Deferreds, NEW o \in Outcomes, WakeDeferred(d, o)
  PROVE  /\ queue' \in Seq(Coroutine)
         /\ parked_resume' \in [Coroutine -> Outcomes \cup {None}]
         /\ deferred_blocked' \subseteq [deferred : Deferreds, thread : Coroutine]
<1>1. Awaiters(d) \subseteq Coroutine
  BY DEF Awaiters, Threads, SchedTypeOK
<1>2. queue' \in Seq(Coroutine)
  BY <1>1, WakeKeepsQueue DEF WakeDeferred, MakeReady
<1> QED
  BY <1>2 DEF WakeDeferred, MakeReady, SchedTypeOK

\* Firing the timers that are due.
LEMMA WakeTimersType ==
  ASSUME SchedTypeOK, NEW t, WakeTimers(t)
  PROVE  /\ queue' \in Seq(Coroutine)
         /\ parked_resume' \in [Coroutine -> Outcomes \cup {None}]
         /\ timer_blocked' \subseteq [wake_time : Time, thread : Coroutine]
<1>1. Threads(Due(t)) \subseteq Coroutine
  BY DEF Due, Threads, SchedTypeOK
<1>2. queue' \in Seq(Coroutine)
  BY <1>1, WakeKeepsQueue DEF WakeTimers, MakeReady
<1>3. Value("null") \in Outcomes
  BY OutcomeFacts DEF Payloads
<1> QED
  BY <1>2, <1>3 DEF WakeTimers, MakeReady, SchedTypeOK

\* Delivering the completions of the mailbox.
LEMMA WakeIoType ==
  ASSUME SchedTypeOK, mailbox \in [Jobs -> Outcomes \cup {None}], WakeIo(mailbox)
  PROVE  /\ queue' \in Seq(Coroutine)
         /\ parked_resume' \in [Coroutine -> Outcomes \cup {None}]
         /\ io_blocked' \subseteq [job_id : Jobs, thread : Coroutine]
<1> DEFINE arrived == {p \in io_blocked : mailbox[p.job_id] # None}
           outcome(c) == mailbox[(CHOOSE p \in arrived : p.thread = c).job_id]
<1>1. Threads(arrived) \subseteq Coroutine
  BY DEF Threads, SchedTypeOK
<1>2. queue' \in Seq(Coroutine)
  BY <1>1, WakeKeepsQueue DEF WakeIo, MakeReady
<1>3. ASSUME NEW c \in Threads(arrived)
      PROVE  outcome(c) \in Outcomes \cup {None}
  <2>1. \E p \in arrived : p.thread = c
    BY DEF Threads
  <2>2. (CHOOSE p \in arrived : p.thread = c) \in arrived
    BY <2>1
  <2>3. (CHOOSE p \in arrived : p.thread = c).job_id \in Jobs
    BY <2>2 DEF SchedTypeOK
  <2> QED
    BY <2>3
<1>4. parked_resume' =
        [c \in Coroutine |-> IF c \in Threads(arrived) THEN outcome(c)
                                                       ELSE parked_resume[c]]
  BY DEF WakeIo, MakeReady
<1>5. parked_resume' \in [Coroutine -> Outcomes \cup {None}]
  BY <1>3, <1>4 DEF SchedTypeOK
<1>6. io_blocked' \subseteq io_blocked
  BY DEF WakeIo
<1> QED
  BY <1>2, <1>5, <1>6 DEF SchedTypeOK

\* Tearing a coroutine from what it waits for.
LEMMA CancelUnparkType ==
  ASSUME SchedTypeOK, NEW g \in Coroutine, CancelUnpark(g)
  PROVE  /\ queue' \in Seq(Coroutine)
         /\ parked_resume' \in [Coroutine -> Outcomes \cup {None}]
         /\ blocked' \subseteq blocked /\ io_blocked' \subseteq io_blocked
         /\ timer_blocked' \subseteq timer_blocked
         /\ deferred_blocked' \subseteq deferred_blocked
<1>1. queue' = Append(queue, g) \/ queue' = queue
  BY DEF CancelUnpark
<1>2. Value("null") \in Outcomes
  BY OutcomeFacts DEF Payloads
<1>3. \/ parked_resume' = [parked_resume EXCEPT ![g] = Value("null")]
      \/ parked_resume' = parked_resume
  BY DEF CancelUnpark
<1>4. /\ blocked' \subseteq blocked /\ io_blocked' \subseteq io_blocked
      /\ timer_blocked' \subseteq timer_blocked
      /\ deferred_blocked' \subseteq deferred_blocked
  BY DEF CancelUnpark, Without
<1>5. queue' \in Seq(Coroutine)
  BY <1>1 DEF SchedTypeOK
<1>6. parked_resume' \in [Coroutine -> Outcomes \cup {None}]
  BY <1>2, <1>3 DEF SchedTypeOK
<1> QED
  BY <1>4, <1>5, <1>6

-----------------------------------------------------------------------------
(* The type invariant. *)

\* The initial state is well typed.
LEMMA TypeInit == Init => TypeOK
<1> SUFFICES ASSUME Init PROVE TypeOK
  OBVIOUS
<1>1. Main \in Coroutine /\ Nothing \in Sites /\ 0 \in Time
  BY BoundsAssumption DEF Main, Coroutine, Sites, Time
<1>2. SchedTypeOK
  BY <1>1, BoundsAssumption DEF Init, SchedInit, SchedTypeOK
<1> QED
  BY <1>1, <1>2, BoundsAssumption DEF Init, TypeOK

\* Every step, of a coroutine, a worker or the clock, keeps the types.
LEMMA TypeStep == TypeOK /\ [Next]_vars => TypeOK'
<1> SUFFICES ASSUME TypeOK, [Next]_vars PROVE TypeOK'
  OBVIOUS
<1> USE BoundsAssumption DEF TypeOK, SchedTypeOK
<1>0. /\ Main \in Coroutine /\ Green \subseteq Coroutine /\ Nothing \in Sites
      /\ \A c \in Coroutine : c # Main => c \in Green
      /\ \A g \in Green : OnGreen(g) \in Sites
      /\ \A j \in Jobs : OnJob(j) \in Sites
      /\ \A d \in Deferreds : OnDeferred(d) \in Sites
  BY DEF Main, Coroutine, Green, Sites
<1>o. /\ \A v \in Payloads : Value(v) \in Outcomes
      /\ \A e \in Errors : Raise(e) \in Outcomes
      /\ JobOutcomes \subseteq Outcomes
      /\ HostYield \in Outcomes
  BY OutcomeFacts DEF HostYield, Errors
<1>1. CASE Poll
  BY <1>1, WakeIoType DEF Poll, PollIoCompletions, EmptyMailbox, handleVars
<1>2. CASE FireTimers
  BY <1>2, WakeTimersType DEF FireTimers, handleVars, jobVars
<1>3. CASE StayOp
  <2>1. CASE Go
    BY <1>3, <2>1, <1>0 DEF Go, EnqueueFresh, Continue, parkVars, handleVars, jobVars, Green, Coroutine
  <2>2. CASE YieldAlone
    BY <2>2 DEF YieldAlone, Continue, schedVars, handleVars, jobVars
  <2>3. CASE BlockingInline
    BY <2>3, <1>o DEF BlockingInline, Deliver, RaiseErr, Continue, schedVars, handleVars, jobVars
  <2>4. CASE RaiseOp
    BY <2>4, <1>o DEF RaiseOp, RaiseErr, schedVars, handleVars, jobVars, Errors
  <2>5. ASSUME NEW g \in Green, JoinFinished(g) PROVE TypeOK'
    BY <2>5 DEF JoinFinished, Deliver, RaiseErr, Continue, schedVars, handleVars, jobVars
  <2>6. ASSUME NEW g \in Green, Cancel(g) PROVE TypeOK'
    <3>1. /\ queue' \in Seq(Coroutine)
          /\ parked_resume' \in [Coroutine -> Outcomes \cup {None}]
          /\ blocked' \subseteq blocked /\ io_blocked' \subseteq io_blocked
          /\ timer_blocked' \subseteq timer_blocked
          /\ deferred_blocked' \subseteq deferred_blocked
      BY <2>6, <1>0, CancelUnparkType DEF Cancel, parkVars
    <3>2. cancel_requested' \in [Green -> BOOLEAN]
      BY <2>6 DEF Cancel
    <3> QED
      BY <2>6, <3>1, <3>2 DEF Cancel, Continue, jobVars
  <2>7. ASSUME NEW d \in Deferreds, JoinSettled(d) PROVE TypeOK'
    BY <2>7 DEF JoinSettled, Deliver, RaiseErr, Continue, schedVars, handleVars, jobVars
  <2>8. ASSUME NEW d \in Deferreds, NEW o \in Outcomes, Settle(d, o) PROVE TypeOK'
    BY <2>8, WakeDeferredType DEF Settle, Continue, jobVars
  <2>9. ASSUME NEW d \in Deferreds, Resolve(d) \/ Reject(d) PROVE TypeOK'
    BY <2>8, <2>9, <1>o DEF Resolve, Reject, Payloads, Errors
  <2> QED
    BY <1>3, <2>1, <2>2, <2>3, <2>4, <2>5, <2>6, <2>7, <2>9 DEF StayOp
<1>4. CASE LeaveOp
  <2>0. RaiseCancelled => TypeOK'
    BY <1>0, <1>o DEF RaiseCancelled, SelfCancelled, RaiseErr, schedVars, jobVars, Errors
  <2>1. CASE YieldToNext
    BY <2>1, <1>o DEF YieldToNext, EnqueueCurrent, SwitchAway, parkVars, handleVars, jobVars, Payloads
  <2>2. CASE BlockingOffload
    <3>1. CASE RaiseCancelled
      BY <2>0, <3>1
    <3>2. CASE ~RaiseCancelled
      <4>1. next_job_id \in Jobs /\ next_job_id' = next_job_id + 1
        BY <2>2, <3>2 DEF BlockingOffload
      <4>2. next_job_id' \in 0..MaxJobs
        BY <4>1 DEF Jobs
      <4>3. running_jobs' \subseteq Jobs
        BY <2>2, <3>2, <4>1 DEF BlockingOffload
      <4>4. io_blocked' \subseteq [job_id : Jobs, thread : Coroutine]
        BY <2>2, <3>2, <4>1 DEF BlockingOffload, ParkIo
      <4>5. site' \in [Coroutine -> Sites]
        BY <2>2, <3>2, <4>1, <1>0 DEF BlockingOffload, Park
      <4>6. pc' = "pick" /\ in_flight' \in Outcomes
        BY <2>2, <3>2, <1>o DEF BlockingOffload, Park, SwitchAway
      <4> QED
        BY <2>2, <3>2, <4>2, <4>3, <4>4, <4>5, <4>6 DEF BlockingOffload, handleVars
    <3> QED
      BY <3>1, <3>2
  <2>3. ASSUME NEW o \in Outcomes, Finish(o), current_id \in Green, SwitchAway(in_flight')
        PROVE  in_flight' \in Outcomes \cup {None} => TypeOK'
    BY <2>3, <1>0, WakeJoinersType DEF Finish, SwitchAway, jobVars
  <2>4. CASE ReturnGreen
    <3>1. Finish(Value("done")) /\ SwitchAway(in_flight') /\ in_flight' = Value("done")
      BY <2>4 DEF ReturnGreen, SwitchAway
    <3>2. Value("done") \in Outcomes /\ current_id \in Green
      BY <2>4, <1>0, <1>o DEF ReturnGreen, Payloads
    <3> QED
      BY <2>3, <3>1, <3>2
  <2>5. CASE ReturnMain
    BY <2>5, <1>o DEF ReturnMain, schedVars, handleVars, jobVars, Payloads
  <2>6. ASSUME NEW g \in Green, JoinLive(g) PROVE TypeOK'
    <3>1. CASE RaiseCancelled
      BY <2>0, <3>1
    <3>2. CASE ~RaiseCancelled
      BY <2>6, <3>2, <1>0, <1>o
      DEF JoinLive, Block, Park, SwitchAway, RaiseErr, schedVars, handleVars, jobVars, Errors
    <3> QED
      BY <3>1, <3>2
  <2>7. ASSUME NEW d \in Deferreds, JoinUnsettled(d) PROVE TypeOK'
    <3>1. CASE RaiseCancelled
      BY <2>0, <3>1
    <3>2. CASE ~RaiseCancelled
      BY <2>7, <3>2, <1>0, <1>o
      DEF JoinUnsettled, ParkDeferred, Park, SwitchAway, RaiseErr, schedVars, handleVars,
          jobVars, Errors
    <3> QED
      BY <3>1, <3>2
  <2>8. ASSUME NEW s \in Delays, Wait(s) PROVE TypeOK'
    <3>1. CASE RaiseCancelled
      BY <2>0, <3>1
    <3>2. CASE ~RaiseCancelled
      BY <2>8, <3>2, <1>0, <1>o
      DEF Wait, ParkTimer, Park, SwitchAway, RaiseErr, schedVars, handleVars, jobVars, Errors
    <3> QED
      BY <3>1, <3>2
  <2> QED
    BY <1>4, <2>1, <2>2, <2>4, <2>5, <2>6, <2>7, <2>8 DEF LeaveOp
<1>5. CASE Unwind
  <2>1. CASE Caught
    BY <2>1 DEF Caught, Continue, schedVars, handleVars, jobVars
  <2>2. CASE FailGreen
    <3> DEFINE o == IF in_flight = Raise("cancelled") THEN Value("cancelled") ELSE in_flight
    <3>1. /\ Finish(o) /\ current_id \in Green
          /\ pc' = "pick" /\ in_flight' = in_flight
      BY <2>2, <1>0 DEF FailGreen, SwitchAway
    <3>2. o \in Outcomes \cup {None}
      BY <1>o DEF Payloads
    <3> QED
      BY <3>1, <3>2, <1>0, WakeJoinersType DEF Finish, jobVars
  <2>3. CASE FailMain
    BY <2>3 DEF FailMain, schedVars, handleVars, jobVars
  <2> QED
    BY <1>5, <2>1, <2>2, <2>3 DEF Unwind
<1>6. CASE Pick
  <2>1. CASE PickReady
    <3>1. Head(queue) \in Coroutine /\ Tail(queue) \in Seq(Coroutine)
      BY <2>1 DEF PickReady
    <3> QED
      BY <2>1, <3>1, <1>0, <1>o DEF PickReady, RaiseErr, Continue, parkVars, jobVars, Errors
  <2>2. CASE PumpIo
    BY <2>2, WakeIoType DEF PumpIo, PollIoCompletions, EmptyMailbox, handleVars
  <2>3. CASE SleepToNextTimer
    BY <2>3, WakeTimersType DEF SleepToNextTimer, handleVars, jobVars
  <2>4. CASE PickNone
    BY <2>4, <1>o DEF PickNone, schedVars, handleVars, jobVars, Errors
  <2> QED
    BY <1>6, <2>1, <2>2, <2>3, <2>4 DEF Pick
<1>7. ASSUME NEW j \in Jobs, Post(j) PROVE TypeOK'
  BY <1>7, <1>o DEF Post, schedVars, handleVars
<1>8. CASE Tick
  BY <1>8 DEF Tick, schedVars, handleVars, jobVars, Time
<1>9. CASE UNCHANGED vars
  BY <1>9 DEF vars, schedVars, vmVars, handleVars, jobVars
<1> QED
  BY <1>1, <1>2, <1>3, <1>4, <1>5, <1>6, <1>7, <1>8, <1>9 DEF Next, Terminated

\* Type correctness: whatever the coroutines do and whenever the workers and
\* the clock interfere, every collection holds coroutines with what they wait
\* for and every cell an outcome or nothing.
THEOREM TypeCorrect == Spec => []TypeOK
<1> QED
  BY TypeInit, TypeStep, PTL DEF Spec

-----------------------------------------------------------------------------
(* One place: the inductive invariant.                                     *)
(*                                                                         *)
(* Placed is OnePlace said with sets instead of the six names, so that a   *)
(* step can be followed from set to set.  It needs two facts to be         *)
(* inductive: an id `go` has not minted has no result, and an unwinding    *)
(* coroutine has an error to be recorded when it fails.                    *)

NoRepeat == \A i, j \in 1..Len(queue) : queue[i] = queue[j] => i = j
UniqueIn(X) == \A p, q \in X : p.thread = q.thread => p = q

InJoin   == Threads(blocked)
InIo     == Threads(io_blocked)
InTimer  == Threads(timer_blocked)
InDefer  == Threads(deferred_blocked)

Unique == /\ NoRepeat
          /\ UniqueIn(blocked) /\ UniqueIn(io_blocked)
          /\ UniqueIn(timer_blocked) /\ UniqueIn(deferred_blocked)

Apart == /\ Running \cap (Queued \cup InJoin \cup InIo \cup InTimer \cup InDefer) = {}
         /\ Queued \cap (InJoin \cup InIo \cup InTimer \cup InDefer) = {}
         /\ InJoin \cap (InIo \cup InTimer \cup InDefer) = {}
         /\ InIo \cap (InTimer \cup InDefer) = {}
         /\ InTimer \cap InDefer = {}

Everyone == Running \cup Queued \cup InJoin \cup InIo \cup InTimer \cup InDefer

Accounted == \A c \in Coroutine : Live(c) <=> c \in Everyone

Placed == Unique /\ Apart /\ Accounted

\* The same where coroutines outside the scheduler, those of A, are live too: a host
\* sets main aside.
AccountedBut(A) == /\ A \cap Everyone = {}
                   /\ \A c \in Coroutine : Live(c) <=> c \in Everyone \cup A

PlacedBut(A) == Unique /\ Apart /\ AccountedBut(A)

Unborn == \A g \in Green : g >= next_id => result[g] = None

RaiseHasError == pc = "raise" => in_flight # None

PlaceInv == /\ TypeOK
            /\ Unborn
            /\ RaiseHasError
            /\ pc # "ended" => Placed

PlaceInvBut(A) == /\ TypeOK
                  /\ Unborn
                  /\ RaiseHasError
                  /\ pc # "ended" => PlacedBut(A)

\* The inductive invariant gives the property the runs check: unique and
\* disjoint collections that account for the live coroutines are one place each.
LEMMA PlacedIsOnePlace == PlaceInv => OnePlace
<1> SUFFICES ASSUME PlaceInv, pc # "ended" PROVE OnePlace
  BY DEF OnePlace
<1>1. NoDuplicates
  BY DEF PlaceInv, Placed, Unique, NoRepeat, UniqueIn, NoDuplicates
<1>2. /\ Held("running") = Running /\ Held("queue") = Queued
      /\ Held("join") = InJoin /\ Held("io") = InIo
      /\ Held("timer") = InTimer /\ Held("deferred") = InDefer
  BY DEF Held, Running, InJoin, InIo, InTimer, InDefer
<1>3. ASSUME NEW c \in Coroutine
      PROVE  Live(c) <=> \E h \in Holders : c \in Held(h)
  BY <1>2 DEF PlaceInv, Placed, Accounted, Everyone, Holders
<1>4. ASSUME NEW c \in Coroutine, NEW h \in Holders, NEW k \in Holders,
             c \in Held(h), c \in Held(k)
      PROVE  h = k
  BY <1>2, <1>4 DEF PlaceInv, Placed, Apart, Holders
<1> QED
  BY <1>1, <1>3, <1>4 DEF OnePlace

-----------------------------------------------------------------------------
(* How the collections change. *)

\* One coroutine goes to the back of the run-queue.
LEMMA AppendMoves ==
  ASSUME SchedTypeOK, NEW c \in Coroutine, queue' = Append(queue, c)
  PROVE  /\ Queued' = Queued \cup {c}
         /\ NoRepeat /\ c \notin Queued => NoRepeat'
<1>1. /\ queue \in Seq(Coroutine)
      /\ Len(queue') = Len(queue) + 1
      /\ \A i \in 1..Len(queue) : queue'[i] = queue[i]
      /\ queue'[Len(queue) + 1] = c
  BY DEF SchedTypeOK
<1>2. Queued' = Queued \cup {c}
  BY <1>1 DEF Queued
<1>3. ASSUME NoRepeat, c \notin Queued PROVE NoRepeat'
  BY <1>1, <1>3 DEF NoRepeat, Queued
<1> QED
  BY <1>2, <1>3

\* The head of the run-queue is taken off.
LEMMA TailMoves ==
  ASSUME SchedTypeOK, queue # <<>>, queue' = Tail(queue), NoRepeat
  PROVE  /\ Queued' = Queued \ {Head(queue)}
         /\ Head(queue) \in Queued
         /\ NoRepeat'
<1>1. /\ queue \in Seq(Coroutine)
      /\ Len(queue) \in Nat /\ Len(queue) >= 1
      /\ Len(queue') = Len(queue) - 1
      /\ Head(queue) = queue[1]
      /\ \A i \in 1..Len(queue') : queue'[i] = queue[i + 1]
  BY DEF SchedTypeOK
<1>2. Head(queue) \in Queued
  BY <1>1 DEF Queued
<1>3. Queued' \subseteq Queued \ {Head(queue)}
  BY <1>1 DEF Queued, NoRepeat
<1>4. ASSUME NEW x \in Queued, x # Head(queue) PROVE x \in Queued'
  <2>1. PICK i \in 1..Len(queue) : queue[i] = x
    BY DEF Queued
  <2>2. i # 1 /\ i - 1 \in 1..Len(queue') /\ queue'[i - 1] = x
    BY <1>1, <1>4, <2>1
  <2> QED
    BY <2>2 DEF Queued
<1>5. NoRepeat'
  BY <1>1 DEF NoRepeat
<1> QED
  BY <1>2, <1>3, <1>4, <1>5

\* A wake: the coroutines of X that are not kept go to the run-queue, each once.
LEMMA WakeMoves ==
  ASSUME SchedTypeOK, NoRepeat,
         NEW X, NEW K, K \subseteq X, UniqueIn(X), Threads(X) \subseteq Coroutine,
         Queued \cap Threads(X) = {},
         \E w \in Orders(Threads(X \ K)) : queue' = queue \o w
  PROVE  /\ Queued' = Queued \cup Threads(X \ K)
         /\ NoRepeat'
         /\ Threads(K) = Threads(X) \ Threads(X \ K)
         /\ UniqueIn(K)
<1> DEFINE S == Threads(X \ K)
<1>0. S \subseteq Threads(X)
  BY DEF Threads
<1>1. PICK w \in Orders(S) : queue' = queue \o w
  OBVIOUS
<1>2. w \in Seq(Coroutine) /\ Len(w) = Cardinality(S) /\ \A i \in 1..Len(w) : w[i] \in S
  BY <1>0, OrdersAreSequences
<1>3. /\ \A x \in S : \E i \in 1..Len(w) : w[i] = x
      /\ \A i, j \in 1..Len(w) : w[i] = w[j] => i = j
  BY <1>2 DEF Orders
<1>4. /\ queue \in Seq(Coroutine)
      /\ Len(queue) \in Nat /\ Len(w) \in Nat
      /\ Len(queue') = Len(queue) + Len(w)
      /\ \A i \in 1..Len(queue) : queue'[i] = queue[i]
      /\ \A i \in 1..Len(w) : queue'[Len(queue) + i] = w[i]
      /\ \A i \in 1..Len(queue') : i > Len(queue) => queue'[i] = w[i - Len(queue)]
  <2>1. queue \in Seq(Coroutine) /\ Len(queue) \in Nat /\ Len(w) \in Nat
    BY <1>2 DEF SchedTypeOK
  <2>2. /\ Len(queue') = Len(queue) + Len(w)
        /\ \A i \in 1..(Len(queue) + Len(w)) :
             queue'[i] = IF i <= Len(queue) THEN queue[i] ELSE w[i - Len(queue)]
    BY <1>1, <1>2, <2>1, ConcatProperties
  <2>3. ASSUME NEW i \in 1..Len(queue) PROVE queue'[i] = queue[i]
    BY <2>1, <2>2
  <2>4. ASSUME NEW i \in 1..Len(w) PROVE queue'[Len(queue) + i] = w[i]
    <3>1. /\ Len(queue) + i \in 1..(Len(queue) + Len(w))
          /\ ~(Len(queue) + i <= Len(queue))
          /\ (Len(queue) + i) - Len(queue) = i
      BY <2>1
    <3> QED
      BY <2>2, <3>1
  <2>5. ASSUME NEW i \in 1..Len(queue'), i > Len(queue)
        PROVE  queue'[i] = w[i - Len(queue)]
    BY <2>1, <2>2, <2>5
  <2> QED
    BY <2>1, <2>2, <2>3, <2>4, <2>5
<1>5. Queued' \subseteq Queued \cup S
  <2>1. ASSUME NEW i \in 1..Len(queue') PROVE queue'[i] \in Queued \cup S
    <3>1. CASE i <= Len(queue)
      BY <1>4, <3>1 DEF Queued
    <3>2. CASE i > Len(queue)
      <4>1. i - Len(queue) \in 1..Len(w) /\ queue'[i] = w[i - Len(queue)]
        BY <1>4, <3>2
      <4> QED
        BY <1>2, <4>1
    <3> QED
      BY <1>4, <3>1, <3>2
  <2> QED
    BY <2>1 DEF Queued
<1>6. Queued \subseteq Queued'
  BY <1>4 DEF Queued
<1>7. S \subseteq Queued'
  <2>1. ASSUME NEW x \in S PROVE x \in Queued'
    <3>1. PICK i \in 1..Len(w) : w[i] = x
      BY <1>3
    <3>2. Len(queue) + i \in 1..Len(queue') /\ queue'[Len(queue) + i] = x
      BY <1>4, <3>1
    <3> QED
      BY <3>2 DEF Queued
  <2> QED
    BY <2>1
<1>8. NoRepeat'
  <2>1. ASSUME NEW i \in 1..Len(queue'), NEW j \in 1..Len(queue'), queue'[i] = queue'[j]
        PROVE  i = j
    <3>1. \A k \in 1..Len(queue) : queue[k] \notin S
      BY <1>0 DEF Queued
    <3>2. CASE i <= Len(queue) /\ j <= Len(queue)
      BY <1>4, <2>1, <3>2 DEF NoRepeat
    <3>3. CASE i > Len(queue) /\ j > Len(queue)
      <4>1. /\ i - Len(queue) \in 1..Len(w) /\ queue'[i] = w[i - Len(queue)]
            /\ j - Len(queue) \in 1..Len(w) /\ queue'[j] = w[j - Len(queue)]
        BY <1>4, <3>3
      <4>2. i - Len(queue) = j - Len(queue)
        BY <1>3, <2>1, <4>1
      <4> QED
        BY <1>4, <4>2
    <3>4. CASE i <= Len(queue) /\ j > Len(queue)
      <4>1. j - Len(queue) \in 1..Len(w) /\ queue'[j] = w[j - Len(queue)]
        BY <1>4, <3>4
      <4>2. queue'[j] \in S
        BY <1>2, <4>1
      <4>3. i \in 1..Len(queue) /\ queue'[i] = queue[i]
        BY <1>4, <3>4
      <4> QED
        BY <2>1, <3>1, <4>2, <4>3
    <3>5. CASE i > Len(queue) /\ j <= Len(queue)
      <4>1. i - Len(queue) \in 1..Len(w) /\ queue'[i] = w[i - Len(queue)]
        BY <1>4, <3>5
      <4>2. queue'[i] \in S
        BY <1>2, <4>1
      <4>3. j \in 1..Len(queue) /\ queue'[j] = queue[j]
        BY <1>4, <3>5
      <4> QED
        BY <2>1, <3>1, <4>2, <4>3
    <3> QED
      BY <1>4, <3>2, <3>3, <3>4, <3>5
  <2> QED
    BY <2>1 DEF NoRepeat
<1>9. Threads(K) = Threads(X) \ S /\ UniqueIn(K)
  BY DEF Threads, UniqueIn
<1> QED
  BY <1>5, <1>6, <1>7, <1>8, <1>9

\* One more coroutine parks.
LEMMA ParkMoves ==
  ASSUME NEW X, NEW p
  PROVE  /\ Threads(X \cup {p}) = Threads(X) \cup {p.thread}
         /\ UniqueIn(X) /\ p.thread \notin Threads(X) => UniqueIn(X \cup {p})
BY DEF Threads, UniqueIn

\* One coroutine is torn out of a collection.
LEMMA WithoutMoves ==
  ASSUME NEW X, NEW c
  PROVE  /\ Threads(Without(X, c)) = Threads(X) \ {c}
         /\ UniqueIn(X) => UniqueIn(Without(X, c))
BY DEF Threads, UniqueIn, Without

-----------------------------------------------------------------------------
(* The scheduler's operations, from set to set. *)

\* wake_joiners moves the joiners of one coroutine from `blocked` to the queue.
LEMMA WakeJoinersMoves ==
  ASSUME SchedTypeOK, Unique, Apart, NEW g, NEW o, WakeJoiners(g, o)
  PROVE  /\ Joiners(g) \subseteq InJoin
         /\ Queued' = Queued \cup Joiners(g)
         /\ InJoin' = InJoin \ Joiners(g)
         /\ NoRepeat' /\ UniqueIn(blocked')
<1> DEFINE K == {b \in blocked : b.awaiting # g}
<1>1. Joiners(g) = Threads(blocked \ K) /\ K \subseteq blocked
  BY DEF Joiners, Threads
<1>2. blocked' = K /\ \E w \in Orders(Threads(blocked \ K)) : queue' = queue \o w
  BY <1>1 DEF WakeJoiners, MakeReady
<1>3. Queued \cap Threads(blocked) = {} /\ Threads(blocked) \subseteq Coroutine
  BY ParkedAreCoroutines DEF Apart, InJoin
<1>4. /\ Queued' = Queued \cup Threads(blocked \ K) /\ NoRepeat'
      /\ Threads(K) = Threads(blocked) \ Threads(blocked \ K) /\ UniqueIn(K)
  BY <1>1, <1>2, <1>3, WakeMoves DEF Unique
<1>5. Threads(blocked \ K) \subseteq Threads(blocked)
  BY DEF Threads
<1> QED
  BY <1>1, <1>2, <1>4, <1>5 DEF InJoin

\* wake_deferred does the same with the awaiters of one deferred.
LEMMA WakeDeferredMoves ==
  ASSUME SchedTypeOK, Unique, Apart, NEW d, NEW o, WakeDeferred(d, o)
  PROVE  /\ Awaiters(d) \subseteq InDefer
         /\ Queued' = Queued \cup Awaiters(d)
         /\ InDefer' = InDefer \ Awaiters(d)
         /\ NoRepeat' /\ UniqueIn(deferred_blocked')
<1> DEFINE K == {b \in deferred_blocked : b.deferred # d}
<1>1. Awaiters(d) = Threads(deferred_blocked \ K) /\ K \subseteq deferred_blocked
  BY DEF Awaiters, Threads
<1>2. /\ deferred_blocked' = K
      /\ \E w \in Orders(Threads(deferred_blocked \ K)) : queue' = queue \o w
  BY <1>1 DEF WakeDeferred, MakeReady
<1>3. /\ Queued \cap Threads(deferred_blocked) = {}
      /\ Threads(deferred_blocked) \subseteq Coroutine
  BY ParkedAreCoroutines DEF Apart, InDefer
<1>4. /\ Queued' = Queued \cup Threads(deferred_blocked \ K) /\ NoRepeat'
      /\ Threads(K) = Threads(deferred_blocked) \ Threads(deferred_blocked \ K)
      /\ UniqueIn(K)
  BY <1>1, <1>2, <1>3, WakeMoves DEF Unique
<1>5. Threads(deferred_blocked \ K) \subseteq Threads(deferred_blocked)
  BY DEF Threads
<1> QED
  BY <1>1, <1>2, <1>4, <1>5 DEF InDefer

\* wake_timers does the same with the sleepers that are due.
LEMMA WakeTimersMoves ==
  ASSUME SchedTypeOK, Unique, Apart, NEW t, WakeTimers(t)
  PROVE  \E W \in SUBSET InTimer :
           /\ Queued' = Queued \cup W
           /\ InTimer' = InTimer \ W
           /\ NoRepeat' /\ UniqueIn(timer_blocked')
<1> DEFINE K == timer_blocked \ Due(t)
           W == Threads(timer_blocked \ K)
<1>1. W = Threads(Due(t)) /\ K \subseteq timer_blocked
  <2>1. timer_blocked \ K = Due(t)
    BY DEF Due
  <2> QED
    BY <2>1
<1>2. timer_blocked' = K /\ \E w \in Orders(W) : queue' = queue \o w
  BY <1>1 DEF WakeTimers, MakeReady
<1>3. Queued \cap Threads(timer_blocked) = {} /\ Threads(timer_blocked) \subseteq Coroutine
  BY ParkedAreCoroutines DEF Apart, InTimer
<1>4. /\ Queued' = Queued \cup W /\ NoRepeat'
      /\ Threads(K) = Threads(timer_blocked) \ W /\ UniqueIn(K)
  BY <1>1, <1>2, <1>3, WakeMoves DEF Unique
<1>5. W \subseteq InTimer
  BY DEF Threads, InTimer
<1> QED
  BY <1>2, <1>4, <1>5 DEF InTimer

\* wake_io does the same with the coroutines whose completion has arrived.
LEMMA WakeIoMoves ==
  ASSUME SchedTypeOK, Unique, Apart, WakeIo(mailbox)
  PROVE  \E W \in SUBSET InIo :
           /\ Queued' = Queued \cup W
           /\ InIo' = InIo \ W
           /\ NoRepeat' /\ UniqueIn(io_blocked')
<1> DEFINE arrived == {p \in io_blocked : mailbox[p.job_id] # None}
           K == io_blocked \ arrived
           W == Threads(io_blocked \ K)
<1>1. W = Threads(arrived) /\ K \subseteq io_blocked
  <2>1. io_blocked \ K = arrived
    OBVIOUS
  <2> QED
    BY <2>1
<1>2. io_blocked' = K /\ \E w \in Orders(W) : queue' = queue \o w
  BY <1>1 DEF WakeIo, MakeReady
<1>3. Queued \cap Threads(io_blocked) = {} /\ Threads(io_blocked) \subseteq Coroutine
  BY ParkedAreCoroutines DEF Apart, InIo
<1>4. /\ Queued' = Queued \cup W /\ NoRepeat'
      /\ Threads(K) = Threads(io_blocked) \ W /\ UniqueIn(K)
  BY <1>1, <1>2, <1>3, WakeMoves DEF Unique
<1>5. W \subseteq InIo
  BY DEF Threads, InIo
<1> QED
  BY <1>2, <1>4, <1>5 DEF InIo

\* cancel_unpark finds the coroutine in the one collection that holds it, so
\* stopping at the first is enough.
LEMMA CancelUnparkMoves ==
  ASSUME SchedTypeOK, Unique, Apart, NEW g \in Coroutine, CancelUnpark(g)
  PROVE  LET parked == g \in InJoin \cup InIo \cup InTimer \cup InDefer
         IN  /\ Queued' = IF parked THEN Queued \cup {g} ELSE Queued
             /\ InJoin' = InJoin \ {g} /\ InIo' = InIo \ {g}
             /\ InTimer' = InTimer \ {g} /\ InDefer' = InDefer \ {g}
             /\ Unique'
<1> DEFINE parked == g \in InJoin \cup InIo \cup InTimer \cup InDefer
<1>1. InJoin' = InJoin \ {g} /\ UniqueIn(blocked')
  BY WithoutMoves DEF CancelUnpark, InJoin, Unique
<1>2. InIo' = InIo \ {g} /\ UniqueIn(io_blocked')
  <2>1. g \in InJoin => g \notin InIo
    BY DEF Apart
  <2> QED
    BY <2>1, WithoutMoves DEF CancelUnpark, InJoin, InIo, Unique
<1>3. InTimer' = InTimer \ {g} /\ UniqueIn(timer_blocked')
  <2>1. g \in InJoin \/ g \in InIo => g \notin InTimer
    BY DEF Apart
  <2> QED
    BY <2>1, WithoutMoves DEF CancelUnpark, InJoin, InIo, InTimer, Unique
<1>4. InDefer' = InDefer \ {g} /\ UniqueIn(deferred_blocked')
  <2>1. g \in InJoin \/ g \in InIo \/ g \in InTimer => g \notin InDefer
    BY DEF Apart
  <2> QED
    BY <2>1, WithoutMoves DEF CancelUnpark, InJoin, InIo, InTimer, InDefer, Unique
<1>5. CASE parked
  <2>1. queue' = Append(queue, g)
    BY <1>5 DEF CancelUnpark, InJoin, InIo, InTimer, InDefer
  <2>2. g \notin Queued
    BY <1>5 DEF Apart
  <2>3. Queued' = Queued \cup {g} /\ NoRepeat'
    BY <2>1, <2>2, AppendMoves DEF Unique
  <2> QED
    BY <1>1, <1>2, <1>3, <1>4, <1>5, <2>3 DEF Unique
<1>6. CASE ~parked
  <2>1. queue' = queue
    BY <1>6 DEF CancelUnpark, InJoin, InIo, InTimer, InDefer
  <2>2. Queued' = Queued /\ NoRepeat'
    BY <2>1 DEF Queued, NoRepeat, Unique
  <2> QED
    BY <1>1, <1>2, <1>3, <1>4, <1>6, <2>2 DEF Unique
<1> QED
  BY <1>5, <1>6

-----------------------------------------------------------------------------
(* Every step keeps every coroutine in its one place. *)

\* Nothing moves.
LEMMA NothingMoves ==
  ASSUME NEW A, PlacedBut(A), UNCHANGED <<queue, parkVars, next_id, current_id, result>>,
         HasThread' = HasThread
  PROVE  PlacedBut(A)'
<1>1. /\ Queued' = Queued /\ InJoin' = InJoin /\ InIo' = InIo
      /\ InTimer' = InTimer /\ InDefer' = InDefer /\ Running' = Running
  BY DEF Queued, InJoin, InIo, InTimer, InDefer, Running, parkVars
<1>2. \A c \in Coroutine : Live(c)' <=> Live(c)
  BY DEF Live
<1>3. Unique'
  BY DEF PlacedBut, Unique, NoRepeat, UniqueIn, parkVars
<1>4. Apart'
  BY <1>1 DEF PlacedBut, Apart
<1>5. AccountedBut(A)'
  BY <1>1, <1>2 DEF PlacedBut, AccountedBut, Everyone
<1> QED
  BY <1>3, <1>4, <1>5 DEF PlacedBut

\* The running coroutine is live and nowhere else.
LEMMA RunningAlone ==
  ASSUME NEW A, PlaceInvBut(A), HasThread
  PROVE  /\ current_id \in Coroutine /\ Live(current_id)
         /\ current_id \notin Queued \cup InJoin \cup InIo \cup InTimer \cup InDefer
         /\ Running = {current_id} /\ PlacedBut(A)
<1>1. PlacedBut(A)
  BY DEF PlaceInvBut, HasThread
<1>2. Running = {current_id} /\ current_id \in Coroutine
  BY DEF Running, PlaceInvBut, TypeOK, SchedTypeOK
<1> QED
  BY <1>1, <1>2 DEF PlacedBut, Apart, AccountedBut, Everyone

\* A coroutine that parks leaves the thread for one collection.
LEMMA ParkPlaced ==
  ASSUME NEW A, PlaceInvBut(A), HasThread, ~HasThread', UNCHANGED <<queue, next_id, result>>,
         \/ /\ \E g : Block(g)
            /\ UNCHANGED <<io_blocked, timer_blocked, deferred_blocked>>
         \/ /\ \E j : ParkIo(j)
            /\ UNCHANGED <<blocked, timer_blocked, deferred_blocked>>
         \/ /\ \E t : ParkTimer(t)
            /\ UNCHANGED <<blocked, io_blocked, deferred_blocked>>
         \/ /\ \E d : ParkDeferred(d)
            /\ UNCHANGED <<blocked, io_blocked, timer_blocked>>
  PROVE  PlacedBut(A)'
<1> DEFINE me == {current_id}
<1>0. /\ current_id \notin Queued \cup InJoin \cup InIo \cup InTimer \cup InDefer
      /\ Running = me /\ PlacedBut(A)
  BY RunningAlone
<1>1. Running' = {} /\ Queued' = Queued /\ NoRepeat'
  BY <1>0 DEF Running, Queued, NoRepeat, PlacedBut, Unique
<1>2. \A c \in Coroutine : Live(c)' <=> Live(c)
  BY DEF Live
<1>3. /\ UniqueIn(blocked') /\ UniqueIn(io_blocked')
      /\ UniqueIn(timer_blocked') /\ UniqueIn(deferred_blocked')
      /\ \/ /\ InJoin' = InJoin \cup me /\ InIo' = InIo
            /\ InTimer' = InTimer /\ InDefer' = InDefer
         \/ /\ InJoin' = InJoin /\ InIo' = InIo \cup me
            /\ InTimer' = InTimer /\ InDefer' = InDefer
         \/ /\ InJoin' = InJoin /\ InIo' = InIo
            /\ InTimer' = InTimer \cup me /\ InDefer' = InDefer
         \/ /\ InJoin' = InJoin /\ InIo' = InIo
            /\ InTimer' = InTimer /\ InDefer' = InDefer \cup me
  <2>0. /\ UniqueIn(blocked) /\ UniqueIn(io_blocked)
        /\ UniqueIn(timer_blocked) /\ UniqueIn(deferred_blocked)
    BY <1>0 DEF PlacedBut, Unique
  <2>1. CASE /\ \E g : Block(g)
             /\ UNCHANGED <<io_blocked, timer_blocked, deferred_blocked>>
    <3>1. PICK g : blocked' = blocked \cup {[awaiting |-> g, thread |-> current_id]}
      BY <2>1 DEF Block
    <3>2. [awaiting |-> g, thread |-> current_id].thread = current_id
      OBVIOUS
    <3>3. Threads(blocked') = Threads(blocked) \cup me /\ UniqueIn(blocked')
      BY <1>0, <2>0, <3>1, <3>2, ParkMoves DEF InJoin
    <3> QED
      BY <2>0, <2>1, <3>3 DEF InJoin, InIo, InTimer, InDefer
  <2>2. CASE /\ \E j : ParkIo(j)
             /\ UNCHANGED <<blocked, timer_blocked, deferred_blocked>>
    <3>1. PICK j : io_blocked' = io_blocked \cup {[job_id |-> j, thread |-> current_id]}
      BY <2>2 DEF ParkIo
    <3>2. [job_id |-> j, thread |-> current_id].thread = current_id
      OBVIOUS
    <3>3. Threads(io_blocked') = Threads(io_blocked) \cup me /\ UniqueIn(io_blocked')
      BY <1>0, <2>0, <3>1, <3>2, ParkMoves DEF InIo
    <3> QED
      BY <2>0, <2>2, <3>3 DEF InJoin, InIo, InTimer, InDefer
  <2>3. CASE /\ \E t : ParkTimer(t)
             /\ UNCHANGED <<blocked, io_blocked, deferred_blocked>>
    <3>1. PICK t : timer_blocked' = timer_blocked \cup {[wake_time |-> t, thread |-> current_id]}
      BY <2>3 DEF ParkTimer
    <3>2. [wake_time |-> t, thread |-> current_id].thread = current_id
      OBVIOUS
    <3>3. /\ Threads(timer_blocked') = Threads(timer_blocked) \cup me
          /\ UniqueIn(timer_blocked')
      BY <1>0, <2>0, <3>1, <3>2, ParkMoves DEF InTimer
    <3> QED
      BY <2>0, <2>3, <3>3 DEF InJoin, InIo, InTimer, InDefer
  <2>4. CASE /\ \E d : ParkDeferred(d)
             /\ UNCHANGED <<blocked, io_blocked, timer_blocked>>
    <3>1. PICK d : deferred_blocked' =
                     deferred_blocked \cup {[deferred |-> d, thread |-> current_id]}
      BY <2>4 DEF ParkDeferred
    <3>2. [deferred |-> d, thread |-> current_id].thread = current_id
      OBVIOUS
    <3>3. /\ Threads(deferred_blocked') = Threads(deferred_blocked) \cup me
          /\ UniqueIn(deferred_blocked')
      BY <1>0, <2>0, <3>1, <3>2, ParkMoves DEF InDefer
    <3> QED
      BY <2>0, <2>4, <3>3 DEF InJoin, InIo, InTimer, InDefer
  <2> QED
    BY <2>1, <2>2, <2>3, <2>4
<1>4. Unique'
  BY <1>1, <1>3 DEF Unique
<1>5. Apart'
  BY <1>0, <1>1, <1>3 DEF PlacedBut, Apart
<1>6. AccountedBut(A)'
  BY <1>0, <1>1, <1>2, <1>3 DEF PlacedBut, AccountedBut, Everyone
<1> QED
  BY <1>4, <1>5, <1>6 DEF PlacedBut

\* A coroutine that ends leaves the thread and its joiners become ready.
LEMMA FinishPlaced ==
  ASSUME NEW A, PlaceInvBut(A), HasThread, ~HasThread', current_id \in Green,
         NEW o, o # None, Finish(o)
  PROVE  PlacedBut(A)'
<1>0. /\ current_id \notin Queued \cup InJoin \cup InIo \cup InTimer \cup InDefer
      /\ Running = {current_id} /\ PlacedBut(A) /\ SchedTypeOK
  BY RunningAlone DEF PlaceInvBut, TypeOK
<1> DEFINE W == Joiners(current_id)
<1>1. /\ W \subseteq InJoin /\ Queued' = Queued \cup W /\ InJoin' = InJoin \ W
      /\ NoRepeat' /\ UniqueIn(blocked')
  BY <1>0, WakeJoinersMoves DEF PlacedBut, Finish
<1>2. /\ Running' = {} /\ InIo' = InIo /\ InTimer' = InTimer /\ InDefer' = InDefer
      /\ UniqueIn(io_blocked') /\ UniqueIn(timer_blocked') /\ UniqueIn(deferred_blocked')
  BY <1>0 DEF Finish, Running, InIo, InTimer, InDefer, PlacedBut, Unique
<1>3. \A c \in Coroutine : Live(c)' <=> Live(c) /\ c # current_id
  BY DEF Finish, Live, PlaceInvBut, TypeOK, Coroutine, Green, Main
<1>4. Unique'
  BY <1>1, <1>2 DEF Unique
<1>5. Apart'
  BY <1>0, <1>1, <1>2 DEF PlacedBut, Apart
<1>6. AccountedBut(A)'
  BY <1>0, <1>1, <1>2, <1>3 DEF PlacedBut, AccountedBut, Everyone
<1> QED
  BY <1>4, <1>5, <1>6 DEF PlacedBut

\* A wake out of one collection leaves every coroutine in one place.
LEMMA WakePlaced ==
  ASSUME NEW A, PlacedBut(A), NEW W,
         UNCHANGED <<next_id, current_id, result>>, HasThread' = HasThread,
         Queued' = Queued \cup W, Unique',
         \/ /\ W \subseteq InIo /\ InIo' = InIo \ W
            /\ InJoin' = InJoin /\ InTimer' = InTimer /\ InDefer' = InDefer
         \/ /\ W \subseteq InTimer /\ InTimer' = InTimer \ W
            /\ InJoin' = InJoin /\ InIo' = InIo /\ InDefer' = InDefer
         \/ /\ W \subseteq InDefer /\ InDefer' = InDefer \ W
            /\ InJoin' = InJoin /\ InIo' = InIo /\ InTimer' = InTimer
  PROVE  PlacedBut(A)'
<1>1. Running' = Running
  BY DEF Running
<1>2. \A c \in Coroutine : Live(c)' <=> Live(c)
  BY DEF Live
<1>3. Apart'
  BY <1>1 DEF PlacedBut, Apart
<1>4. AccountedBut(A)'
  BY <1>1, <1>2 DEF PlacedBut, AccountedBut, Everyone
<1> QED
  BY <1>3, <1>4 DEF PlacedBut

\* Delivering completions leaves every coroutine in one place.
LEMMA IoWakePlaced ==
  ASSUME NEW A, SchedTypeOK, PlacedBut(A), HasThread' = HasThread, WakeIo(mailbox),
         UNCHANGED <<blocked, timer_blocked, deferred_blocked, next_id, current_id, result>>
  PROVE  PlacedBut(A)'
<1>1. PICK W \in SUBSET InIo :
        /\ Queued' = Queued \cup W /\ InIo' = InIo \ W
        /\ NoRepeat' /\ UniqueIn(io_blocked')
  BY WakeIoMoves DEF PlacedBut
<1>2. InJoin' = InJoin /\ InTimer' = InTimer /\ InDefer' = InDefer
  BY DEF InJoin, InTimer, InDefer
<1>3. Unique'
  BY <1>1 DEF PlacedBut, Unique
<1> QED
  BY <1>1, <1>2, <1>3, WakePlaced

\* Firing timers leaves every coroutine in one place.
LEMMA TimerWakePlaced ==
  ASSUME NEW A, SchedTypeOK, PlacedBut(A), HasThread' = HasThread, NEW t, WakeTimers(t),
         UNCHANGED <<blocked, io_blocked, deferred_blocked, next_id, current_id, result>>
  PROVE  PlacedBut(A)'
<1>1. PICK W \in SUBSET InTimer :
        /\ Queued' = Queued \cup W /\ InTimer' = InTimer \ W
        /\ NoRepeat' /\ UniqueIn(timer_blocked')
  BY WakeTimersMoves DEF PlacedBut
<1>2. InJoin' = InJoin /\ InIo' = InIo /\ InDefer' = InDefer
  BY DEF InJoin, InIo, InDefer
<1>3. Unique'
  BY <1>1 DEF PlacedBut, Unique
<1> QED
  BY <1>1, <1>2, <1>3, WakePlaced

\* Every step of the actor keeps each live coroutine in exactly one place.
LEMMA PlacedStep ==
  ASSUME NEW A, PlaceInvBut(A), [Next]_vars, pc' # "ended"
  PROVE  PlacedBut(A)'
<1>0. SchedTypeOK /\ TypeOK /\ RaiseHasError
  BY DEF PlaceInvBut, TypeOK
<1>1. CASE Poll
  <2>1. PlacedBut(A) /\ HasThread' = HasThread
    BY <1>1 DEF PlaceInvBut, Poll, HasThread
  <2>2. CASE io_blocked # {}
    BY <1>0, <1>1, <2>1, <2>2, IoWakePlaced DEF Poll, PollIoCompletions, handleVars
  <2>3. CASE io_blocked = {}
    BY <1>1, <2>1, <2>3, NothingMoves DEF Poll, handleVars, parkVars
  <2> QED
    BY <2>2, <2>3
<1>2. CASE FireTimers
  <2>1. PlacedBut(A) /\ HasThread' = HasThread
    BY <1>2 DEF PlaceInvBut, FireTimers, HasThread
  <2>2. CASE BlockingTimersOk /\ timer_blocked # {}
    BY <1>0, <1>2, <2>1, <2>2, TimerWakePlaced DEF FireTimers, handleVars
  <2>3. CASE ~(BlockingTimersOk /\ timer_blocked # {})
    BY <1>2, <2>1, <2>3, NothingMoves DEF FireTimers, handleVars, parkVars
  <2> QED
    BY <2>2, <2>3
<1>3. ASSUME UNCHANGED schedVars, result' = result, pc = "exec" \/ pc = "raise",
             pc' = "poll" \/ pc' = "raise"
      PROVE  PlacedBut(A)'
  BY <1>3, NothingMoves DEF PlaceInvBut, HasThread, schedVars, parkVars
<1>4. CASE StayOp
  <2>1. CASE Go
    <3>1. PlaceInvBut(A) /\ HasThread /\ HasThread'
      BY <2>1 DEF Go, HasThread, Continue
    <3>2. /\ PlacedBut(A) /\ next_id \in Green /\ next_id \in Coroutine
          /\ queue' = Append(queue, next_id) /\ next_id' = next_id + 1
      BY <2>1, <3>1, RunningAlone DEF Go, EnqueueFresh, Green, Coroutine
    <3>3. ~Live(next_id)
      BY <1>0, <3>2, BoundsAssumption DEF Live, Main, Green, TypeOK, SchedTypeOK
    <3>4. next_id \notin Everyone \cup A
      BY <3>2, <3>3 DEF PlacedBut, AccountedBut
    <3>5. Queued' = Queued \cup {next_id} /\ NoRepeat'
      BY <1>0, <3>2, <3>4, AppendMoves DEF Everyone, PlacedBut, Unique
    <3>6. /\ InJoin' = InJoin /\ InIo' = InIo /\ InTimer' = InTimer /\ InDefer' = InDefer
          /\ Running' = Running
      BY <2>1, <3>1 DEF Go, parkVars, InJoin, InIo, InTimer, InDefer, Running
    <3>7. result[next_id] = None
      BY <1>0, <3>2 DEF PlaceInvBut, Unborn, TypeOK, SchedTypeOK
    <3>8. \A c \in Coroutine : Live(c)' <=> (Live(c) \/ c = next_id)
      BY <1>0, <2>1, <3>2, <3>7 DEF Go, Live, handleVars, TypeOK, SchedTypeOK, Coroutine, Main
    <3>9. Unique'
      BY <2>1, <3>2, <3>5 DEF Go, parkVars, PlacedBut, Unique
    <3>10. Apart'
      BY <3>2, <3>4, <3>5, <3>6 DEF PlacedBut, Apart, Everyone
    <3>11. AccountedBut(A)'
      BY <3>2, <3>4, <3>5, <3>6, <3>8 DEF PlacedBut, AccountedBut, Everyone
    <3> QED
      BY <3>9, <3>10, <3>11 DEF PlacedBut
  <2>2. CASE YieldAlone
    BY <1>3, <2>2 DEF YieldAlone, Continue, handleVars
  <2>3. CASE BlockingInline
    BY <1>3, <2>3 DEF BlockingInline, Deliver, RaiseErr, Continue, handleVars
  <2>4. CASE RaiseOp
    BY <1>3, <2>4 DEF RaiseOp, RaiseErr, handleVars
  <2>5. ASSUME NEW g \in Green, JoinFinished(g) PROVE PlacedBut(A)'
    BY <1>3, <2>5 DEF JoinFinished, Deliver, RaiseErr, Continue, handleVars
  <2>6. ASSUME NEW d \in Deferreds, JoinSettled(d) PROVE PlacedBut(A)'
    BY <1>3, <2>6 DEF JoinSettled, Deliver, RaiseErr, Continue, handleVars
  <2>7. ASSUME NEW g \in Green, Cancel(g) PROVE PlacedBut(A)'
    <3>1. PlacedBut(A) /\ HasThread' = HasThread /\ UNCHANGED <<next_id, current_id, result>>
      BY <2>7 DEF PlaceInvBut, Cancel, HasThread, Continue
    <3>2. CASE result[g] # None
      BY <2>7, <3>1, <3>2, NothingMoves DEF Cancel, parkVars
    <3>3. CASE result[g] = None
      <4> DEFINE parked == g \in InJoin \cup InIo \cup InTimer \cup InDefer
      <4>1. CancelUnpark(g) /\ g \in Coroutine
        BY <2>7, <3>3 DEF Cancel, Green, Coroutine
      <4>2. /\ Queued' = IF parked THEN Queued \cup {g} ELSE Queued
            /\ InJoin' = InJoin \ {g} /\ InIo' = InIo \ {g}
            /\ InTimer' = InTimer \ {g} /\ InDefer' = InDefer \ {g}
            /\ Unique'
        BY <1>0, <3>1, <4>1, CancelUnparkMoves DEF PlacedBut
      <4>3. Running' = Running /\ \A c \in Coroutine : Live(c)' <=> Live(c)
        BY <3>1 DEF Running, Live
      <4>4. Apart'
        BY <3>1, <4>2, <4>3 DEF PlacedBut, Apart
      <4>5. AccountedBut(A)'
        BY <3>1, <4>2, <4>3 DEF PlacedBut, AccountedBut, Everyone
      <4> QED
        BY <4>2, <4>4, <4>5 DEF PlacedBut
    <3> QED
      BY <3>2, <3>3
  <2>8. ASSUME NEW d \in Deferreds, NEW o, Settle(d, o) PROVE PlacedBut(A)'
    <3>1. PlacedBut(A) /\ HasThread' = HasThread /\ UNCHANGED <<next_id, current_id, result>>
      BY <2>8 DEF PlaceInvBut, Settle, HasThread, Continue
    <3>2. CASE settled[d] # None
      BY <2>8, <3>1, <3>2, NothingMoves DEF Settle, parkVars
    <3>3. CASE settled[d] = None
      <4>1. WakeDeferred(d, o) /\ UNCHANGED <<blocked, io_blocked, timer_blocked>>
        BY <2>8, <3>3 DEF Settle
      <4>2. /\ Awaiters(d) \subseteq InDefer /\ Queued' = Queued \cup Awaiters(d)
            /\ InDefer' = InDefer \ Awaiters(d)
            /\ NoRepeat' /\ UniqueIn(deferred_blocked')
        BY <1>0, <3>1, <4>1, WakeDeferredMoves DEF PlacedBut
      <4>3. InJoin' = InJoin /\ InIo' = InIo /\ InTimer' = InTimer
        BY <4>1 DEF InJoin, InIo, InTimer
      <4>4. Unique'
        BY <3>1, <4>1, <4>2 DEF PlacedBut, Unique
      <4> QED
        BY <3>1, <4>2, <4>3, <4>4, WakePlaced
    <3> QED
      BY <3>2, <3>3
  <2>9. ASSUME NEW d \in Deferreds, Resolve(d) \/ Reject(d) PROVE PlacedBut(A)'
    BY <2>8, <2>9 DEF Resolve, Reject
  <2> QED
    BY <1>4, <2>1, <2>2, <2>3, <2>4, <2>5, <2>6, <2>7, <2>9 DEF StayOp
<1>5. CASE LeaveOp
  <2>0. ASSUME RaiseCancelled, pc = "exec" PROVE PlacedBut(A)'
    BY <1>3, <2>0 DEF RaiseCancelled, RaiseErr
  <2>1. CASE YieldToNext
    <3>1. PlaceInvBut(A) /\ HasThread /\ ~HasThread'
      BY <2>1 DEF YieldToNext, SwitchAway, HasThread
    <3>2. /\ current_id \notin Queued \cup InJoin \cup InIo \cup InTimer \cup InDefer
          /\ Running = {current_id} /\ PlacedBut(A)
      BY <3>1, RunningAlone
    <3>3. Queued' = Queued \cup {current_id} /\ NoRepeat'
      BY <1>0, <2>1, <3>2, AppendMoves
      DEF YieldToNext, EnqueueCurrent, SchedTypeOK, PlacedBut, Unique
    <3>4. /\ InJoin' = InJoin /\ InIo' = InIo /\ InTimer' = InTimer /\ InDefer' = InDefer
          /\ Running' = {}
      BY <2>1, <3>1 DEF YieldToNext, parkVars, InJoin, InIo, InTimer, InDefer, Running
    <3>5. \A c \in Coroutine : Live(c)' <=> Live(c)
      BY <2>1 DEF YieldToNext, handleVars, Live
    <3>6. Unique'
      BY <2>1, <3>2, <3>3 DEF YieldToNext, parkVars, PlacedBut, Unique
    <3>7. Apart'
      BY <3>2, <3>3, <3>4 DEF PlacedBut, Apart
    <3>8. AccountedBut(A)'
      BY <3>2, <3>3, <3>4, <3>5 DEF PlacedBut, AccountedBut, Everyone
    <3> QED
      BY <3>6, <3>7, <3>8 DEF PlacedBut
  <2>2. CASE BlockingOffload
    <3>1. CASE RaiseCancelled
      BY <2>0, <2>2, <3>1 DEF BlockingOffload
    <3>2. CASE ~RaiseCancelled
      BY <2>2, <3>2, ParkPlaced DEF BlockingOffload, Park, SwitchAway, HasThread, handleVars
    <3> QED
      BY <3>1, <3>2
  <2>3. CASE ReturnGreen
    <3>1. current_id \in Green /\ Value("done") # None
      BY <1>0, <2>3, OutcomeFacts DEF ReturnGreen, SchedTypeOK, Coroutine, Green, Main, Payloads
    <3> QED
      BY <2>3, <3>1, FinishPlaced DEF ReturnGreen, SwitchAway, HasThread
  <2>4. CASE ReturnMain
    BY <2>4 DEF ReturnMain
  <2>5. ASSUME NEW g \in Green, JoinLive(g) PROVE PlacedBut(A)'
    <3>1. CASE RaiseCancelled
      BY <2>0, <2>5, <3>1 DEF JoinLive
    <3>2. CASE RaiseErr(Raise("deadlock")) /\ UNCHANGED <<schedVars, handleVars>>
      BY <1>3, <2>5, <3>2 DEF JoinLive, RaiseErr, handleVars
    <3>3. CASE /\ Block(g) /\ Park(OnGreen(g))
               /\ UNCHANGED <<queue, io_blocked, timer_blocked, deferred_blocked, next_id, handleVars>>
      <4>1. HasThread /\ ~HasThread'
        BY <2>5, <3>3 DEF JoinLive, Park, SwitchAway, HasThread
      <4> QED
        BY <3>3, <4>1, ParkPlaced DEF handleVars
    <3> QED
      BY <2>5, <3>1, <3>2, <3>3 DEF JoinLive
  <2>6. ASSUME NEW d \in Deferreds, JoinUnsettled(d) PROVE PlacedBut(A)'
    <3>1. CASE RaiseCancelled
      BY <2>0, <2>6, <3>1 DEF JoinUnsettled
    <3>2. CASE RaiseErr(Raise("deadlock")) /\ UNCHANGED <<schedVars, handleVars>>
      BY <1>3, <2>6, <3>2 DEF JoinUnsettled, RaiseErr, handleVars
    <3>3. CASE /\ ParkDeferred(d) /\ Park(OnDeferred(d))
               /\ UNCHANGED <<queue, blocked, io_blocked, timer_blocked, next_id, handleVars>>
      <4>1. HasThread /\ ~HasThread'
        BY <2>6, <3>3 DEF JoinUnsettled, Park, SwitchAway, HasThread
      <4> QED
        BY <3>3, <4>1, ParkPlaced DEF handleVars
    <3> QED
      BY <2>6, <3>1, <3>2, <3>3 DEF JoinUnsettled
  <2>7. ASSUME NEW s \in Delays, Wait(s) PROVE PlacedBut(A)'
    <3>1. CASE RaiseCancelled
      BY <2>0, <2>7, <3>1 DEF Wait
    <3>2. CASE RaiseErr(Raise("raised")) /\ UNCHANGED <<schedVars, handleVars>>
      BY <1>3, <2>7, <3>2 DEF Wait, RaiseErr, handleVars
    <3>3. CASE /\ ParkTimer(now + s) /\ Park(Nothing)
               /\ UNCHANGED <<queue, blocked, io_blocked, deferred_blocked, next_id, handleVars>>
      <4>1. HasThread /\ ~HasThread'
        BY <2>7, <3>3 DEF Wait, Park, SwitchAway, HasThread
      <4> QED
        BY <3>3, <4>1, ParkPlaced DEF handleVars
    <3> QED
      BY <2>7, <3>1, <3>2, <3>3 DEF Wait
  <2> QED
    BY <1>5, <2>1, <2>2, <2>3, <2>4, <2>5, <2>6, <2>7 DEF LeaveOp
<1>6. CASE Unwind
  <2>1. CASE Caught
    BY <1>3, <2>1 DEF Caught, Continue, handleVars
  <2>2. CASE FailGreen
    <3> DEFINE o == IF in_flight = Raise("cancelled") THEN Value("cancelled") ELSE in_flight
    <3>1. o # None
      BY <1>0, <2>2, OutcomeFacts DEF FailGreen, RaiseHasError, Payloads
    <3>2. current_id \in Green
      BY <1>0, <2>2 DEF FailGreen, SchedTypeOK, Coroutine, Green, Main
    <3>3. Finish(o) /\ HasThread /\ ~HasThread'
      BY <2>2 DEF FailGreen, SwitchAway, HasThread
    <3> QED
      BY <3>1, <3>2, <3>3, FinishPlaced
  <2>3. CASE FailMain
    BY <2>3 DEF FailMain
  <2> QED
    BY <1>6, <2>1, <2>2, <2>3 DEF Unwind
<1>7. CASE Pick
  <2>1. CASE PickReady
    <3>1. /\ PlacedBut(A) /\ Running = {} /\ Running' = {Head(queue)}
      BY <2>1 DEF PlaceInvBut, PickReady, Running, HasThread, RaiseErr, Continue
    <3>2. /\ Queued' = Queued \ {Head(queue)} /\ Head(queue) \in Queued /\ NoRepeat'
      BY <1>0, <2>1, <3>1, TailMoves DEF PickReady, PlacedBut, Unique
    <3>3. InJoin' = InJoin /\ InIo' = InIo /\ InTimer' = InTimer /\ InDefer' = InDefer
      BY <2>1 DEF PickReady, parkVars, InJoin, InIo, InTimer, InDefer
    <3>4. \A c \in Coroutine : Live(c)' <=> Live(c)
      BY <2>1 DEF PickReady, Live
    <3>5. Unique'
      BY <2>1, <3>1, <3>2 DEF PickReady, parkVars, PlacedBut, Unique
    <3>6. Apart'
      BY <3>1, <3>2, <3>3 DEF PlacedBut, Apart
    <3>7. AccountedBut(A)'
      BY <3>1, <3>2, <3>3, <3>4 DEF PlacedBut, AccountedBut, Everyone
    <3> QED
      BY <3>5, <3>6, <3>7 DEF PlacedBut
  <2>2. CASE PumpIo
    <3>1. PlacedBut(A) /\ HasThread' = HasThread
      BY <2>2 DEF PlaceInvBut, PumpIo, HasThread
    <3> QED
      BY <1>0, <2>2, <3>1, IoWakePlaced DEF PumpIo, PollIoCompletions, handleVars
  <2>3. CASE SleepToNextTimer
    <3>1. PlacedBut(A) /\ HasThread' = HasThread
      BY <2>3 DEF PlaceInvBut, SleepToNextTimer, HasThread
    <3> QED
      BY <1>0, <2>3, <3>1, TimerWakePlaced DEF SleepToNextTimer, handleVars
  <2>4. CASE PickNone
    BY <2>4 DEF PickNone
  <2> QED
    BY <1>7, <2>1, <2>2, <2>3, <2>4 DEF Pick
<1>8. ASSUME UNCHANGED <<schedVars, pc, result>> PROVE PlacedBut(A)'
  BY <1>8, NothingMoves DEF PlaceInvBut, schedVars, parkVars, HasThread
<1>9. ASSUME NEW j \in Jobs, Post(j) PROVE PlacedBut(A)'
  BY <1>8, <1>9 DEF Post, handleVars
<1>10. CASE Tick
  BY <1>8, <1>10 DEF Tick, handleVars
<1>11. CASE UNCHANGED vars
  BY <1>8, <1>11 DEF vars, vmVars, handleVars
<1> QED
  BY <1>1, <1>2, <1>4, <1>5, <1>6, <1>7, <1>9, <1>10, <1>11 DEF Next, Terminated

\* What the steps do to `result` and next_id: only Go mints an id and only the
\* end of the running coroutine, which is live, writes a result.
LEMMA ResultMoves ==
  ASSUME NEW A, PlaceInvBut(A), [Next]_vars
  PROVE  \/ UNCHANGED <<result, next_id>>
         \/ result' = result /\ next_id \in Green /\ next_id' = next_id + 1
         \/ /\ next_id' = next_id /\ current_id \in Green /\ Live(current_id)
            /\ \E o : result' = [result EXCEPT ![current_id] = o]
<1>0. TypeOK /\ SchedTypeOK
  BY DEF PlaceInvBut, TypeOK
<1>1. ASSUME NEW o, Finish(o), HasThread, current_id # Main
      PROVE  /\ next_id' = next_id /\ current_id \in Green /\ Live(current_id)
             /\ result' = [result EXCEPT ![current_id] = o]
  BY <1>0, <1>1, RunningAlone DEF Finish, SchedTypeOK, Coroutine, Green, Main
<1>2. CASE Poll \/ FireTimers \/ (\E j \in Jobs : Post(j)) \/ Tick \/ Terminated \/ UNCHANGED vars
  BY <1>2 DEF Poll, FireTimers, Post, Tick, Terminated, handleVars, schedVars, vmVars, vars
<1>3. CASE StayOp
  <2>1. CASE Go
    BY <2>1 DEF Go, EnqueueFresh, handleVars
  <2>2. CASE ~Go
    BY <1>3, <2>2
    DEF StayOp, YieldAlone, BlockingInline, RaiseOp, JoinFinished, Cancel, JoinSettled,
        Resolve, Reject, Settle, handleVars, schedVars
  <2> QED
    BY <2>1, <2>2
<1>4. CASE LeaveOp
  <2>1. CASE ReturnGreen
    BY <1>1, <2>1 DEF ReturnGreen, HasThread
  <2>2. CASE ~ReturnGreen
    BY <1>4, <2>2
    DEF LeaveOp, YieldToNext, BlockingOffload, ReturnMain, JoinLive, JoinUnsettled, Wait,
        RaiseCancelled, handleVars, schedVars
  <2> QED
    BY <2>1, <2>2
<1>5. CASE Unwind
  <2>1. CASE FailGreen
    BY <1>1, <2>1 DEF FailGreen, HasThread
  <2>2. CASE ~FailGreen
    BY <1>5, <2>2 DEF Unwind, Caught, FailMain, handleVars, schedVars
  <2> QED
    BY <2>1, <2>2
<1>6. CASE Pick
  BY <1>6 DEF Pick, PickReady, PumpIo, SleepToNextTimer, PickNone, handleVars, schedVars
<1> QED
  BY <1>2, <1>3, <1>4, <1>5, <1>6 DEF Next

\* A coroutine that `go` has not created yet has no result.
LEMMA UnbornStep ==
  ASSUME NEW A, PlaceInvBut(A), [Next]_vars
  PROVE  Unborn'
<1> SUFFICES ASSUME NEW g \in Green, g >= next_id'
             PROVE  result'[g] = None
  BY DEF Unborn
<1>0. /\ next_id \in Int /\ result \in [Green -> Outcomes \cup {None}]
      /\ \A h \in Green : h >= next_id => result[h] = None
      /\ Green \subseteq Int
  BY BoundsAssumption DEF PlaceInvBut, TypeOK, SchedTypeOK, Unborn, Green
<1>1. CASE UNCHANGED <<result, next_id>>
  BY <1>0, <1>1
<1>2. CASE result' = result /\ next_id' = next_id + 1
  BY <1>0, <1>2
<1>3. CASE /\ next_id' = next_id /\ current_id \in Green /\ Live(current_id)
           /\ \E o : result' = [result EXCEPT ![current_id] = o]
  BY <1>0, <1>3 DEF Live, Green, Main
<1> QED
  BY <1>1, <1>2, <1>3, ResultMoves

\* While an error unwinds there is an error to record on the handle.
LEMMA RaiseHasErrorStep ==
  ASSUME NEW A, PlaceInvBut(A), [Next]_vars
  PROVE  RaiseHasError'
<1> SUFFICES ASSUME pc' = "raise" PROVE in_flight' # None
  BY DEF RaiseHasError
<1>0. \A e : Raise(e) # None /\ Raise(e).kind = "raise"
  BY DEF Raise, None
<1>1. None.kind # "raise"
  BY DEF None
<1>2. CASE UNCHANGED <<pc, in_flight>>
  BY <1>2 DEF PlaceInvBut, RaiseHasError
<1>3. ASSUME NEW e, RaiseErr(Raise(e)) PROVE in_flight' # None
  BY <1>0, <1>3 DEF RaiseErr
<1>4. ASSUME NEW o, Deliver(o) PROVE in_flight' # None
  BY <1>1, <1>4 DEF Deliver, RaiseErr, Continue
<1>5. CASE RaiseCancelled
  BY <1>3, <1>5 DEF RaiseCancelled
<1>6. CASE Poll \/ FireTimers \/ (\E j \in Jobs : Post(j)) \/ Tick \/ Terminated \/ UNCHANGED vars
  BY <1>2, <1>6 DEF Poll, FireTimers, Post, Tick, Terminated, vmVars, vars
<1>7. CASE StayOp
  BY <1>3, <1>4, <1>7
  DEF StayOp, Go, YieldAlone, BlockingInline, RaiseOp, JoinFinished, Cancel, JoinSettled,
      Resolve, Reject, Settle, Continue
<1>8. CASE LeaveOp
  <2>1. CASE ~RaiseCancelled
    BY <1>3, <1>8, <2>1
    DEF LeaveOp, YieldToNext, BlockingOffload, ReturnGreen, ReturnMain, JoinLive,
        JoinUnsettled, Wait, Park, SwitchAway
  <2> QED
    BY <1>5, <2>1
<1>9. CASE Unwind
  BY <1>2, <1>9 DEF Unwind, Caught, FailGreen, FailMain, SwitchAway, Continue
<1>10. CASE Pick
  <2>1. CASE PickReady
    BY <1>0, <1>1, <2>1 DEF PickReady, RaiseErr, Continue
  <2>2. CASE ~PickReady
    BY <1>2, <1>10, <2>2 DEF Pick, PumpIo, SleepToNextTimer, PickNone
  <2> QED
    BY <2>1, <2>2
<1> QED
  BY <1>6, <1>7, <1>8, <1>9, <1>10 DEF Next

\* In an actor of its own nobody is outside the scheduler.
LEMMA NobodyAside ==
  ASSUME PlaceInv
  PROVE  PlaceInvBut({})
BY DEF PlaceInv, PlaceInvBut, Placed, PlacedBut, Accounted, AccountedBut

\* What the lemmas above say there.
LEMMA RunningIsAlone ==
  ASSUME PlaceInv, HasThread
  PROVE  /\ current_id \in Coroutine /\ Live(current_id)
         /\ current_id \notin Queued \cup InJoin \cup InIo \cup InTimer \cup InDefer
         /\ Running = {current_id} /\ Placed
<1>1. PlaceInvBut({})
  BY NobodyAside
<1> QED
  BY <1>1, RunningAlone DEF PlaceInv, HasThread

LEMMA ResultSteps ==
  ASSUME PlaceInv, [Next]_vars
  PROVE  \/ UNCHANGED <<result, next_id>>
         \/ result' = result /\ next_id \in Green /\ next_id' = next_id + 1
         \/ /\ next_id' = next_id /\ current_id \in Green /\ Live(current_id)
            /\ \E o : result' = [result EXCEPT ![current_id] = o]
<1>1. PlaceInvBut({})
  BY NobodyAside
<1> QED
  BY <1>1, ResultMoves

\* An actor starts with its main program running and nothing else.
LEMMA PlaceInit == Init => PlaceInv
<1> SUFFICES ASSUME Init PROVE PlaceInv
  OBVIOUS
<1>1. TypeOK
  BY TypeInit
<1>2. Unborn /\ RaiseHasError
  BY DEF Unborn, RaiseHasError, Init
<1>3. /\ Running = {Main} /\ Queued = {} /\ InJoin = {} /\ InIo = {}
      /\ InTimer = {} /\ InDefer = {}
  BY DEF Init, SchedInit, Running, HasThread, Queued, InJoin, InIo, InTimer, InDefer, Threads
<1>4. \A c \in Coroutine : Live(c) <=> c = Main
  BY DEF Init, SchedInit, Live, Main, Coroutine
<1>5. Unique
  BY DEF Init, SchedInit, Unique, NoRepeat, UniqueIn
<1>6. Apart /\ Accounted
  BY <1>3, <1>4 DEF Apart, Accounted, Everyone
<1> QED
  BY <1>1, <1>2, <1>5, <1>6 DEF PlaceInv, Placed

\* Every step keeps the inductive invariant.
LEMMA PlaceStep == PlaceInv /\ [Next]_vars => PlaceInv'
<1> SUFFICES ASSUME PlaceInv, [Next]_vars PROVE PlaceInv'
  OBVIOUS
<1>1. PlaceInvBut({})
  BY NobodyAside
<1>2. TypeOK' /\ Unborn' /\ RaiseHasError'
  BY <1>1, TypeStep, UnbornStep, RaiseHasErrorStep DEF PlaceInv
<1>3. ASSUME pc' # "ended" PROVE Placed'
  <2>1. PlacedBut({})'
    BY <1>1, <1>3, PlacedStep
  <2> QED
    BY <2>1 DEF PlacedBut, AccountedBut, Placed, Accounted
<1> QED
  BY <1>2, <1>3 DEF PlaceInv

\* So the invariant holds in every reachable state.
LEMMA PlaceInvariant == Spec => []PlaceInv
<1> QED
  BY PlaceInit, PlaceStep, PTL DEF Spec

\* A live coroutine is in exactly one place and a finished one is nowhere,
\* however many coroutines there are: the scheduler neither loses a coroutine
\* nor runs it twice.
THEOREM OnePlaceAlways == Spec => []OnePlace
<1> QED
  BY PlaceInvariant, PlacedIsOnePlace, PTL

-----------------------------------------------------------------------------
(* Nobody waits for what has already happened. *)

JoinsLive   == \A p \in blocked : result[p.awaiting] = None
JoinsOpen   == \A p \in deferred_blocked : settled[p.deferred] = None
CallsReturn == \A p \in io_blocked : p.job_id \in running_jobs \/ mailbox[p.job_id] # None

\* A step that ends a coroutine wakes all who join it, and nobody begins to
\* join one that has ended.
LEMMA JoinsLiveStep == TypeOK /\ JoinsLive /\ [Next]_vars => JoinsLive'
<1> SUFFICES ASSUME TypeOK, JoinsLive, [Next]_vars PROVE JoinsLive'
  OBVIOUS
<1>1. ASSUME blocked' \subseteq blocked, result' = result PROVE JoinsLive'
  BY <1>1 DEF JoinsLive
<1>2. ASSUME NEW o, Finish(o) PROVE JoinsLive'
  <2>1. /\ blocked' = {b \in blocked : b.awaiting # current_id}
        /\ result' = [result EXCEPT ![current_id] = o]
    BY <1>2 DEF Finish, WakeJoiners
  <2>2. \A p \in blocked : p.awaiting \in Green
    BY DEF TypeOK, SchedTypeOK
  <2> QED
    BY <2>1, <2>2 DEF JoinsLive, TypeOK
<1>3. CASE StayOp
  <2>1. ASSUME NEW g \in Green, Cancel(g) PROVE JoinsLive'
    BY <1>1, <2>1 DEF Cancel, CancelUnpark, Without, parkVars
  <2>2. CASE ~(\E g \in Green : Cancel(g))
    BY <1>1, <1>3, <2>2
    DEF StayOp, Go, YieldAlone, BlockingInline, RaiseOp, JoinFinished, JoinSettled,
        Resolve, Reject, Settle, handleVars, schedVars, parkVars
  <2> QED
    BY <2>1, <2>2
<1>4. CASE LeaveOp
  <2>1. ASSUME NEW g \in Green, JoinLive(g) PROVE JoinsLive'
    <3>1. result[g] = None /\ result' = result
      BY <2>1 DEF JoinLive, RaiseCancelled, handleVars
    <3>2. blocked' = blocked \/ Block(g)
      BY <2>1 DEF JoinLive, RaiseCancelled, schedVars
    <3> QED
      BY <3>1, <3>2 DEF Block, JoinsLive
  <2>2. CASE ReturnGreen
    BY <1>2, <2>2 DEF ReturnGreen
  <2>3. CASE ~ReturnGreen /\ ~(\E g \in Green : JoinLive(g))
    BY <1>1, <1>4, <2>3
    DEF LeaveOp, YieldToNext, BlockingOffload, ReturnMain, JoinUnsettled, Wait,
        RaiseCancelled, handleVars, schedVars, parkVars
  <2> QED
    BY <2>1, <2>2, <2>3
<1>5. CASE Unwind
  BY <1>1, <1>2, <1>5 DEF Unwind, Caught, FailGreen, FailMain, handleVars, schedVars
<1>6. CASE Pick
  BY <1>1, <1>6
  DEF Pick, PickReady, PumpIo, SleepToNextTimer, PickNone, handleVars, schedVars, parkVars
<1>7. CASE Poll \/ FireTimers \/ (\E j \in Jobs : Post(j)) \/ Tick \/ Terminated \/ UNCHANGED vars
  BY <1>1, <1>7 DEF Poll, FireTimers, Post, Tick, Terminated, handleVars, schedVars, vmVars, vars
<1> QED
  BY <1>3, <1>4, <1>5, <1>6, <1>7 DEF Next

\* A step that settles a deferred wakes all who await it, and nobody begins to
\* await a settled one.
LEMMA JoinsOpenStep == TypeOK /\ JoinsOpen /\ [Next]_vars => JoinsOpen'
<1> SUFFICES ASSUME TypeOK, JoinsOpen, [Next]_vars PROVE JoinsOpen'
  OBVIOUS
<1>1. ASSUME deferred_blocked' \subseteq deferred_blocked, settled' = settled PROVE JoinsOpen'
  BY <1>1 DEF JoinsOpen
<1>2. ASSUME NEW d \in Deferreds, NEW o, Settle(d, o) PROVE JoinsOpen'
  <2>1. CASE settled[d] # None
    BY <1>1, <1>2, <2>1 DEF Settle
  <2>2. CASE settled[d] = None
    <3>1. /\ deferred_blocked' = {b \in deferred_blocked : b.deferred # d}
          /\ settled' = [settled EXCEPT ![d] = o]
      BY <1>2, <2>2 DEF Settle, WakeDeferred
    <3>2. \A p \in deferred_blocked : p.deferred \in Deferreds
      BY DEF TypeOK, SchedTypeOK
    <3> QED
      BY <3>1, <3>2 DEF JoinsOpen, TypeOK
  <2> QED
    BY <2>1, <2>2
<1>3. CASE StayOp
  <2>1. ASSUME NEW g \in Green, Cancel(g) PROVE JoinsOpen'
    BY <1>1, <2>1 DEF Cancel, CancelUnpark, Without, parkVars
  <2>2. CASE ~(\E g \in Green : Cancel(g))
    BY <1>1, <1>2, <1>3, <2>2
    DEF StayOp, Go, YieldAlone, BlockingInline, RaiseOp, JoinFinished, JoinSettled,
        Resolve, Reject, handleVars, schedVars, parkVars
  <2> QED
    BY <2>1, <2>2
<1>4. CASE LeaveOp
  <2>1. ASSUME NEW d \in Deferreds, JoinUnsettled(d) PROVE JoinsOpen'
    <3>1. settled[d] = None /\ settled' = settled
      BY <2>1 DEF JoinUnsettled, RaiseCancelled, handleVars
    <3>2. deferred_blocked' = deferred_blocked \/ ParkDeferred(d)
      BY <2>1 DEF JoinUnsettled, RaiseCancelled, schedVars
    <3> QED
      BY <3>1, <3>2 DEF ParkDeferred, JoinsOpen
  <2>2. CASE ~(\E d \in Deferreds : JoinUnsettled(d))
    BY <1>1, <1>4, <2>2
    DEF LeaveOp, YieldToNext, BlockingOffload, ReturnGreen, ReturnMain, JoinLive, Wait, Finish,
        RaiseCancelled, handleVars, schedVars, parkVars
  <2> QED
    BY <2>1, <2>2
<1>5. CASE Unwind
  BY <1>1, <1>5 DEF Unwind, Caught, FailGreen, FailMain, Finish, handleVars, schedVars
<1>6. CASE Pick
  BY <1>1, <1>6
  DEF Pick, PickReady, PumpIo, SleepToNextTimer, PickNone, handleVars, schedVars, parkVars
<1>7. CASE Poll \/ FireTimers \/ (\E j \in Jobs : Post(j)) \/ Tick \/ Terminated \/ UNCHANGED vars
  BY <1>1, <1>7 DEF Poll, FireTimers, Post, Tick, Terminated, handleVars, schedVars, vmVars, vars
<1> QED
  BY <1>3, <1>4, <1>5, <1>6, <1>7 DEF Next

\* A job with a waiting coroutine is running or in the mailbox: Post moves it
\* from one to the other, and a drain delivers all it takes.
LEMMA CallsReturnStep == TypeOK /\ CallsReturn /\ [Next]_vars => CallsReturn'
<1> SUFFICES ASSUME TypeOK, CallsReturn, [Next]_vars PROVE CallsReturn'
  OBVIOUS
<1>1. ASSUME io_blocked' \subseteq io_blocked, UNCHANGED <<running_jobs, mailbox>>
      PROVE  CallsReturn'
  BY <1>1 DEF CallsReturn
<1>2. ASSUME PollIoCompletions, running_jobs' = running_jobs PROVE CallsReturn'
  <2>1. io_blocked' = io_blocked \ {p \in io_blocked : mailbox[p.job_id] # None}
    BY <1>2 DEF PollIoCompletions, WakeIo
  <2> QED
    BY <1>2, <2>1 DEF CallsReturn
<1>3. CASE StayOp
  <2>1. ASSUME NEW g \in Green, Cancel(g) PROVE CallsReturn'
    BY <1>1, <2>1 DEF Cancel, CancelUnpark, Without, parkVars, jobVars
  <2>2. CASE ~(\E g \in Green : Cancel(g))
    BY <1>1, <1>3, <2>2
    DEF StayOp, Go, YieldAlone, BlockingInline, RaiseOp, JoinFinished, JoinSettled,
        Resolve, Reject, Settle, jobVars, schedVars, parkVars
  <2> QED
    BY <2>1, <2>2
<1>4. CASE LeaveOp
  <2>1. CASE BlockingOffload
    <3>1. CASE RaiseCancelled
      BY <1>1, <3>1 DEF RaiseCancelled, schedVars, jobVars
    <3>2. CASE ~RaiseCancelled
      <4>1. /\ running_jobs' = running_jobs \cup {next_job_id} /\ mailbox' = mailbox
            /\ io_blocked' = io_blocked \cup {[job_id |-> next_job_id, thread |-> current_id]}
        BY <2>1, <3>2 DEF BlockingOffload, ParkIo
      <4> QED
        BY <4>1 DEF CallsReturn
    <3> QED
      BY <3>1, <3>2
  <2>2. CASE ~BlockingOffload
    BY <1>1, <1>4, <2>2
    DEF LeaveOp, YieldToNext, ReturnGreen, ReturnMain, JoinLive, JoinUnsettled, Wait, Finish,
        RaiseCancelled, jobVars, schedVars, parkVars
  <2> QED
    BY <2>1, <2>2
<1>5. CASE Unwind
  BY <1>1, <1>5 DEF Unwind, Caught, FailGreen, FailMain, Finish, jobVars, schedVars
<1>6. CASE Pick
  BY <1>1, <1>2, <1>6
  DEF Pick, PickReady, PumpIo, SleepToNextTimer, PickNone, jobVars, schedVars, parkVars
<1>7. ASSUME NEW j \in Jobs, Post(j) PROVE CallsReturn'
  <2>1. PICK o \in JobOutcomes : mailbox' = [mailbox EXCEPT ![j] = o]
    BY <1>7 DEF Post
  <2>2. o # None
    BY DEF JobOutcomes, Value, Raise, None
  <2>3. running_jobs' = running_jobs \ {j} /\ io_blocked' = io_blocked
    BY <1>7 DEF Post, schedVars
  <2>4. \A p \in io_blocked : p.job_id \in Jobs
    BY DEF TypeOK, SchedTypeOK
  <2> QED
    BY <2>1, <2>2, <2>3, <2>4 DEF CallsReturn, TypeOK
<1>8. CASE Poll
  BY <1>1, <1>2, <1>8 DEF Poll
<1>9. CASE FireTimers \/ Tick \/ Terminated \/ UNCHANGED vars
  BY <1>1, <1>9 DEF FireTimers, Tick, Terminated, jobVars, schedVars, vmVars, vars
<1> QED
  BY <1>3, <1>4, <1>5, <1>6, <1>7, <1>8, <1>9 DEF Next

\* A coroutine in a join awaits a live coroutine or an open deferred, and one
\* in a blocking call a job that runs or a completion still in the mailbox.
THEOREM NobodyStrandedAlways == Spec => []NobodyStranded
<1>1. Init => JoinsLive /\ JoinsOpen /\ CallsReturn
  BY DEF Init, SchedInit, JoinsLive, JoinsOpen, CallsReturn
<1>2. /\ TypeOK /\ JoinsLive /\ JoinsOpen /\ CallsReturn /\ [Next]_vars
      => (JoinsLive /\ JoinsOpen /\ CallsReturn)'
  BY JoinsLiveStep, JoinsOpenStep, CallsReturnStep
<1>3. JoinsLive /\ JoinsOpen /\ CallsReturn => NobodyStranded
  BY DEF JoinsLive, JoinsOpen, CallsReturn, NobodyStranded
<1> QED
  BY <1>1, <1>2, <1>3, TypeCorrect, PTL DEF Spec

-----------------------------------------------------------------------------
(* Cancellation. *)

Sleeping == InJoin \cup InIo \cup InTimer \cup InDefer

NoCancelParked == \A g \in Green : cancel_requested[g] => g \notin Sleeping

\* A coroutine that parks has looked at its request first.
LEMMA ParkNoCancel ==
  ASSUME TypeOK, NoCancelParked, ~SelfCancelled, cancel_requested' = cancel_requested,
         Sleeping' \subseteq Sleeping \cup {current_id}
  PROVE  NoCancelParked'
BY DEF NoCancelParked, SelfCancelled, TypeOK, Main, Green

\* Every step keeps parked coroutines free of pending cancellations.
LEMMA NoCancelStep == PlaceInv /\ NoCancelParked /\ [Next]_vars => NoCancelParked'
<1> SUFFICES ASSUME PlaceInv, NoCancelParked, [Next]_vars PROVE NoCancelParked'
  OBVIOUS
<1>0. TypeOK /\ SchedTypeOK
  BY DEF PlaceInv, TypeOK
<1>1. ASSUME Sleeping' \subseteq Sleeping,
             \A g \in Green : cancel_requested'[g] => cancel_requested[g]
      PROVE  NoCancelParked'
  BY <1>1 DEF NoCancelParked
<1>2. ASSUME blocked' \subseteq blocked, io_blocked' \subseteq io_blocked,
             timer_blocked' \subseteq timer_blocked,
             deferred_blocked' \subseteq deferred_blocked
      PROVE  Sleeping' \subseteq Sleeping
  BY <1>2 DEF Sleeping, InJoin, InIo, InTimer, InDefer, Threads
<1>3. ASSUME RaiseCancelled PROVE NoCancelParked'
  <2>1. \A g \in Green : cancel_requested'[g] => cancel_requested[g]
    BY <1>0, <1>3 DEF RaiseCancelled, TypeOK
  <2> QED
    BY <1>1, <1>2, <1>3, <2>1 DEF RaiseCancelled, schedVars
<1>4. CASE StayOp
  <2>1. ASSUME NEW g \in Green, Cancel(g) PROVE NoCancelParked'
    <3>1. CASE result[g] # None
      BY <1>1, <1>2, <2>1, <3>1 DEF Cancel, parkVars
    <3>2. CASE result[g] = None
      <4>1. CancelUnpark(g) /\ g \in Coroutine
        BY <2>1, <3>2 DEF Cancel, Green, Coroutine
      <4>2. Placed
        BY <2>1 DEF Cancel, PlaceInv
      <4>3. Sleeping' = Sleeping \ {g}
        BY <1>0, <4>1, <4>2, CancelUnparkMoves DEF Placed, Sleeping
      <4>4. cancel_requested' = [cancel_requested EXCEPT ![g] = TRUE]
        BY <2>1, <3>2 DEF Cancel
      <4> QED
        BY <1>0, <4>3, <4>4 DEF NoCancelParked, TypeOK
    <3> QED
      BY <3>1, <3>2
  <2>2. ASSUME NEW d \in Deferreds, NEW o, Settle(d, o) PROVE NoCancelParked'
    BY <1>1, <1>2, <2>2 DEF Settle, WakeDeferred
  <2>3. CASE ~(\E g \in Green : Cancel(g)) /\ ~(\E d \in Deferreds : Resolve(d) \/ Reject(d))
    BY <1>1, <1>2, <1>4, <2>3
    DEF StayOp, Go, YieldAlone, BlockingInline, RaiseOp, JoinFinished, JoinSettled,
        handleVars, schedVars, parkVars
  <2> QED
    BY <2>1, <2>2, <2>3 DEF Resolve, Reject
<1>5. CASE LeaveOp
  <2>1. ASSUME NEW g \in Green, JoinLive(g) PROVE NoCancelParked'
    <3>1. CASE RaiseErr(Raise("deadlock")) /\ UNCHANGED <<schedVars, handleVars>>
      BY <1>1, <1>2, <3>1 DEF schedVars, handleVars
    <3>2. CASE /\ ~SelfCancelled /\ Block(g)
               /\ UNCHANGED <<io_blocked, timer_blocked, deferred_blocked, handleVars>>
      <4>0. [awaiting |-> g, thread |-> current_id].thread = current_id
        OBVIOUS
      <4>1. Threads(blocked') = Threads(blocked) \cup {current_id}
        BY <3>2, <4>0, ParkMoves DEF Block
      <4>2. Sleeping' \subseteq Sleeping \cup {current_id}
        BY <3>2, <4>1 DEF Sleeping, InJoin, InIo, InTimer, InDefer
      <4> QED
        BY <1>0, <3>2, <4>2, ParkNoCancel DEF handleVars
    <3> QED
      BY <1>3, <2>1, <3>1, <3>2 DEF JoinLive
  <2>2. ASSUME NEW d \in Deferreds, JoinUnsettled(d) PROVE NoCancelParked'
    <3>1. CASE RaiseErr(Raise("deadlock")) /\ UNCHANGED <<schedVars, handleVars>>
      BY <1>1, <1>2, <3>1 DEF schedVars, handleVars
    <3>2. CASE /\ ~SelfCancelled /\ ParkDeferred(d)
               /\ UNCHANGED <<blocked, io_blocked, timer_blocked, handleVars>>
      <4>0. [deferred |-> d, thread |-> current_id].thread = current_id
        OBVIOUS
      <4>1. Threads(deferred_blocked') = Threads(deferred_blocked) \cup {current_id}
        BY <3>2, <4>0, ParkMoves DEF ParkDeferred
      <4>2. Sleeping' \subseteq Sleeping \cup {current_id}
        BY <3>2, <4>1 DEF Sleeping, InJoin, InIo, InTimer, InDefer
      <4> QED
        BY <1>0, <3>2, <4>2, ParkNoCancel DEF handleVars
    <3> QED
      BY <1>3, <2>2, <3>1, <3>2 DEF JoinUnsettled
  <2>3. ASSUME NEW s \in Delays, Wait(s) PROVE NoCancelParked'
    <3>1. CASE RaiseErr(Raise("raised")) /\ UNCHANGED <<schedVars, handleVars>>
      BY <1>1, <1>2, <3>1 DEF schedVars, handleVars
    <3>2. CASE /\ ~SelfCancelled /\ ParkTimer(now + s)
               /\ UNCHANGED <<blocked, io_blocked, deferred_blocked, handleVars>>
      <4>0. [wake_time |-> now + s, thread |-> current_id].thread = current_id
        OBVIOUS
      <4>1. Threads(timer_blocked') = Threads(timer_blocked) \cup {current_id}
        BY <3>2, <4>0, ParkMoves DEF ParkTimer
      <4>2. Sleeping' \subseteq Sleeping \cup {current_id}
        BY <3>2, <4>1 DEF Sleeping, InJoin, InIo, InTimer, InDefer
      <4> QED
        BY <1>0, <3>2, <4>2, ParkNoCancel DEF handleVars
    <3> QED
      BY <1>3, <2>3, <3>1, <3>2 DEF Wait
  <2>4. CASE BlockingOffload
    <3>1. CASE /\ ~SelfCancelled /\ ParkIo(next_job_id)
               /\ UNCHANGED <<blocked, timer_blocked, deferred_blocked, handleVars>>
      <4>0. [job_id |-> next_job_id, thread |-> current_id].thread = current_id
        OBVIOUS
      <4>1. Threads(io_blocked') = Threads(io_blocked) \cup {current_id}
        BY <3>1, <4>0, ParkMoves DEF ParkIo
      <4>2. Sleeping' \subseteq Sleeping \cup {current_id}
        BY <3>1, <4>1 DEF Sleeping, InJoin, InIo, InTimer, InDefer
      <4> QED
        BY <1>0, <3>1, <4>2, ParkNoCancel DEF handleVars
    <3> QED
      BY <1>3, <2>4, <3>1 DEF BlockingOffload
  <2>5. CASE YieldToNext \/ ReturnMain
    BY <1>1, <1>2, <2>5 DEF YieldToNext, ReturnMain, handleVars, schedVars, parkVars
  <2>6. CASE ReturnGreen
    BY <1>1, <1>2, <2>6 DEF ReturnGreen, Finish, WakeJoiners
  <2> QED
    BY <1>5, <2>1, <2>2, <2>3, <2>4, <2>5, <2>6 DEF LeaveOp
<1>6. CASE Unwind
  BY <1>1, <1>2, <1>6
  DEF Unwind, Caught, FailGreen, FailMain, Finish, WakeJoiners, handleVars, schedVars
<1>7. CASE Pick
  <2>1. CASE PickReady
    <3>1. \A g \in Green : cancel_requested'[g] => cancel_requested[g]
      BY <1>0, <2>1 DEF PickReady, TypeOK
    <3> QED
      BY <1>1, <1>2, <2>1, <3>1 DEF PickReady, parkVars
  <2>2. CASE ~PickReady
    BY <1>1, <1>2, <1>7, <2>2
    DEF Pick, PumpIo, PollIoCompletions, WakeIo, SleepToNextTimer, WakeTimers, PickNone,
        handleVars, schedVars
  <2> QED
    BY <2>1, <2>2
<1>8. CASE Poll
  BY <1>1, <1>2, <1>8 DEF Poll, PollIoCompletions, WakeIo, handleVars
<1>9. CASE FireTimers
  BY <1>1, <1>2, <1>9 DEF FireTimers, WakeTimers, handleVars
<1>10. CASE (\E j \in Jobs : Post(j)) \/ Tick \/ Terminated \/ UNCHANGED vars
  BY <1>1, <1>2, <1>10 DEF Post, Tick, Terminated, handleVars, schedVars, vmVars, vars
<1> QED
  BY <1>4, <1>5, <1>6, <1>7, <1>8, <1>9, <1>10 DEF Next

\* No coroutine sleeps on a pending cancellation: it has looked before it
\* parked, and go_cancel tears out one that is already parked, wherever it is.
THEOREM NoCancelSleptThroughAlways == Spec => []NoCancelSleptThrough
<1>1. Init => NoCancelParked
  BY DEF Init, NoCancelParked
<1>2. NoCancelParked => NoCancelSleptThrough
  BY DEF NoCancelParked, NoCancelSleptThrough, Sleeping, InJoin, InIo, InTimer, InDefer
<1> QED
  BY <1>1, <1>2, NoCancelStep, PlaceInvariant, PTL DEF Spec

-----------------------------------------------------------------------------
(* Outcomes. *)

\* Only Settle writes a deferred's result, and only while it has none.
LEMMA SettledSteps ==
  ASSUME PlaceInv, [Next]_vars
  PROVE  \/ settled' = settled
         \/ \E d \in Deferreds, o \in Outcomes :
              settled[d] = None /\ settled' = [settled EXCEPT ![d] = o]
<1>1. ASSUME NEW d \in Deferreds, NEW o \in Outcomes, Settle(d, o)
      PROVE  \/ settled' = settled
             \/ settled[d] = None /\ settled' = [settled EXCEPT ![d] = o]
  BY <1>1 DEF Settle
<1>2. Value("settled") \in Outcomes /\ Raise("raised") \in Outcomes
  BY OutcomeFacts DEF Payloads, Errors
<1>3. CASE StayOp
  BY <1>1, <1>2, <1>3
  DEF StayOp, Go, YieldAlone, BlockingInline, RaiseOp, JoinFinished, Cancel, JoinSettled,
      Resolve, Reject, handleVars
<1>4. CASE ~StayOp
  BY <1>4
  DEF Next, Poll, FireTimers, LeaveOp, YieldToNext, BlockingOffload, ReturnGreen, ReturnMain,
      JoinLive, JoinUnsettled, Wait, RaiseCancelled, Finish, Unwind, Caught, FailGreen,
      FailMain, Pick, PickReady, PumpIo, SleepToNextTimer, PickNone, Post, Tick, Terminated,
      handleVars, vmVars, vars
<1> QED
  BY <1>3, <1>4

\* A step leaves every recorded outcome as it is.
LEMMA OutcomesKept ==
  ASSUME PlaceInv, [Next]_vars
  PROVE  /\ \A g \in Green : result[g] # None => result'[g] = result[g]
         /\ \A d \in Deferreds : settled[d] # None => settled'[d] = settled[d]
<1>1. TypeOK
  BY DEF PlaceInv
<1>2. \A g \in Green : result[g] # None => result'[g] = result[g]
  <2>1. CASE result' = result
    BY <2>1
  <2>2. CASE /\ current_id \in Green /\ Live(current_id)
             /\ \E o : result' = [result EXCEPT ![current_id] = o]
    BY <1>1, <2>2 DEF Live, TypeOK, Green, Main
  <2> QED
    BY <2>1, <2>2, ResultSteps
<1>3. \A d \in Deferreds : settled[d] # None => settled'[d] = settled[d]
  BY <1>1, SettledSteps DEF TypeOK
<1> QED
  BY <1>2, <1>3

\* How a coroutine ended and what a deferred settled with are final: only the
\* end of a live coroutine writes a result, and it ends once.
THEOREM OutcomesAreFinal == Spec => OutcomesAreWrittenOnce
<1>1. PlaceInv /\ [Next]_vars =>
        [/\ \A g \in Green : result[g] # None => result'[g] = result[g]
         /\ \A d \in Deferreds : settled[d] # None => settled'[d] = settled[d]]_vars
  BY OutcomesKept
<1> QED
  BY <1>1, PlaceInvariant, PTL DEF Spec, OutcomesAreWrittenOnce

-----------------------------------------------------------------------------
(* The order of the run-queue. *)

\* The ready coroutines that run before c.
Ahead(c) == {queue[i] : i \in {k \in 1..Len(queue) : \A l \in 1..k : queue[l] # c}}

\* First come, first served, the safety half of ReadyRuns: a ready coroutine
\* leaves the run-queue only to run, once nobody is ahead of it, and nobody gets
\* ahead of it: not who is woken, cancelled, created or yields, in any order in
\* which one step wakes several.  So it is passed over by no more coroutines
\* than were ready before it.
InOrder ==
  \A c \in Queued :
    \/ c \in Queued' /\ Ahead(c)' \subseteq Ahead(c)
    \/ Ahead(c) = {} /\ HasThread' /\ current_id' = c

NobodyIsOvertaken == [][InOrder]_vars

\* The queue changes at its two ends only.
Grows     == \E w \in Seq(Coroutine) : queue' = queue \o w
TakesHead == queue # <<>> /\ queue' = Tail(queue) /\ HasThread' /\ current_id' = Head(queue)

\* Three ways to append: nobody, one coroutine, a set of them in some order.
LEMMA SameGrows == SchedTypeOK /\ queue' = queue => Grows
<1> SUFFICES ASSUME SchedTypeOK, queue' = queue PROVE Grows
  OBVIOUS
<1>1. <<>> \in Seq(Coroutine) /\ queue \in Seq(Coroutine)
  BY DEF SchedTypeOK
<1>2. queue \o <<>> = queue
  BY <1>1
<1> QED
  BY <1>1, <1>2 DEF Grows

LEMMA AppendGrows ==
  ASSUME SchedTypeOK, NEW c \in Coroutine, queue' = Append(queue, c)
  PROVE  Grows
<1>1. <<c>> \in Seq(Coroutine) /\ queue \in Seq(Coroutine)
  BY DEF SchedTypeOK
<1>2. queue \o <<c>> = Append(queue, c)
  BY <1>1
<1> QED
  BY <1>1, <1>2 DEF Grows

LEMMA WakeGrows ==
  ASSUME SchedTypeOK, NEW S, S \subseteq Coroutine,
         \E w \in Orders(S) : queue' = queue \o w
  PROVE  Grows
BY OrdersAreSequences DEF Grows

\* Every step appends, or hands the thread to the head of the queue.
LEMMA QueueSteps ==
  ASSUME SchedTypeOK, mailbox \in [Jobs -> Outcomes \cup {None}], Next
  PROVE  Grows \/ TakesHead
<1>0. current_id \in Coroutine
  BY DEF SchedTypeOK
<1>1. CASE queue' = queue
  BY <1>0, <1>1, SameGrows
<1>2. CASE WakeIo(mailbox)
  <2>1. Threads({p \in io_blocked : mailbox[p.job_id] # None}) \subseteq Coroutine
    BY <1>0 DEF Threads, SchedTypeOK
  <2> QED
    BY <1>0, <1>2, <2>1, WakeGrows DEF WakeIo, MakeReady
<1>3. CASE WakeTimers(now)
  <2>1. Threads(Due(now)) \subseteq Coroutine
    BY <1>0 DEF Due, Threads, SchedTypeOK
  <2> QED
    BY <1>0, <1>3, <2>1, WakeGrows DEF WakeTimers, MakeReady
<1>4. ASSUME NEW d \in Deferreds, NEW o, WakeDeferred(d, o) PROVE Grows
  <2>1. Awaiters(d) \subseteq Coroutine
    BY <1>0 DEF Awaiters, Threads, SchedTypeOK
  <2> QED
    BY <1>0, <1>4, <2>1, WakeGrows DEF WakeDeferred, MakeReady
<1>5. ASSUME NEW o, WakeJoiners(current_id, o) PROVE Grows
  <2>1. Joiners(current_id) \subseteq Coroutine
    BY <1>0 DEF Joiners, Threads, SchedTypeOK
  <2> QED
    BY <1>0, <1>5, <2>1, WakeGrows DEF WakeJoiners, MakeReady
<1>6. ASSUME NEW g \in Green, CancelUnpark(g) PROVE Grows
  BY <1>0, <1>6, SameGrows, AppendGrows DEF CancelUnpark, Coroutine, Green
<1>7. CASE StayOp
  <2>1. CASE Go
    BY <1>0, <2>1, AppendGrows DEF Go, EnqueueFresh, Coroutine, Green
  <2>2. ASSUME NEW g \in Green, Cancel(g) PROVE Grows
    BY <1>0, <1>6, <2>2, SameGrows DEF Cancel
  <2>3. ASSUME NEW d \in Deferreds, Resolve(d) \/ Reject(d) PROVE Grows
    BY <1>0, <1>4, <2>3, SameGrows DEF Resolve, Reject, Settle
  <2> QED
    BY <1>1, <1>7, <2>1, <2>2, <2>3
    DEF StayOp, YieldAlone, BlockingInline, RaiseOp, JoinFinished, JoinSettled, schedVars
<1>8. CASE LeaveOp
  <2>1. CASE YieldToNext
    BY <1>0, <2>1, AppendGrows DEF YieldToNext, EnqueueCurrent
  <2>2. CASE ReturnGreen
    BY <1>5, <2>2 DEF ReturnGreen, Finish
  <2> QED
    BY <1>1, <1>8, <2>1, <2>2
    DEF LeaveOp, BlockingOffload, ReturnMain, JoinLive, JoinUnsettled, Wait, RaiseCancelled,
        schedVars
<1>9. CASE Unwind
  BY <1>1, <1>5, <1>9 DEF Unwind, Caught, FailGreen, FailMain, Finish, schedVars
<1>10. CASE Pick
  <2>1. CASE PickReady
    BY <2>1 DEF PickReady, TakesHead, HasThread, RaiseErr, Continue
  <2> QED
    BY <1>1, <1>2, <1>3, <1>10, <2>1
    DEF Pick, PumpIo, PollIoCompletions, SleepToNextTimer, PickNone, schedVars
<1>11. CASE Poll \/ FireTimers
  BY <1>1, <1>2, <1>3, <1>11 DEF Poll, PollIoCompletions, FireTimers
<1>12. CASE Tick \/ Terminated \/ \E j \in Jobs : Post(j)
  BY <1>1, <1>12 DEF Tick, Terminated, Post, schedVars, vars
<1> QED
  BY <1>7, <1>8, <1>9, <1>10, <1>11, <1>12 DEF Next

\* What is appended is behind everybody who is there.
LEMMA GrowsKeepsOrder ==
  ASSUME SchedTypeOK, Grows, NEW c \in Queued
  PROVE  c \in Queued' /\ Ahead(c)' \subseteq Ahead(c)
<1>1. PICK w \in Seq(Coroutine) : queue' = queue \o w
  BY DEF Grows
<1>2. /\ queue \in Seq(Coroutine) /\ Len(queue) \in Nat /\ Len(w) \in Nat
      /\ Len(queue') = Len(queue) + Len(w)
      /\ \A i \in 1..Len(queue) : queue'[i] = queue[i]
  BY <1>1 DEF SchedTypeOK
<1>3. PICK p \in 1..Len(queue) : queue[p] = c
  BY DEF Queued
<1>4. c \in Queued'
  BY <1>2, <1>3 DEF Queued
<1>5. ASSUME NEW i \in 1..Len(queue'), \A l \in 1..i : queue'[l] # c
      PROVE  queue'[i] \in Ahead(c)
  <2>1. i < p
    BY <1>2, <1>3, <1>5
  <2>2. i \in 1..Len(queue) /\ \A l \in 1..i : queue[l] # c
    BY <1>2, <1>5, <2>1
  <2> QED
    BY <1>2, <2>2 DEF Ahead
<1>6. Ahead(c)' \subseteq Ahead(c)
  BY <1>5 DEF Ahead
<1> QED
  BY <1>4, <1>6

\* Whoever is taken off the head was ahead of all the others.
LEMMA HeadKeepsOrder ==
  ASSUME SchedTypeOK, TakesHead, NEW c \in Queued
  PROVE  \/ c \in Queued' /\ Ahead(c)' \subseteq Ahead(c)
         \/ Ahead(c) = {} /\ HasThread' /\ current_id' = c
<1>1. /\ queue \in Seq(Coroutine) /\ Len(queue) \in Nat /\ Len(queue) >= 1
      /\ Len(queue') = Len(queue) - 1
      /\ Head(queue) = queue[1]
      /\ \A i \in 1..Len(queue') : queue'[i] = queue[i + 1]
  BY DEF SchedTypeOK, TakesHead
<1>2. CASE Head(queue) = c
  <2>1. \A k \in 1..Len(queue) : 1 \in 1..k /\ queue[1] = c
    BY <1>1, <1>2
  <2>2. Ahead(c) = {}
    BY <2>1 DEF Ahead
  <2> QED
    BY <1>2, <2>2 DEF TakesHead
<1>3. CASE Head(queue) # c
  <2>1. PICK p \in 1..Len(queue) : queue[p] = c
    BY DEF Queued
  <2>2. p # 1 /\ p - 1 \in 1..Len(queue') /\ queue'[p - 1] = c
    BY <1>1, <1>3, <2>1
  <2>3. c \in Queued'
    BY <2>2 DEF Queued
  <2>4. ASSUME NEW i \in 1..Len(queue'), \A l \in 1..i : queue'[l] # c
        PROVE  queue'[i] \in Ahead(c)
    <3>1. i + 1 \in 1..Len(queue) /\ queue'[i] = queue[i + 1]
      BY <1>1
    <3>2. ASSUME NEW l \in 1..(i + 1) PROVE queue[l] # c
      <4>1. CASE l = 1
        BY <1>1, <1>3, <4>1
      <4>2. CASE l # 1
        <5>1. l - 1 \in 1..i /\ l - 1 \in 1..Len(queue') /\ (l - 1) + 1 = l
          BY <1>1, <4>2
        <5> QED
          BY <1>1, <2>4, <5>1
      <4> QED
        BY <4>1, <4>2
    <3> QED
      BY <3>1, <3>2 DEF Ahead
  <2>5. Ahead(c)' \subseteq Ahead(c)
    BY <2>4 DEF Ahead
  <2> QED
    BY <2>3, <2>5
<1> QED
  BY <1>2, <1>3

LEMMA StepInOrder == SchedTypeOK /\ (Grows \/ TakesHead) => InOrder
BY GrowsKeepsOrder, HeadKeepsOrder DEF InOrder

\* First come, first served: whoever wakes, is created or yields goes behind all
\* who are ready, and only the first of them is given the thread.
THEOREM NobodyIsOvertakenEver == Spec => NobodyIsOvertaken
<1>1. TypeOK /\ [Next]_vars => [InOrder]_vars
  BY QueueSteps, StepInOrder DEF TypeOK
<1> QED
  BY <1>1, TypeCorrect, PTL DEF Spec, NobodyIsOvertaken

=============================================================================
