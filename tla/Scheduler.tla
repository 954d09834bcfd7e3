------------------------------ MODULE Scheduler ------------------------------
(***************************************************************************)
(* The cooperative scheduler of one actor (src/src/vm/scheduler.rs).       *)
(*                                                                         *)
(* The coroutine that runs lives in the Vm's own fields; every other live  *)
(* coroutine is stored in exactly one of the five collections below.  This *)
(* module holds those collections and the scheduler's operations on them;  *)
(* GreenThreads says which handler of the Vm calls which of them.          *)
(*                                                                         *)
(* A coroutine is its id: frames, value stack and upvalues are abstracted. *)
(* The four parking collections are Vecs the code edits with swap_remove,  *)
(* so the order in which one call wakes several coroutines depends on      *)
(* earlier removals.  They are sets here and a wake may append the         *)
(* coroutines it frees in any order (Orders).                              *)
(***************************************************************************)
EXTENDS Integers, Sequences, FiniteSets

CONSTANTS
  MaxGreen,    \* bound: how many times `go` may run
  MaxJobs,     \* bound: how many blocking calls may be offloaded
  MaxTime,     \* bound: the clock stops here
  Deferreds    \* the Deferred objects of the program

ASSUME BoundsAssumption ==
  /\ MaxGreen \in Nat
  /\ MaxJobs \in Nat
  /\ MaxTime \in Nat

Main      == 0                  \* coroutine #0, the actor's main program
Coroutine == 0..MaxGreen
Green     == 1..MaxGreen        \* the coroutines that `go` mints
Jobs      == 0..(MaxJobs - 1)
Time      == 0..MaxTime

\* ResumeOutcome: what is delivered on resume, or recorded on a handle.
Value(v) == [kind |-> "value", payload |-> v]
Raise(e) == [kind |-> "raise", payload |-> e]
None     == [kind |-> "none", payload |-> "none"]

Payloads == {"null", "done", "settled", "io", "cancelled"}
Errors   == {"raised", "cancelled", "deadlock", "host_yield"}
Outcomes == {Value(v) : v \in Payloads} \cup {Raise(e) : e \in Errors}

VARIABLES
  queue,             \* FIFO run-queue of ready coroutines
  blocked,           \* parked in `join` on a green thread
  io_blocked,        \* parked on an offloaded blocking call
  timer_blocked,     \* parked in `wait`
  deferred_blocked,  \* parked in `join` on a deferred
  next_id,           \* the id the next `go` gets
  current_id,        \* the running coroutine
  parked_resume      \* GreenThread::parked_resume of every parked coroutine

schedVars == <<queue, blocked, io_blocked, timer_blocked, deferred_blocked,
               next_id, current_id, parked_resume>>
parkVars  == <<blocked, io_blocked, timer_blocked, deferred_blocked>>

SchedInit ==
  /\ queue = <<>>
  /\ blocked = {}
  /\ io_blocked = {}
  /\ timer_blocked = {}
  /\ deferred_blocked = {}
  /\ next_id = 1
  /\ current_id = Main
  /\ parked_resume = [c \in Coroutine |-> None]

SchedTypeOK ==
  /\ queue \in Seq(Coroutine)
  /\ blocked \subseteq [awaiting : Green, thread : Coroutine]
  /\ io_blocked \subseteq [job_id : Jobs, thread : Coroutine]
  /\ timer_blocked \subseteq [wake_time : Time, thread : Coroutine]
  /\ deferred_blocked \subseteq [deferred : Deferreds, thread : Coroutine]
  /\ next_id \in 1..(MaxGreen + 1)
  /\ current_id \in Coroutine
  /\ parked_resume \in [Coroutine -> Outcomes \cup {None}]

-----------------------------------------------------------------------------
Threads(parked) == {p.thread : p \in parked}
\* Wrong: the parked coroutine is made ready but left in its collection.
WithoutNothing(parked, c) == parked

Without(parked, c) == {p \in parked : p.thread # c}
Queued == {queue[i] : i \in 1..Len(queue)}

\* Every order in which the members of a finite set can be appended.
Orders(S) ==
  {w \in [1..Cardinality(S) -> S] :
     /\ \A x \in S : \E i \in 1..Cardinality(S) : w[i] = x
     /\ \A i, j \in 1..Cardinality(S) : w[i] = w[j] => i = j}

\* Move the coroutines of `woken` to the back of the run-queue, each with
\* its outcome.
MakeReady(woken, outcomeOf(_)) ==
  /\ \E w \in Orders(woken) : queue' = queue \o w
  /\ parked_resume' =
       [c \in Coroutine |-> IF c \in woken THEN outcomeOf(c)
                                           ELSE parked_resume[c]]

-----------------------------------------------------------------------------
\* A `go` body: appended with nothing to deliver, under a fresh id.
EnqueueFresh ==
  /\ next_id \in Green
  /\ queue' = Append(queue, next_id)
  /\ next_id' = next_id + 1
  /\ UNCHANGED parked_resume

\* Wrong: a coroutine that yields goes to the front.
EnqueueCurrentFirst ==
  /\ queue' = <<current_id>> \o queue
  /\ parked_resume' = [parked_resume EXCEPT ![current_id] = Value("null")]

\* The running coroutine yields: back of the queue, resuming with null.
EnqueueCurrent ==
  /\ queue' = Append(queue, current_id)
  /\ parked_resume' = [parked_resume EXCEPT ![current_id] = Value("null")]

Block(g)         == blocked' = blocked \cup {[awaiting |-> g, thread |-> current_id]}
ParkIo(j)        == io_blocked' = io_blocked \cup {[job_id |-> j, thread |-> current_id]}
ParkTimer(t)     == timer_blocked' = timer_blocked \cup {[wake_time |-> t, thread |-> current_id]}
ParkDeferred(d)  == deferred_blocked' =
                      deferred_blocked \cup {[deferred |-> d, thread |-> current_id]}

\* Wrong: a timer fires one tick before its time.
DueEarly(now) == {t \in timer_blocked : t.wake_time <= now + 1}

Joiners(g)  == Threads({b \in blocked : b.awaiting = g})
Awaiters(d) == Threads({b \in deferred_blocked : b.deferred = d})
Due(now)    == {t \in timer_blocked : t.wake_time <= now}

\* Wrong: only one of several joiners is woken.
WakeOneJoiner(finished, outcome) ==
  LET woken == IF Joiners(finished) = {} THEN {} ELSE {CHOOSE c \in Joiners(finished) : TRUE}
  IN  /\ MakeReady(woken, LAMBDA c : outcome)
      /\ blocked' = {b \in blocked : b.thread \notin woken}

WakeJoiners(finished, outcome) ==
  /\ MakeReady(Joiners(finished), LAMBDA c : outcome)
  /\ blocked' = {b \in blocked : b.awaiting # finished}

WakeDeferred(d, outcome) ==
  /\ MakeReady(Awaiters(d), LAMBDA c : outcome)
  /\ deferred_blocked' = {b \in deferred_blocked : b.deferred # d}

WakeTimers(now) ==
  /\ MakeReady(Threads(Due(now)), LAMBDA c : Value("null"))
  /\ timer_blocked' = timer_blocked \ Due(now)

\* Wrong: a completion goes to whoever is parked on a blocking call.
WakeIoUnmatched(mailbox) ==
  LET arrived == {j \in Jobs : mailbox[j] # None}
      woken   == IF arrived = {} THEN {} ELSE io_blocked
  IN  /\ MakeReady(Threads(woken), LAMBDA c : mailbox[CHOOSE j \in arrived : TRUE])
      /\ io_blocked' = io_blocked \ woken

\* Deliver every completion of `mailbox` (job |-> outcome or None) to the
\* coroutine parked on it; a completion without a waiter is dropped.
WakeIo(mailbox) ==
  LET arrived == {p \in io_blocked : mailbox[p.job_id] # None}
      outcomeOf(c) == mailbox[(CHOOSE p \in arrived : p.thread = c).job_id]
  IN  /\ MakeReady(Threads(arrived), outcomeOf)
      /\ io_blocked' = io_blocked \ arrived

\* cancel_unpark: look through the four collections in the code's order and
\* make the coroutine ready from the first that holds it.
CancelUnpark(g) ==
  LET inJoin  == g \in Threads(blocked)
      inIo    == g \in Threads(io_blocked)
      inTimer == g \in Threads(timer_blocked)
      inDefer == g \in Threads(deferred_blocked)
  IN  /\ blocked' = Without(blocked, g)
      /\ io_blocked' = IF inJoin THEN io_blocked ELSE Without(io_blocked, g)
      /\ timer_blocked' = IF inJoin \/ inIo THEN timer_blocked
                          ELSE Without(timer_blocked, g)
      /\ deferred_blocked' = IF inJoin \/ inIo \/ inTimer THEN deferred_blocked
                             ELSE Without(deferred_blocked, g)
      /\ IF inJoin \/ inIo \/ inTimer \/ inDefer
           THEN /\ queue' = Append(queue, g)
                /\ parked_resume' = [parked_resume EXCEPT ![g] = Value("null")]
           ELSE UNCHANGED <<queue, parked_resume>>

-----------------------------------------------------------------------------
NextTimerWake == CHOOSE t \in {p.wake_time : p \in timer_blocked} :
                   \A p \in timer_blocked : t <= p.wake_time

IsIdle == /\ queue = <<>>
          /\ blocked = {} /\ io_blocked = {}
          /\ timer_blocked = {} /\ deferred_blocked = {}

\* Wrong: counts awaiters of a deferred, which only running code can wake.
AnyoneLeft == ~IsIdle

CanMakeProgress == queue # <<>> \/ io_blocked # {} \/ timer_blocked # {}

=============================================================================
