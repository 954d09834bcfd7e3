----------------------------- MODULE GreenThreads -----------------------------
(***************************************************************************)
(* One actor of tigr: the Vm of src/src/vm/vm.rs running the coroutines of *)
(* a standalone program (`tigr run`) over the Scheduler.                   *)
(*                                                                         *)
(* The actor thread goes round a cycle, its place in it is pc:             *)
(*   "poll", "timers"  the safepoint at the head of the dispatch loop      *)
(*   "exec"            the running coroutine executes one operation        *)
(*   "raise"           an error is unwinding the running coroutine         *)
(*   "pick"            the running coroutine has parked or finished and    *)
(*                     the next one is being picked                        *)
(*   "ended"           `drive` has returned                                *)
(* Worker threads (Post) and the clock (Tick) move independently.          *)
(*                                                                         *)
(* The operations of the coroutines are chosen freely, so every program    *)
(* over go / yield / join / wait / blocking calls / go_cancel / deferreds  *)
(* / raise / try is a behaviour.  Coroutines share one heap, so any        *)
(* coroutine may hold any handle, its own included.  Code inside a         *)
(* generator body, which may not park, is not modelled here.               *)
(***************************************************************************)
EXTENDS Scheduler

CONSTANTS
  MaxStarted,        \* bound: coroutines and offloaded calls together
  Delays,            \* the arguments of `wait`
  BlockingTimersOk   \* Vm::blocking_timers_ok: TRUE under `run` (a program's
                     \* own run loop), FALSE under `run_closure` (an actor)

ASSUME StartedAssumption == MaxStarted \in Nat
ASSUME DelaysAssumption == Delays \subseteq Nat /\ BlockingTimersOk \in BOOLEAN

VARIABLES
  pc,
  in_flight,         \* the error unwinding (pc = "raise"); what `drive` returns
                     \* if nothing can be picked (pc = "pick") or did (pc = "ended")
  result,            \* GreenHandle::result (None: still live)
  cancel_requested,  \* GreenHandle::cancel_requested
  settled,           \* Deferred::result
  site,              \* what the coroutine's code waits for where it is parked
  next_job_id,
  running_jobs,      \* offloaded jobs a worker has not finished
  mailbox,           \* CompletionMailbox: posted, not yet drained outcomes
  now                \* Vm::now_seconds

handleVars == <<result, cancel_requested, settled>>
jobVars    == <<next_job_id, running_jobs, mailbox>>
vmVars     == <<pc, in_flight, handleVars, site, jobVars, now>>
vars       == <<schedVars, vmVars>>

\* What a coroutine can be waiting for.
OnGreen(g)    == <<"green", g>>
OnJob(j)      == <<"job", j>>
OnDeferred(d) == <<"deferred", d>>
Nothing       == <<"nothing">>
Sites == {Nothing} \cup {OnGreen(g) : g \in Green} \cup {OnJob(j) : j \in Jobs}
                   \cup {OnDeferred(d) : d \in Deferreds}

HostYield == Raise("host_yield")

Init ==
  /\ SchedInit
  /\ pc = "poll"
  /\ in_flight = None
  /\ result = [g \in Green |-> None]
  /\ cancel_requested = [g \in Green |-> FALSE]
  /\ settled = [d \in Deferreds |-> None]
  /\ site = [c \in Coroutine |-> Nothing]
  /\ next_job_id = 0
  /\ running_jobs = {}
  /\ mailbox = [j \in Jobs |-> None]
  /\ now = 0

TypeOK ==
  /\ SchedTypeOK
  /\ pc \in {"poll", "timers", "exec", "raise", "pick", "ended"}
  /\ in_flight \in Outcomes \cup {None}
  /\ result \in [Green -> Outcomes \cup {None}]
  /\ cancel_requested \in [Green -> BOOLEAN]
  /\ settled \in [Deferreds -> Outcomes \cup {None}]
  /\ site \in [Coroutine -> Sites]
  /\ next_job_id \in 0..MaxJobs
  /\ running_jobs \subseteq Jobs
  /\ mailbox \in [Jobs -> Outcomes \cup {None}]
  /\ now \in Time

-----------------------------------------------------------------------------
(* The safepoint, lines 1175-1187: before every operation the completions  *)
(* that have arrived are delivered and the timers that are due are fired.  *)

EmptyMailbox == [j \in Jobs |-> None]

PollIoCompletions ==
  /\ WakeIo(mailbox)
  /\ mailbox' = EmptyMailbox

Poll ==
  /\ pc = "poll"
  /\ pc' = "timers"
  /\ IF io_blocked # {}
       THEN PollIoCompletions
       ELSE UNCHANGED <<queue, parked_resume, io_blocked, mailbox>>
  /\ UNCHANGED <<blocked, timer_blocked, deferred_blocked, next_id, current_id,
                 in_flight, handleVars, site, next_job_id, running_jobs, now>>

\* Wrong: timers fire only when no coroutine is ready.
FireTimersWhenIdle ==
  /\ pc = "timers"
  /\ pc' = "exec"
  /\ IF BlockingTimersOk /\ timer_blocked # {} /\ queue = <<>>
       THEN WakeTimers(now)
       ELSE UNCHANGED <<queue, parked_resume, timer_blocked>>
  /\ UNCHANGED <<blocked, io_blocked, deferred_blocked, next_id, current_id,
                 in_flight, handleVars, site, jobVars, now>>

FireTimers ==
  /\ pc = "timers"
  /\ pc' = "exec"
  /\ IF BlockingTimersOk /\ timer_blocked # {}
       THEN WakeTimers(now)
       ELSE UNCHANGED <<queue, parked_resume, timer_blocked>>
  /\ UNCHANGED <<blocked, io_blocked, deferred_blocked, next_id, current_id,
                 in_flight, handleVars, site, jobVars, now>>

-----------------------------------------------------------------------------
(* How an operation ends: it continues, raises, or gives the thread away.  *)

Continue == pc' = "poll" /\ in_flight' = None
RaiseErr(e) == pc' = "raise" /\ in_flight' = e

\* The operation delivers an outcome already known.
Deliver(o) ==
  /\ IF o.kind = "raise" THEN RaiseErr(o) ELSE Continue
  /\ UNCHANGED site

\* save_current and pick_next: if nothing can be picked, `drive` gets `o`.
SwitchAway(o) == pc' = "pick" /\ in_flight' = o

Park(what) ==
  /\ site' = [site EXCEPT ![current_id] = what]
  /\ SwitchAway(HostYield)

\* Wrong: a coroutine parks without looking at its own request.
NeverSelfCancelled == FALSE

\* Main has no handle, so nothing can cancel it.
SelfCancelled == current_id # Main /\ cancel_requested[current_id]

\* Wrong: the request is not reset when it is raised.
RaiseCancelledAgain ==
  /\ SelfCancelled
  /\ RaiseErr(Raise("cancelled"))
  /\ UNCHANGED <<schedVars, handleVars, site, jobVars, now>>

\* check_self_cancelled at the head of every park primitive.
RaiseCancelled ==
  /\ SelfCancelled
  /\ cancel_requested' = [cancel_requested EXCEPT ![current_id] = FALSE]
  /\ RaiseErr(Raise("cancelled"))
  /\ UNCHANGED <<schedVars, result, settled, site, jobVars, now>>

-----------------------------------------------------------------------------
(* The operations of the running coroutine, pc = "exec". *)

\* The bound on what is started.  It is no guard of the code.
MayStart == (next_id - 1) + next_job_id < MaxStarted

\* OpCode::Go and spawn_green.
Go ==
  /\ pc = "exec"
  /\ MayStart
  /\ EnqueueFresh
  /\ Continue
  /\ UNCHANGED <<parkVars, current_id, handleVars, site, jobVars, now>>

\* OpCode::Yield with another coroutine ready.  Taking the next one before
\* the running one is appended, as the code does, picks the same one.
YieldToNext ==
  /\ pc = "exec"
  /\ queue # <<>>
  /\ EnqueueCurrent
  /\ SwitchAway(HostYield)
  /\ UNCHANGED <<parkVars, next_id, current_id, handleVars, site, jobVars, now>>

\* OpCode::Yield with nothing else ready resumes at once.
YieldAlone ==
  /\ pc = "exec"
  /\ queue = <<>>
  /\ Continue
  /\ UNCHANGED <<schedVars, handleVars, site, jobVars, now>>

\* coop_join on a green-thread handle that has a result.
JoinFinished(g) ==
  /\ pc = "exec"
  /\ g < next_id
  /\ result[g] # None
  /\ Deliver(result[g])
  /\ UNCHANGED <<schedVars, handleVars, jobVars, now>>

\* coop_join on a live coroutine (perhaps the running one): refuse if nothing
\* could ever run, raise a pending self-cancel, else park.
JoinLive(g) ==
  /\ pc = "exec"
  /\ g < next_id
  /\ result[g] = None
  /\ \/ /\ ~CanMakeProgress
        /\ RaiseErr(Raise("deadlock"))
        /\ UNCHANGED <<schedVars, handleVars, site, jobVars, now>>
     \/ /\ CanMakeProgress
        /\ RaiseCancelled
     \/ /\ CanMakeProgress
        /\ ~SelfCancelled
        /\ Block(g)
        /\ Park(OnGreen(g))
        /\ UNCHANGED <<queue, io_blocked, timer_blocked, deferred_blocked, next_id,
                       current_id, parked_resume, handleVars, jobVars, now>>

\* coop_join_deferred on a settled deferred.
JoinSettled(d) ==
  /\ pc = "exec"
  /\ settled[d] # None
  /\ Deliver(settled[d])
  /\ UNCHANGED <<schedVars, handleVars, jobVars, now>>

\* coop_join_deferred on an unsettled one: only a program that owns its thread
\* may conclude that nobody can settle it.
JoinUnsettled(d) ==
  LET stuck == BlockingTimersOk /\ ~CanMakeProgress
  IN  /\ pc = "exec"
      /\ settled[d] = None
      /\ \/ /\ stuck
            /\ RaiseErr(Raise("deadlock"))
            /\ UNCHANGED <<schedVars, handleVars, site, jobVars, now>>
         \/ /\ ~stuck
            /\ RaiseCancelled
         \/ /\ ~stuck
            /\ ~SelfCancelled
            /\ ParkDeferred(d)
            /\ Park(OnDeferred(d))
            /\ UNCHANGED <<queue, blocked, io_blocked, timer_blocked, next_id,
                           current_id, parked_resume, handleVars, jobVars, now>>

\* coop_wait(Secs): refused where no clock can wake it.
Wait(secs) ==
  /\ pc = "exec"
  /\ now + secs \in Time
  /\ \/ /\ ~BlockingTimersOk
        /\ RaiseErr(Raise("raised"))
        /\ UNCHANGED <<schedVars, handleVars, site, jobVars, now>>
     \/ /\ BlockingTimersOk
        /\ RaiseCancelled
     \/ /\ BlockingTimersOk
        /\ ~SelfCancelled
        /\ ParkTimer(now + secs)
        /\ Park(Nothing)
        /\ UNCHANGED <<queue, blocked, io_blocked, deferred_blocked, next_id,
                       current_id, parked_resume, handleVars, jobVars, now>>

\* What a blocking call or its worker comes back with.
JobOutcomes == {Value("io"), Raise("raised")}

\* dispatch_blocking / dispatch_socket with no sibling waiting: run inline.
BlockingInline ==
  /\ pc = "exec"
  /\ IsIdle
  /\ \E o \in JobOutcomes : Deliver(o)
  /\ UNCHANGED <<schedVars, handleVars, jobVars, now>>

\* The same with siblings: submit the job and park until it is pumped back.
BlockingOffload ==
  /\ pc = "exec"
  /\ ~IsIdle
  /\ \/ RaiseCancelled
     \/ /\ ~SelfCancelled
        /\ next_job_id \in Jobs /\ MayStart
        /\ next_job_id' = next_job_id + 1
        /\ running_jobs' = running_jobs \cup {next_job_id}
        /\ ParkIo(next_job_id)
        /\ Park(OnJob(next_job_id))
        /\ UNCHANGED <<queue, blocked, timer_blocked, deferred_blocked, next_id,
                       current_id, parked_resume, handleVars, mailbox, now>>

\* do_cancel: a finished coroutine is left alone, a live one is marked and
\* torn from what it waits for.
Cancel(g) ==
  /\ pc = "exec"
  /\ g < next_id
  /\ IF result[g] # None
       THEN UNCHANGED <<queue, parkVars, parked_resume, cancel_requested>>
       ELSE /\ cancel_requested' = [cancel_requested EXCEPT ![g] = TRUE]
            /\ CancelUnpark(g)
  /\ Continue
  /\ UNCHANGED <<next_id, current_id, result, settled, site, jobVars, now>>

\* Wrong: a later settlement overwrites the first.
SettleAgain(d, outcome) ==
  /\ pc = "exec"
  /\ settled' = [settled EXCEPT ![d] = outcome]
  /\ WakeDeferred(d, outcome)
  /\ Continue
  /\ UNCHANGED <<blocked, io_blocked, timer_blocked, next_id, current_id,
                 result, cancel_requested, site, jobVars, now>>

\* settle_deferred, from do_resolve and do_reject: the first one wins.
Settle(d, outcome) ==
  /\ pc = "exec"
  /\ IF settled[d] # None
       THEN UNCHANGED <<queue, parked_resume, deferred_blocked, settled>>
       ELSE /\ settled' = [settled EXCEPT ![d] = outcome]
            /\ WakeDeferred(d, outcome)
  /\ Continue
  /\ UNCHANGED <<blocked, io_blocked, timer_blocked, next_id, current_id,
                 result, cancel_requested, site, jobVars, now>>

Resolve(d) == Settle(d, Value("settled"))
Reject(d)  == Settle(d, Raise("raised"))

\* `raise`, or any built-in error of the running code.
RaiseOp ==
  /\ pc = "exec"
  /\ RaiseErr(Raise("raised"))
  /\ UNCHANGED <<schedVars, handleVars, site, jobVars, now>>

\* Record how the running coroutine ended and wake whoever joins it.
Finish(outcome) ==
  /\ result' = [result EXCEPT ![current_id] = outcome]
  /\ WakeJoiners(current_id, outcome)
  /\ UNCHANGED <<io_blocked, timer_blocked, deferred_blocked, next_id, current_id,
                 cancel_requested, settled, site, jobVars, now>>

\* OpCode::Return from a coroutine's outermost frame.
ReturnGreen ==
  /\ pc = "exec"
  /\ current_id # Main
  /\ Finish(Value("done"))
  /\ SwitchAway(Value("done"))

ReturnMain ==
  /\ pc = "exec"
  /\ current_id = Main
  /\ pc' = "ended"
  /\ in_flight' = Value("done")
  /\ UNCHANGED <<schedVars, handleVars, site, jobVars, now>>

-----------------------------------------------------------------------------
(* catch_with_generators: an error leaves the dispatch loop. *)

\* try_catch finds a handler in the coroutine's frames; the loop is re-entered.
Caught ==
  /\ pc = "raise"
  /\ Continue
  /\ UNCHANGED <<schedVars, handleVars, site, jobVars, now>>

\* fail_current_green: record the failure, wake the joiners, switch.
FailGreen ==
  /\ pc = "raise"
  /\ current_id # Main
  /\ Finish(IF in_flight = Raise("cancelled") THEN Value("cancelled") ELSE in_flight)
  /\ SwitchAway(in_flight)

FailMain ==
  /\ pc = "raise"
  /\ current_id = Main
  /\ pc' = "ended"
  /\ UNCHANGED <<schedVars, in_flight, handleVars, site, jobVars, now>>

-----------------------------------------------------------------------------
(* pick_next and load_green. *)

\* Wrong: a cancelled coroutine resumes as if nothing had been asked.
NeverCancelledOnResume(c) == FALSE

\* A coroutine that comes back from a park with a request pending.
CancelledOnResume(c) ==
  parked_resume[c] # None /\ c # Main /\ cancel_requested[c]

\* Install the head of the run-queue.  A coroutine that resumes from a park
\* and is marked cancelled raises; else it gets its outcome; a coroutine that
\* has not started begins.
PickReady ==
  LET next == Head(queue)
  IN  /\ pc = "pick"
      /\ queue # <<>>
      /\ queue' = Tail(queue)
      /\ current_id' = next
      /\ parked_resume' = [parked_resume EXCEPT ![next] = None]
      /\ site' = [site EXCEPT ![next] = Nothing]
      /\ IF CancelledOnResume(next)
           THEN /\ cancel_requested' = [cancel_requested EXCEPT ![next] = FALSE]
                /\ RaiseErr(Raise("cancelled"))
           ELSE /\ UNCHANGED cancel_requested
                /\ IF parked_resume[next].kind = "raise"
                     THEN RaiseErr(parked_resume[next])
                     ELSE Continue
      /\ UNCHANGED <<parkVars, next_id, result, settled, jobVars, now>>

\* pump_io_completions: with no one ready and a call in flight, sleep on the
\* mailbox until a completion arrives, and deliver what is there.
PumpIo ==
  /\ pc = "pick"
  /\ queue = <<>>
  /\ io_blocked # {}
  /\ mailbox # EmptyMailbox
  /\ PollIoCompletions
  /\ UNCHANGED <<blocked, timer_blocked, deferred_blocked, next_id, current_id,
                 pc, in_flight, handleVars, site, next_job_id, running_jobs, now>>

\* sleep_to_next_timer: no one ready, no call in flight.
SleepToNextTimer ==
  /\ pc = "pick"
  /\ queue = <<>>
  /\ io_blocked = {}
  /\ timer_blocked # {}
  /\ BlockingTimersOk
  /\ now >= NextTimerWake
  /\ WakeTimers(now)
  /\ UNCHANGED <<blocked, io_blocked, deferred_blocked, next_id, current_id,
                 pc, in_flight, handleVars, site, jobVars, now>>

\* pick_next returns None and `drive` returns: a park hands out HostYield, a
\* failed coroutine its error, a finished one its value, unless an awaiter of
\* a deferred is left behind.
PickNone ==
  /\ pc = "pick"
  /\ queue = <<>>
  /\ io_blocked = {}
  /\ timer_blocked = {} \/ ~BlockingTimersOk
  /\ pc' = "ended"
  /\ in_flight' = IF in_flight.kind = "value" /\ deferred_blocked # {}
                    THEN Raise("deadlock") ELSE in_flight
  /\ UNCHANGED <<schedVars, handleVars, site, jobVars, now>>

-----------------------------------------------------------------------------
(* The environment. *)

\* A worker (or the reactor) finishes job j.
Post(j) ==
  /\ pc # "ended"
  /\ j \in running_jobs
  /\ running_jobs' = running_jobs \ {j}
  /\ \E o \in JobOutcomes : mailbox' = [mailbox EXCEPT ![j] = o]
  /\ UNCHANGED <<schedVars, pc, in_flight, handleVars, site, next_job_id, now>>

Tick ==
  /\ pc # "ended"
  /\ now < MaxTime
  /\ now' = now + 1
  /\ UNCHANGED <<schedVars, pc, in_flight, handleVars, site, jobVars>>

-----------------------------------------------------------------------------
\* The operations that leave the running coroutine running.
StayOp ==
  \/ Go
  \/ YieldAlone
  \/ BlockingInline
  \/ RaiseOp
  \/ \E g \in Green : JoinFinished(g) \/ Cancel(g)
  \/ \E d \in Deferreds : JoinSettled(d) \/ Resolve(d) \/ Reject(d)

\* The operations that may take it off the thread.
LeaveOp ==
  \/ YieldToNext
  \/ BlockingOffload
  \/ ReturnGreen
  \/ ReturnMain
  \/ \E g \in Green : JoinLive(g)
  \/ \E d \in Deferreds : JoinUnsettled(d)
  \/ \E s \in Delays : Wait(s)

Unwind == Caught \/ FailGreen \/ FailMain
Pick   == PickReady \/ PumpIo \/ SleepToNextTimer \/ PickNone

\* `drive` has returned and the actor is gone.
Terminated == pc = "ended" /\ UNCHANGED vars

Next ==
  \/ Poll
  \/ FireTimers
  \/ StayOp
  \/ LeaveOp
  \/ Unwind
  \/ Pick
  \/ \E j \in Jobs : Post(j)
  \/ Tick
  \/ Terminated

Spec == Init /\ [][Next]_vars

(***************************************************************************)
(* Fairness.  The actor thread runs whenever the code lets it, the clock   *)
(* advances, and the program is cooperative: a coroutine that keeps the    *)
(* thread gives it up in the end.  IoFairness, that every offloaded call   *)
(* returns, is an assumption about the outside world and kept apart.       *)
(***************************************************************************)
GiveUp(c) == current_id = c /\ LeaveOp /\ pc' \in {"pick", "ended"}

ThreadFairness ==
  /\ WF_vars(Poll \/ FireTimers \/ Unwind \/ Pick)
  /\ WF_vars(Tick)
  /\ \A c \in Coroutine : SF_vars(GiveUp(c))

IoFairness == \A j \in Jobs : WF_vars(Post(j))

CooperativeSpec == Spec /\ ThreadFairness
FairSpec == CooperativeSpec /\ IoFairness

-----------------------------------------------------------------------------
(* Safety. *)

HasThread == pc \in {"poll", "timers", "exec", "raise"}

Live(c) == c = Main \/ (c < next_id /\ result[c] = None)

Holders == {"running", "queue", "join", "io", "timer", "deferred"}
Held(h) == CASE h = "running"  -> IF HasThread THEN {current_id} ELSE {}
             [] h = "queue"    -> Queued
             [] h = "join"     -> Threads(blocked)
             [] h = "io"       -> Threads(io_blocked)
             [] h = "timer"    -> Threads(timer_blocked)
             [] h = "deferred" -> Threads(deferred_blocked)

\* No collection holds a coroutine twice.
NoDuplicates ==
  /\ \A i, j \in 1..Len(queue) : queue[i] = queue[j] => i = j
  /\ \A p, q \in blocked : p.thread = q.thread => p = q
  /\ \A p, q \in io_blocked : p.thread = q.thread => p = q
  /\ \A p, q \in timer_blocked : p.thread = q.thread => p = q
  /\ \A p, q \in deferred_blocked : p.thread = q.thread => p = q

\* A live coroutine is in exactly one place - running, ready or parked on one
\* thing - and a finished one is nowhere: no wake, cancel or switch loses a
\* coroutine, runs one twice, or resumes one that has returned.
OnePlace ==
  pc # "ended" =>
    /\ NoDuplicates
    /\ \A c \in Coroutine : Live(c) <=> \E h \in Holders : c \in Held(h)
    /\ \A c \in Coroutine : \A h, k \in Holders :
         c \in Held(h) /\ c \in Held(k) => h = k

\* Nobody waits for what has already happened: a coroutine parked in a join
\* awaits a live coroutine or an unsettled deferred, and one parked on a
\* blocking call awaits a job that is running or whose outcome is in the
\* mailbox.  wake_joiners and wake_deferred broadcast, and no completion is
\* dropped while its coroutine still waits.
NobodyStranded ==
  /\ \A p \in blocked : result[p.awaiting] = None
  /\ \A p \in deferred_blocked : settled[p.deferred] = None
  /\ \A p \in io_blocked : p.job_id \in running_jobs \/ mailbox[p.job_id] # None

\* A coroutine made ready again is delivered the recorded outcome of exactly
\* what its code waits for; the nominal null of cancel_unpark is queued only
\* while the request that will replace it by `cancelled` stands.
DeliversWhatIsAwaited ==
  \A c \in Queued :
    LET o == parked_resume[c] IN
    /\ site[c] = Nothing => o \in {None, Value("null")}
    /\ \A g \in Green : site[c] = OnGreen(g) => o \in {result[g], Value("null")}
    /\ \A d \in Deferreds : site[c] = OnDeferred(d) => o \in {settled[d], Value("null")}
    /\ \A j \in Jobs : site[c] = OnJob(j) =>
         \/ o = Value("null")
         \/ o \in JobOutcomes /\ j \notin running_jobs
    /\ site[c] # Nothing /\ o = Value("null") => c # Main /\ cancel_requested[c]
    /\ site[c] # Nothing => o # None

\* A cancellation is never slept through: no coroutine sits in a join, a
\* blocking call, a wait or a deferred with its request pending
\* (check_self_cancelled on the way in, cancel_unpark once inside).
NoCancelSleptThrough ==
  \A c \in Green : cancel_requested[c] =>
    c \notin Threads(blocked) \cup Threads(io_blocked)
             \cup Threads(timer_blocked) \cup Threads(deferred_blocked)

\* A standalone program never unwinds with the internal HostYield signal: the
\* deadlock guards taken before a park leave something for pick_next to find.
HostYieldNeverEscapes == pc = "ended" => in_flight # HostYield

\* What a coroutine ended with and what a deferred was settled with never
\* change, so every join of it sees the same outcome.
OutcomesAreWrittenOnce ==
  [][ /\ \A g \in Green : result[g] # None => result'[g] = result[g]
      /\ \A d \in Deferreds : settled[d] # None => settled'[d] = settled[d] ]_vars

\* `cancelled` is raised in a coroutine exactly when a request addressed to it
\* is consumed: once per request, never for another coroutine's, never lost.
CancelFiresOncePerRequest ==
  [][ \A g \in Green :
        (cancel_requested[g] /\ ~cancel_requested'[g])
          <=> (/\ pc # "raise" /\ pc' = "raise"
               /\ in_flight' = Raise("cancelled")
               /\ current_id' = g) ]_vars

-----------------------------------------------------------------------------
(* What the coroutines may rely on: Awaiting. *)

OnTime(t) == <<"time", t>>

\* The waits in force: every parked coroutine with what it is parked on.
Waits ==
  {[thread |-> p.thread, on |-> OnGreen(p.awaiting)] : p \in blocked} \cup
  {[thread |-> p.thread, on |-> OnJob(p.job_id)] : p \in io_blocked} \cup
  {[thread |-> p.thread, on |-> OnTime(p.wake_time)] : p \in timer_blocked} \cup
  {[thread |-> p.thread, on |-> OnDeferred(p.deferred)] : p \in deferred_blocked}

Started == 0..(next_id - 1)
Running == IF HasThread THEN {current_id} ELSE {}
Raising == IF pc = "raise" THEN in_flight ELSE None

Promise == INSTANCE Awaiting WITH
  Null <- Value("null"), Done <- Value("done"), Torn <- Value("cancelled"),
  Cancelled <- Raise("cancelled"), Errors <- {Raise("raised"), Raise("deadlock")},
  Settlements <- {Value("settled"), Raise("raised")},
  started <- Started,
  running <- Running,
  ready <- Queued,
  waits <- Waits,
  told <- parked_resume,
  raising <- Raising,
  requested <- cancel_requested,
  ended <- result,
  calls <- running_jobs,
  answer <- mailbox

\* The scheduler keeps what Awaiting promises.  A wait ends only with the
\* outcome of what it is for, when its time has come, or by a request to
\* cancel it; whatever happens wakes everybody who waits for it, in the step
\* in which it happens; and no completion is dropped that somebody awaits.
\* One wake too many, too early or with another's outcome, anywhere in the
\* four collections, the mailbox and the run-queue, would break it.
ImplementsAwaiting == Promise!Spec

-----------------------------------------------------------------------------
(* Liveness. *)

Ended == pc = "ended"

\* Round-robin: in a cooperative program a ready coroutine gets the thread.
ReadyRuns ==
  \A c \in Coroutine : c \in Queued ~> (HasThread /\ current_id = c) \/ Ended

\* A request to cancel a parked coroutine is acted on.
CancelTakesEffect ==
  \A g \in Green :
    (cancel_requested[g] /\ g \in Queued /\ parked_resume[g] # None)
      ~> (~cancel_requested[g] \/ Ended)

\* A `wait` whose time has come, or a blocking call that has returned, is over,
\* whatever the other coroutines do: pick_next blocks the thread for both.
WaitEnds ==
  LET asleep == Threads(timer_blocked) \cup Threads(io_blocked)
  IN  \A c \in Coroutine : c \in asleep ~> (c \notin asleep \/ Ended)

=============================================================================
