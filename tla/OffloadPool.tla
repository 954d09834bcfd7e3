----------------------------- MODULE OffloadPool -----------------------------
(***************************************************************************)
(* The worker pool that carries out blocking calls (src/src/vm/offload.rs),*)
(* the mailbox through which an actor gets the answers, and the Task that  *)
(* carries an actor's own outcome to whoever joins it (src/src/vm/task.rs).*)
(*                                                                         *)
(* A step is a critical section of one mutex, or what a thread does        *)
(* between two of them.  A thread asleep on a condition variable leaves it *)
(* when notified; the standard library's may also let a sleeper go for no  *)
(* reason, and every wait of this code is in a loop (Spurious).            *)
(*                                                                         *)
(* Workers are told apart only by the job they carry out: those with none  *)
(* are counted by where they are.  A job is one blocking call: a join of a *)
(* child actor's task, or a call that returns by itself.                   *)
(***************************************************************************)
EXTENDS Integers, Sequences, FiniteSets

CONSTANTS
  Actors,      \* OS threads that run a Vm
  Children,    \* those started by `spawn`, each with its Task
  Jobs,        \* the blocking calls of the run
  Owner,       \* [Jobs -> Actors]: who makes the call
  Target,      \* [JoinJobs -> Children]: what it joins; other jobs join nothing
  Panicky,     \* jobs whose closure may panic
  Cap,         \* WORKER_SOFT_CAP
  MaxSpurious  \* bound: wake-ups for no reason

JoinJobs == DOMAIN Target

ASSUME PoolAssumption ==
  /\ Children \subseteq Actors
  /\ Cap \in Nat \ {0}
  /\ Owner \in [Jobs -> Actors]
  /\ JoinJobs \subseteq Jobs
  /\ Target \in [JoinJobs -> Children]
  /\ Panicky \subseteq Jobs \ JoinJobs
  /\ IsFiniteSet(Actors) /\ IsFiniteSet(Jobs)
  /\ MaxSpurious \in Nat

VARIABLES
  queue,     \* PoolInner::queue
  idle,      \* PoolInner::idle
  total,     \* PoolInner::total
  scanning,  \* workers on their way to the lock: spawned, or done with a job
  asleep,    \* workers in work_ready.wait
  woken,     \* workers notified there that do not have the lock again yet
  at,        \* where the thread that carries out a job is
  actor,     \* where an actor's thread is, when it carries out no job
  mail,      \* CompletionMailbox::done of each actor
  fate,      \* of the coroutine that made the call
  got,       \* what the call came to
  task,      \* TaskInner::state of each child
  spurious   \* wake-ups for no reason so far

poolVars  == <<queue, idle, total>>
threads   == <<scanning, asleep, woken>>
vars == <<poolVars, threads, at, actor, mail, fate, got, task, spurious>>

TypeOK ==
  /\ queue \in Seq(Jobs)
  /\ idle \in Nat /\ total \in 0..Cap
  /\ scanning \in Nat /\ asleep \in Nat /\ woken \in Nat
  /\ at \in [Jobs -> {"nowhere", "queue", "work", "join_asleep", "post", "done", "dead"}]
  /\ actor \in [Actors -> {"run", "notify", "in_call", "mail_asleep", "mail_woken",
                           "complete", "notify_all", "ended"}]
  /\ mail \in [Actors -> Seq(Jobs)]
  /\ fate \in [Jobs -> {"new", "parked", "inline", "resumed", "abandoned"}]
  /\ got \in [Jobs -> {"none", "value", "outcome", "already_joined"}]
  /\ task \in [Children -> {"pending", "ready", "taken"}]
  /\ spurious \in 0..MaxSpurious

Init ==
  /\ queue = <<>> /\ idle = 0 /\ total = 0
  /\ scanning = 0 /\ asleep = 0 /\ woken = 0
  /\ at = [j \in Jobs |-> "nowhere"]
  /\ actor = [a \in Actors |-> "run"]
  /\ mail = [a \in Actors |-> <<>>]
  /\ fate = [j \in Jobs |-> "new"]
  /\ got = [j \in Jobs |-> "none"]
  /\ task = [c \in Children |-> "pending"]
  /\ spurious = 0

-----------------------------------------------------------------------------
Is(a, label) == actor[a] = label
Goto(a, label) == actor' = [actor EXCEPT ![a] = label]
Put(j, place) == at' = [at EXCEPT ![j] = place]

IoBlocked(a) == {j \in Jobs : Owner[j] = a /\ fate[j] = "parked"}

Elems(s) == {s[i] : i \in DOMAIN s}

-----------------------------------------------------------------------------
(* The pool *)

\* Wrong: a worker is spawned only when none is counted idle.
SurplusWhenNoneIdle(q) == idle = 0 /\ total < Cap

\* Pool::submit, under the pool's lock: a new worker when more jobs are
\* queued than workers counted idle, up to the cap.
Surplus(q) == Len(q) > idle /\ total < Cap

\* dispatch_blocking with other coroutines around: the call is handed to
\* the pool and its coroutine parks under the job's id.
Submit(a, j) ==
  /\ Is(a, "run") /\ Owner[j] = a /\ fate[j] = "new"
  /\ fate' = [fate EXCEPT ![j] = "parked"]
  /\ queue' = Append(queue, j)
  /\ Put(j, "queue")
  /\ LET spawned == IF Surplus(queue') THEN 1 ELSE 0
     IN total' = total + spawned /\ scanning' = scanning + spawned
  /\ Goto(a, "notify")
  /\ UNCHANGED <<idle, asleep, woken, mail, got, task, spurious>>

\* work_ready.notify_one, after the lock was dropped.
NotifyOne(a) ==
  /\ Is(a, "notify")
  /\ Goto(a, "run")
  /\ LET moved == IF asleep > 0 THEN 1 ELSE 0
     IN asleep' = asleep - moved /\ woken' = woken + moved
  /\ UNCHANGED <<poolVars, scanning, at, mail, fate, got, task, spurious>>

\* A worker enters its critical section: one that was woken stops counting
\* as idle, one that was spawned or has finished a job never counted.
Enter(idle_left) ==
  \/ /\ scanning > 0
     /\ scanning' = scanning - 1
     /\ idle_left = idle
     /\ woken' = woken
  \/ /\ woken > 0
     /\ woken' = woken - 1
     /\ idle_left = idle - 1
     /\ scanning' = scanning

TakeJob ==
  /\ queue # <<>>
  /\ \E idle_left \in {idle, idle - 1} : Enter(idle_left) /\ idle' = idle_left
  /\ queue' = Tail(queue)
  /\ Put(Head(queue), "work")
  /\ UNCHANGED <<total, asleep, actor, mail, fate, got, task, spurious>>

GoToSleep ==
  /\ queue = <<>>
  /\ \E idle_left \in {idle, idle - 1} : Enter(idle_left) /\ idle' = idle_left + 1
  /\ asleep' = asleep + 1
  /\ UNCHANGED <<queue, total, at, actor, mail, fate, got, task, spurious>>

-----------------------------------------------------------------------------
(* The work itself, on a worker that then posts, or inline on its actor *)

FinishWork(j, answer) ==
  /\ got' = [got EXCEPT ![j] = answer]
  /\ IF fate[j] = "inline"
       THEN /\ Put(j, "done")
            /\ Goto(Owner[j], "run")
            /\ fate' = [fate EXCEPT ![j] = "resumed"]
       ELSE Put(j, "post") /\ UNCHANGED <<actor, fate>>
  /\ UNCHANGED <<poolVars, threads, mail, spurious>>

DoCall(j) ==
  /\ at[j] = "work" /\ j \notin JoinJobs
  /\ FinishWork(j, "value")
  /\ UNCHANGED task

\* TaskInner::join, under the task's lock.
TaskIs(j, state) == at[j] = "work" /\ j \in JoinJobs /\ task[Target[j]] = state

JoinPending(j) ==
  /\ TaskIs(j, "pending")
  /\ Put(j, "join_asleep")
  /\ UNCHANGED <<poolVars, threads, actor, mail, fate, got, task, spurious>>

\* Wrong: the outcome is cloned and left behind.
JoinReadyClone(j) ==
  /\ TaskIs(j, "ready")
  /\ task' = task
  /\ FinishWork(j, "outcome")

JoinReady(j) ==
  /\ TaskIs(j, "ready")
  /\ task' = [task EXCEPT ![Target[j]] = "taken"]
  /\ FinishWork(j, "outcome")

JoinTaken(j) ==
  /\ TaskIs(j, "taken")
  /\ FinishWork(j, "already_joined")
  /\ UNCHANGED task

\* Nothing catches a panic: the thread is gone and the call is never answered.
\* The pool goes on counting a worker that is not there; an actor that dies in
\* an inline call never completes its task.
Panic(j) ==
  /\ at[j] = "work" /\ j \in Panicky
  /\ Put(j, "dead")
  /\ UNCHANGED <<poolVars, threads, actor, mail, fate, got, task, spurious>>

\* CompletionMailbox::post, pushed and notified under the mailbox's mutex;
\* the worker goes back for another job.
Post(j) ==
  /\ at[j] = "post"
  /\ mail' = [mail EXCEPT ![Owner[j]] = Append(@, j)]
  /\ IF Is(Owner[j], "mail_asleep") THEN Goto(Owner[j], "mail_woken") ELSE actor' = actor
  /\ Put(j, "done")
  /\ scanning' = scanning + 1
  /\ UNCHANGED <<poolVars, asleep, woken, fate, got, task, spurious>>

-----------------------------------------------------------------------------
(* The actor *)

\* A call made while no other coroutine of the actor is alive, or in the body
\* of a generator whatever is parked, is made right here.
CallInline(a, j) ==
  /\ Is(a, "run") /\ Owner[j] = a /\ fate[j] = "new"
  /\ fate' = [fate EXCEPT ![j] = "inline"]
  /\ Put(j, "work")
  /\ Goto(a, "in_call")
  /\ UNCHANGED <<poolVars, threads, mail, got, task, spurious>>

\* Wrong: answers resume whichever coroutine of the actor is parked.
DeliveredAtRandom(a) ==
  [j \in Jobs |-> IF j \in IoBlocked(a) /\ mail[a] # <<>> THEN "resumed" ELSE fate[j]]

\* wake_io of every answer drained: the coroutine parked under the id
\* resumes; the id of one that was cancelled is not found, and the answer
\* goes nowhere.
Delivered(a) ==
  [j \in Jobs |-> IF j \in Elems(mail[a]) /\ fate[j] = "parked" THEN "resumed" ELSE fate[j]]

\* poll_io_completions at a safepoint, or wait_drain that need not wait.
DrainMail(a) ==
  /\ actor[a] \in {"run", "mail_woken"}
  /\ mail[a] # <<>>
  /\ fate' = Delivered(a)
  /\ mail' = [mail EXCEPT ![a] = <<>>]
  /\ Goto(a, "run")
  /\ UNCHANGED <<poolVars, threads, at, got, task, spurious>>

\* wait_drain with nothing posted: every coroutine is parked.
WaitDrain(a) ==
  /\ \/ Is(a, "run") /\ IoBlocked(a) # {}
     \/ Is(a, "mail_woken")
  /\ mail[a] = <<>>
  /\ Goto(a, "mail_asleep")
  /\ UNCHANGED <<poolVars, threads, at, mail, fate, got, task, spurious>>

\* go_cancel of a coroutine parked on the call: the call itself goes on.
Cancel(a, j) ==
  /\ Is(a, "run") /\ j \in IoBlocked(a)
  /\ fate' = [fate EXCEPT ![j] = "abandoned"]
  /\ UNCHANGED <<poolVars, threads, at, actor, mail, got, task, spurious>>

\* The child's main program ends, whatever its other coroutines wait for;
\* TaskInner::complete sets the state under the lock and notifies after it.
EndActor(c) ==
  /\ c \in Children /\ Is(c, "run")
  /\ Goto(c, "complete")
  /\ UNCHANGED <<poolVars, threads, at, mail, fate, got, task, spurious>>

CompleteTask(c) ==
  /\ Is(c, "complete")
  /\ task' = [task EXCEPT ![c] = "ready"]
  /\ Goto(c, "notify_all")
  /\ UNCHANGED <<poolVars, threads, at, mail, fate, got, spurious>>

JoinersAsleep(c) == {j \in JoinJobs : at[j] = "join_asleep" /\ Target[j] = c}

\* Wrong: notify_one, though several threads may join one task.
NotifiedOne(c) ==
  IF JoinersAsleep(c) = {} THEN {} ELSE {CHOOSE j \in JoinersAsleep(c) : TRUE}

Notified(c) == JoinersAsleep(c)

NotifyJoiners(c) ==
  /\ Is(c, "notify_all")
  /\ at' = [j \in Jobs |-> IF j \in Notified(c) THEN "work" ELSE at[j]]
  /\ Goto(c, "ended")
  /\ UNCHANGED <<poolVars, threads, mail, fate, got, task, spurious>>

\* A condition variable lets a sleeper go for no reason.
SpuriousWorker == asleep > 0 /\ asleep' = asleep - 1 /\ woken' = woken + 1
                  /\ UNCHANGED <<at, actor>>
SpuriousJoiner(j) == at[j] = "join_asleep" /\ Put(j, "work")
                     /\ UNCHANGED <<asleep, woken, actor>>
SpuriousActor(a) == Is(a, "mail_asleep") /\ Goto(a, "mail_woken")
                    /\ UNCHANGED <<asleep, woken, at>>

Spurious ==
  /\ spurious < MaxSpurious
  /\ spurious' = spurious + 1
  /\ SpuriousWorker \/ (\E j \in Jobs : SpuriousJoiner(j)) \/ (\E a \in Actors : SpuriousActor(a))
  /\ UNCHANGED <<poolVars, scanning, mail, fate, got, task>>

-----------------------------------------------------------------------------
Work(j)     == DoCall(j) \/ JoinPending(j) \/ JoinReady(j) \/ JoinTaken(j) \/ Panic(j) \/ Post(j)
Mailbox(a)  == NotifyOne(a) \/ DrainMail(a) \/ WaitDrain(a)
Ending(c)   == EndActor(c) \/ CompleteTask(c) \/ NotifyJoiners(c)

\* What goes on by itself once calls are made.
Progress ==
  \/ TakeJob \/ GoToSleep
  \/ \E j \in Jobs : Work(j)
  \/ \E a \in Actors : Mailbox(a)
  \/ \E c \in Children : Ending(c)

Calls(a) == \E j \in Jobs : Submit(a, j) \/ CallInline(a, j) \/ Cancel(a, j)

\* Every thread is at rest: the program has ended, or waits for the world.
AtRest ==
  /\ \A a \in Actors : actor[a] \in {"run", "ended", "mail_asleep", "in_call"}
  /\ \A j \in Jobs : at[j] \notin {"queue", "post"}
  /\ scanning = 0 /\ woken = 0
  /\ UNCHANGED vars

Next == Progress \/ (\E a \in Actors : Calls(a)) \/ Spurious \/ AtRest

\* The operating system runs some thread that can run; a program need not
\* make a call, but a child's does end.  Every call is a finite piece of work,
\* so fairness to each thread apart would add nothing.
Spec == Init /\ [][Next]_vars /\ WF_vars(Progress)

-----------------------------------------------------------------------------
(* What the pool promises *)

\* A panic took the actor itself, or the one answer it goes on waiting for.
DiedInCall(a) ==
  \E j \in Jobs : Owner[j] = a /\ fate[j] = "inline" /\ at[j] = "dead"

WaitsForNothing(a) ==
  /\ actor[a] \in {"mail_asleep", "mail_woken"} /\ mail[a] = <<>>
  /\ \A j \in Jobs : Owner[j] = a => at[j] \in {"nowhere", "done", "dead"}

Lost(j) ==
  \/ at[j] = "dead"
  \/ j \in JoinJobs /\ (DiedInCall(Target[j]) \/ WaitsForNothing(Target[j]))

\* Where JobService would say a call is.
Status(j) ==
  IF fate[j] = "inline" THEN "new"
  ELSE IF fate[j] # "parked" THEN fate[j]
  ELSE IF j \in Elems(mail[Owner[j]]) THEN "answered"
  ELSE IF Lost(j) THEN "lost"
  ELSE "pending"

Service == INSTANCE JobService WITH status <- [j \in Jobs |-> Status(j)]

\* The pool, its mailboxes and the tasks carry a blocking call out as
\* JobService promises: answered at most once, resumed only after the answer
\* and once, and answered in the end unless a panic took it, or the actor
\* it joins.  Two
\* workers that took one job, a worker asleep on a queue, a lost notification
\* or joins that hold every worker would break it (Pool::submit, worker,
\* CompletionMailbox, TaskInner).
ImplementsJobService == Service!Spec

\* A job stays queued only while a worker is on its way to it (spawned,
\* woken or done with its last job), or while every worker the cap allows is
\* busy: a burst of submits that outruns the workers it woke never leaves a
\* job behind a running call (the comment in Pool::submit).
SurplusHasAWorker ==
  \/ Len(queue) <= scanning + woken + Cardinality({a \in Actors : Is(a, "notify")})
  \/ total = Cap /\ asleep = 0

\* Nobody sleeps on news that has arrived: an actor in wait_drain whose
\* mailbox holds an answer, or a joiner of a task that is over and whose
\* notification has been sent.
NobodySleepsThroughNews ==
  /\ \A a \in Actors : Is(a, "mail_asleep") => mail[a] = <<>>
  /\ \A j \in JoinJobs : at[j] = "join_asleep" =>
       task[Target[j]] = "pending" \/ Is(Target[j], "notify_all")

\* A task's outcome goes to one join, and every other join of it is told so,
\* only once the first has it (TaskInner::join).
OneJoinGetsTheOutcome ==
  \A c \in Children :
    LET joins(answer) == {j \in JoinJobs : Target[j] = c /\ got[j] = answer}
    IN /\ Cardinality(joins("outcome")) <= 1
       /\ joins("already_joined") # {} => joins("outcome") # {}
       /\ joins("outcome") # {} <=> task[c] = "taken"

=============================================================================
