-------------------------- MODULE OffloadPool_proofs --------------------------
(***************************************************************************)
(* Machine-checked proofs about OffloadPool, for any number of actors,     *)
(* jobs and joins, any soft cap and any number of spurious wake-ups:       *)
(*   TypeCorrect                  Spec => []TypeOK                         *)
(*   SurplusHasAWorkerAlways      Spec => []SurplusHasAWorker              *)
(*   NobodySleepsThroughNewsAlways  Spec => []NobodySleepsThroughNews      *)
(*   OneJoinGetsTheOutcomeAlways  Spec => []OneJoinGetsTheOutcome          *)
(*   SafetyOfJobService           Spec => Service!Safety                   *)
(* They rest on the inductive invariant IInv: where a job may be, given    *)
(* what its coroutine, its owner and the task it joins are doing.          *)
(***************************************************************************)
EXTENDS OffloadPool, TLAPS, FiniteSetTheorems

-----------------------------------------------------------------------------
(* The inductive invariant. *)

\* The workers counted idle are those asleep and those on their way back.
IdleInv == idle = asleep + woken

Notifying == {a \in Actors : Is(a, "notify")}

\* Workers that will look at the queue next.
Coming == scanning + woken

\* Below the cap a queued job has a worker that is not busy, if only one
\* counted idle and not notified yet.
SpareInv == total < Cap => Len(queue) <= Coming + asleep

\* A job is queued once, and nowhere else.
QueueInv ==
  /\ \A i \in 1..Len(queue) : at[queue[i]] = "queue"
  /\ \A i, k \in 1..Len(queue) : queue[i] = queue[k] => i = k

\* An actor makes one call inline at a time, and does nothing else meanwhile.
InlineInv ==
  /\ \A j \in Jobs : fate[j] = "inline" => Is(Owner[j], "in_call")
  /\ \A j, k \in Jobs : fate[j] = "inline" /\ fate[k] = "inline" /\ Owner[j] = Owner[k] => j = k

\* A call that has come to nothing yet has no answer, and one not made is nowhere.
AnswerInv ==
  \A j \in Jobs :
    /\ fate[j] = "new" => at[j] = "nowhere"
    /\ at[j] \in {"nowhere", "queue", "work", "join_asleep"} => got[j] = "none"

\* A task is over only when its actor is, and a join is answered only then.
TaskInv ==
  /\ \A c \in Children : task[c] # "pending" => actor[c] \in {"notify_all", "ended"}
  /\ \A j \in JoinJobs : at[j] = "post" => task[Target[j]] # "pending"

\* A task's outcome is with exactly one join once it is taken, and nobody is
\* told so before.
JoinedInv ==
  /\ \A j, k \in JoinJobs :
       got[j] = "outcome" /\ got[k] = "outcome" /\ Target[j] = Target[k] => j = k
  /\ \A j \in JoinJobs : got[j] \in {"outcome", "already_joined"} => task[Target[j]] = "taken"
  /\ \A c \in Children : task[c] = "taken" => \E j \in JoinJobs : Target[j] = c /\ got[j] = "outcome"

\* What is in a mailbox was posted to its owner.
MailInv ==
  \A a \in Actors : \A j \in Elems(mail[a]) : Owner[j] = a /\ at[j] = "done"

IInv == /\ TypeOK /\ IdleInv /\ SpareInv /\ QueueInv /\ InlineInv /\ AnswerInv /\ TaskInv /\ MailInv
        /\ SurplusHasAWorker /\ NobodySleepsThroughNews /\ JoinedInv

-----------------------------------------------------------------------------
(* Facts about the operators. *)

\* What a sequence holds.
LEMMA ElemsFacts ==
  ASSUME NEW S, NEW s \in Seq(S)
  PROVE  /\ Elems(s) \subseteq S
         /\ s # <<>> <=> Elems(s) # {}
<1>1. Elems(s) \subseteq S
  BY DEF Elems
<1>2. s # <<>> => 1 \in DOMAIN s
  OBVIOUS
<1>3. s = <<>> => DOMAIN s = {}
  OBVIOUS
<1> QED
  BY <1>1, <1>2, <1>3 DEF Elems

\* What an append adds.
LEMMA ElemsOfAppend ==
  ASSUME NEW S, NEW s \in Seq(S), NEW e \in S
  PROVE  Elems(Append(s, e)) = Elems(s) \cup {e}
<1>1. Elems(Append(s, e)) \subseteq Elems(s) \cup {e}
  BY DEF Elems
<1>2. ASSUME NEW i \in DOMAIN s PROVE s[i] \in Elems(Append(s, e))
  <2>1. i \in DOMAIN Append(s, e) /\ Append(s, e)[i] = s[i]
    OBVIOUS
  <2> QED
    BY <2>1 DEF Elems
<1>3. e \in Elems(Append(s, e))
  <2>1. Len(s) + 1 \in DOMAIN Append(s, e) /\ Append(s, e)[Len(s) + 1] = e
    OBVIOUS
  <2> QED
    BY <2>1 DEF Elems
<1> QED
  BY <1>1, <1>2, <1>3 DEF Elems

\* Where a call ends: on its actor's thread, which goes on with it, or on a worker.
FinishInline(j) == /\ fate[j] = "inline"
                   /\ at' = [at EXCEPT ![j] = "done"]
                   /\ actor' = [actor EXCEPT ![Owner[j]] = "run"]
                   /\ fate' = [fate EXCEPT ![j] = "resumed"]
FinishOnWorker(j) == /\ fate[j] # "inline"
                     /\ at' = [at EXCEPT ![j] = "post"]
                     /\ UNCHANGED <<actor, fate>>

\* What FinishWork does: the answer is recorded, and the call is over, inline or not.
LEMMA FinishWorkCases ==
  ASSUME TypeOK, NEW j \in Jobs, at[j] = "work", NEW answer, FinishWork(j, answer)
  PROVE  /\ got' = [got EXCEPT ![j] = answer]
         /\ FinishInline(j) \/ FinishOnWorker(j)
         /\ UNCHANGED <<queue, idle, total, scanning, asleep, woken, mail, spurious>>
BY DEF FinishWork, FinishInline, FinishOnWorker, Put, Goto, poolVars, threads

-----------------------------------------------------------------------------
(* Types. *)

\* The counters of the pool and of its workers.
CountersOK ==
  /\ Len(queue) \in Nat /\ idle \in Nat /\ total \in Nat
  /\ scanning \in Nat /\ asleep \in Nat /\ woken \in Nat

\* The counters as the type invariant bounds them.
LEMMA CountersAreNumbers ==
  ASSUME TypeOK
  PROVE  CountersOK /\ Cap \in Nat /\ total <= Cap
BY PoolAssumption DEF TypeOK, CountersOK

\* What a worker that takes the lock does to the counts.
LEMMA EnterFacts ==
  ASSUME CountersOK, IdleInv, NEW idle_left, Enter(idle_left)
  PROVE  /\ scanning' \in Nat /\ woken' \in Nat /\ idle_left = asleep + woken'
         /\ Coming' = Coming - 1 /\ Coming - 1 \in Nat
BY DEF CountersOK, IdleInv, Enter, Coming

\* The workers counted idle are those asleep and those just woken.
LEMMA IdleStep ==
  ASSUME TypeOK, IdleInv, [Next]_vars
  PROVE  /\ IdleInv'
         /\ idle' \in Nat /\ scanning' \in Nat /\ asleep' \in Nat /\ woken' \in Nat
<1>0. CountersOK
  BY CountersAreNumbers
<1> USE <1>0 DEF poolVars, threads, IdleInv, CountersOK
<1>1. ASSUME NEW a \in Actors, NEW j \in Jobs, Submit(a, j) \/ CallInline(a, j) \/ Cancel(a, j)
      PROVE  /\ IdleInv'
             /\ idle' \in Nat /\ scanning' \in Nat /\ asleep' \in Nat /\ woken' \in Nat
  BY <1>1 DEF Submit, CallInline, Cancel
<1>2. CASE TakeJob
  <2>1. PICK left : Enter(left) /\ idle' = left /\ asleep' = asleep
    BY <1>2 DEF TakeJob
  <2> QED
    BY <2>1, EnterFacts
<1>3. CASE GoToSleep
  <2>1. PICK left : Enter(left) /\ idle' = left + 1 /\ asleep' = asleep + 1
    BY <1>3 DEF GoToSleep
  <2> QED
    BY <2>1, EnterFacts
<1>4. ASSUME NEW j \in Jobs, Work(j)
      PROVE  /\ IdleInv'
             /\ idle' \in Nat /\ scanning' \in Nat /\ asleep' \in Nat /\ woken' \in Nat
  BY <1>4 DEF Work, DoCall, JoinPending, JoinReady, JoinTaken, FinishWork, Panic, Post
<1>5. ASSUME NEW a \in Actors, Mailbox(a)
      PROVE  /\ IdleInv'
             /\ idle' \in Nat /\ scanning' \in Nat /\ asleep' \in Nat /\ woken' \in Nat
  BY <1>5 DEF Mailbox, NotifyOne, DrainMail, WaitDrain
<1>6. ASSUME NEW c \in Children, Ending(c)
      PROVE  /\ IdleInv'
             /\ idle' \in Nat /\ scanning' \in Nat /\ asleep' \in Nat /\ woken' \in Nat
  BY <1>6 DEF Ending, EndActor, CompleteTask, NotifyJoiners
<1>7. CASE Spurious
  BY <1>7 DEF Spurious, SpuriousWorker, SpuriousJoiner, SpuriousActor
<1>8. CASE AtRest \/ UNCHANGED vars
  BY <1>8 DEF AtRest, vars
<1> QED
  BY <1>1, <1>2, <1>3, <1>4, <1>5, <1>6, <1>7, <1>8 DEF Next, Progress, Calls

\* Every step keeps the types.
LEMMA TypeStep ==
  ASSUME TypeOK, IdleInv, [Next]_vars
  PROVE  TypeOK'
<1>0. idle' \in Nat /\ scanning' \in Nat /\ asleep' \in Nat /\ woken' \in Nat
  BY IdleStep
<1> USE PoolAssumption DEF TypeOK, poolVars, threads, Put, Goto, Is
<1>1. ASSUME NEW a \in Actors, NEW j \in Jobs, Submit(a, j) PROVE TypeOK'
  <2>1. queue' \in Seq(Jobs) /\ Len(queue') \in Nat
    BY <1>1 DEF Submit
  <2>2. total' \in 0..Cap
    BY <1>1, <2>1 DEF Submit, Surplus
  <2> QED
    BY <1>0, <1>1, <2>1, <2>2 DEF Submit
<1>2. ASSUME NEW a \in Actors, NEW j \in Jobs, CallInline(a, j) \/ Cancel(a, j)
      PROVE  TypeOK'
  <2>1. CASE CallInline(a, j)
    BY <2>1 DEF CallInline
  <2>2. CASE Cancel(a, j)
    BY <2>2 DEF Cancel
  <2> QED
    BY <1>2, <2>1, <2>2
<1>3. CASE TakeJob
  <2>1. queue' \in Seq(Jobs) /\ Head(queue) \in Jobs
    BY <1>3 DEF TakeJob
  <2>2. at' \in [Jobs -> {"nowhere", "queue", "work", "join_asleep", "post", "done", "dead"}]
    BY <1>3, <2>1 DEF TakeJob
  <2> QED
    BY <1>0, <1>3, <2>1, <2>2 DEF TakeJob
<1>4. CASE GoToSleep
  BY <1>0, <1>4 DEF GoToSleep
<1>5. ASSUME NEW j \in Jobs, DoCall(j) \/ JoinReady(j) \/ JoinTaken(j)
      PROVE  TypeOK'
  <2>1. PICK answer \in {"value", "outcome", "already_joined"} : FinishWork(j, answer) /\ at[j] = "work"
    BY <1>5 DEF DoCall, JoinReady, JoinTaken, TaskIs
  <2> HIDE DEF TypeOK
  <2>c. /\ got' = [got EXCEPT ![j] = answer]
        /\ FinishInline(j) \/ FinishOnWorker(j)
        /\ UNCHANGED <<queue, idle, total, scanning, asleep, woken, mail, spurious>>
    BY <2>1, FinishWorkCases
  <2> USE DEF TypeOK
  <2>2. task' \in [Children -> {"pending", "ready", "taken"}]
    BY <1>5 DEF DoCall, JoinReady, JoinTaken
  <2>3. got' \in [Jobs -> {"none", "value", "outcome", "already_joined"}]
    BY <2>c
  <2>4. /\ at' \in [Jobs -> {"nowhere", "queue", "work", "join_asleep", "post", "done", "dead"}]
        /\ fate' \in [Jobs -> {"new", "parked", "inline", "resumed", "abandoned"}]
    BY <2>c DEF FinishInline, FinishOnWorker
  <2>5. actor' \in [Actors -> {"run", "notify", "in_call", "mail_asleep", "mail_woken",
                              "complete", "notify_all", "ended"}]
    BY <2>c DEF FinishInline, FinishOnWorker
  <2>6. UNCHANGED <<queue, idle, total, scanning, asleep, woken, mail, spurious>>
    BY <2>c
  <2> QED
    BY <2>2, <2>3, <2>4, <2>5, <2>6
<1>6. ASSUME NEW j \in Jobs, JoinPending(j) \/ Panic(j) PROVE TypeOK'
  BY <1>6 DEF JoinPending, Panic
<1>7. ASSUME NEW j \in Jobs, Post(j) PROVE TypeOK'
  <2>1. mail' \in [Actors -> Seq(Jobs)]
    BY <1>7 DEF Post
  <2> QED
    BY <1>0, <1>7, <2>1 DEF Post
<1>8. ASSUME NEW a \in Actors, NotifyOne(a) PROVE TypeOK'
  BY <1>0, <1>8 DEF NotifyOne
<1>9. ASSUME NEW a \in Actors, DrainMail(a) \/ WaitDrain(a) PROVE TypeOK'
  <2>1. CASE DrainMail(a)
    <3>1. fate' \in [Jobs -> {"new", "parked", "inline", "resumed", "abandoned"}]
      BY <2>1 DEF DrainMail, Delivered
    <3>2. mail' \in [Actors -> Seq(Jobs)]
      BY <2>1 DEF DrainMail
    <3> QED
      BY <2>1, <3>1, <3>2 DEF DrainMail
  <2>2. CASE WaitDrain(a)
    BY <2>2 DEF WaitDrain
  <2> QED
    BY <1>9, <2>1, <2>2
<1>10. ASSUME NEW c \in Children, Ending(c) PROVE TypeOK'
  <2>1. CASE EndActor(c)
    BY <2>1 DEF EndActor
  <2>2. CASE CompleteTask(c)
    BY <2>2 DEF CompleteTask
  <2>3. CASE NotifyJoiners(c)
    <3>1. at' \in [Jobs -> {"nowhere", "queue", "work", "join_asleep", "post", "done", "dead"}]
      BY <2>3 DEF NotifyJoiners
    <3> QED
      BY <2>3, <3>1 DEF NotifyJoiners
  <2> QED
    BY <1>10, <2>1, <2>2, <2>3 DEF Ending
<1>11. CASE Spurious
  <2>1. spurious' \in 0..MaxSpurious /\ UNCHANGED <<queue, idle, total, scanning, mail, fate, got, task>>
    BY <1>11 DEF Spurious
  <2>2. CASE SpuriousWorker
    BY <1>0, <2>1, <2>2 DEF SpuriousWorker
  <2>3. ASSUME NEW j \in Jobs, SpuriousJoiner(j) PROVE TypeOK'
    BY <2>1, <2>3 DEF SpuriousJoiner
  <2>4. ASSUME NEW a \in Actors, SpuriousActor(a) PROVE TypeOK'
    BY <2>1, <2>4 DEF SpuriousActor
  <2> QED
    BY <1>11, <2>2, <2>3, <2>4 DEF Spurious
<1>12. CASE AtRest \/ UNCHANGED vars
  BY <1>12 DEF AtRest, vars
<1> HIDE DEF TypeOK
<1> QED
  BY <1>1, <1>2, <1>3, <1>4, <1>5, <1>6, <1>7, <1>8, <1>9, <1>10, <1>11, <1>12
  DEF Next, Progress, Work, Mailbox, Calls

-----------------------------------------------------------------------------
(* Enough workers. *)

\* The actors about to notify can be counted.
LEMMA NotifyingCounted ==
  /\ IsFiniteSet(Notifying) /\ Cardinality(Notifying) \in Nat
<1>1. IsFiniteSet(Notifying)
  BY PoolAssumption, FS_Subset DEF Notifying
<1> QED
  BY <1>1, FS_CardinalityType

\* Submit spawns for the surplus or counts on a worker its notification will
\* wake; whoever takes that worker away takes a job with it.
LEMMA SurplusStep ==
  ASSUME TypeOK, IdleInv, InlineInv, SpareInv, SurplusHasAWorker, [Next]_vars
  PROVE  SpareInv' /\ SurplusHasAWorker'
<1> DEFINE n == Cardinality(Notifying)
<1>0. IsFiniteSet(Notifying) /\ n \in Nat
  BY NotifyingCounted
<1>t. CountersOK /\ Cap \in Nat /\ total <= Cap
  BY CountersAreNumbers
<1> USE DEF CountersOK
<1>c. Coming \in Nat
  BY <1>t DEF Coming
<1>w. Len(queue) <= Coming + n \/ (total = Cap /\ asleep = 0)
  BY DEF SurplusHasAWorker, Notifying, Coming
<1>g. ASSUME NEW more \in Nat, Len(queue') <= more \/ (total' = Cap /\ asleep' = 0),
             more = Coming' + n'
      PROVE  SurplusHasAWorker'
  BY <1>g DEF SurplusHasAWorker, Notifying, Coming
<1>s. ASSUME Notifying' = Notifying, UNCHANGED <<queue, total, asleep>>,
             NEW comes \in Nat, comes >= Coming, Coming' = comes
      PROVE  SpareInv' /\ SurplusHasAWorker'
  <2>0. n' = n
    BY <1>s
  <2> HIDE DEF n
  <2>1. SpareInv'
    BY <1>s, <1>t, <1>c DEF SpareInv
  <2>2. Len(queue) <= comes + n \/ (total = Cap /\ asleep = 0)
    BY <1>0, <1>c, <1>s, <1>t, <1>w
  <2> QED
    BY <1>0, <1>g, <1>s, <2>0, <2>1, <2>2
<1> USE DEF IdleInv, poolVars, threads, Put, Goto, Is
<1>1. ASSUME NEW a \in Actors, NEW j \in Jobs, Submit(a, j)
      PROVE  SpareInv' /\ SurplusHasAWorker'
  <2>1. Notifying' = Notifying \cup {a} /\ a \notin Notifying
    BY <1>1 DEF Submit, Notifying, TypeOK
  <2>2. n' = n + 1
    BY <1>0, <2>1, FS_AddElement
  <2>3. Len(queue') = Len(queue) + 1 /\ Len(queue) \in Nat
    BY <1>1 DEF Submit, TypeOK
  <2> HIDE DEF n
  <2>4. PICK spawned \in {0, 1} : total' = total + spawned /\ scanning' = scanning + spawned
                               /\ (Surplus(queue') <=> spawned = 1)
    BY <1>1 DEF Submit
  <2>5. Coming' = Coming + spawned /\ UNCHANGED <<asleep, woken, idle>>
    BY <1>t, <1>1, <2>4 DEF Submit, Coming
  <2>6. SpareInv'
    BY <1>c, <1>t, <2>3, <2>4, <2>5 DEF Surplus, SpareInv, Coming
  <2>7. Len(queue) + 1 <= (Coming + spawned) + (n + 1) \/ (total' = Cap /\ asleep' = 0)
    BY <1>0, <1>c, <1>t, <1>w, <2>3, <2>4, <2>5 DEF Surplus
  <2>8. (Coming + spawned) + (n + 1) \in Nat
    BY <1>0, <1>c
  <2> QED
    BY <1>g, <2>2, <2>3, <2>5, <2>6, <2>7, <2>8
<1>2. ASSUME NEW a \in Actors, NEW j \in Jobs, CallInline(a, j) \/ Cancel(a, j)
      PROVE  SpareInv' /\ SurplusHasAWorker'
  <2>1. Notifying' = Notifying
    BY <1>2 DEF CallInline, Cancel, Notifying, TypeOK
  <2> QED
    BY <1>2, <1>c, <1>s, <1>t, <2>1 DEF CallInline, Cancel, Coming
<1>3. CASE TakeJob
  <2>1. n' = n
    BY <1>3 DEF TakeJob, Notifying
  <2>2. Len(queue') = Len(queue) - 1 /\ Len(queue) \in Nat
    BY <1>3 DEF TakeJob, TypeOK
  <2>3. Coming' = Coming - 1 /\ asleep' = asleep /\ total' = total /\ Coming - 1 \in Nat
    BY <1>t, <1>3, EnterFacts DEF TakeJob
  <2> HIDE DEF n
  <2>4. n' = n
    BY <2>1
  <2>5. SpareInv'
    BY <1>c, <1>t, <2>2, <2>3 DEF SpareInv
  <2>6. Len(queue') <= (Coming - 1) + n \/ (total' = Cap /\ asleep' = 0)
    BY <1>0, <1>c, <1>t, <1>w, <2>2, <2>3
  <2>7. (Coming - 1) + n \in Nat
    BY <1>0, <2>3
  <2> QED
    BY <1>g, <2>3, <2>4, <2>5, <2>6, <2>7
<1>4. CASE GoToSleep
  <2>1. n' = n
    BY <1>4 DEF GoToSleep, Notifying
  <2>2. Len(queue') = 0
    BY <1>4 DEF GoToSleep
  <2> HIDE DEF n
  <2>3. PICK comes \in Nat : comes = Coming'
    BY <1>t, <1>4, EnterFacts DEF GoToSleep
  <2>5. PICK sleepers \in Nat : sleepers = asleep'
    BY <1>t, <1>4 DEF GoToSleep
  <2>6. 0 <= comes + sleepers /\ 0 <= comes + n /\ comes + n \in Nat
    BY <1>0
  <2>7. SpareInv'
    BY <2>2, <2>3, <2>5, <2>6 DEF SpareInv
  <2> QED
    BY <1>g, <2>1, <2>2, <2>3, <2>6, <2>7
<1>5. ASSUME NEW j \in Jobs, DoCall(j) \/ JoinReady(j) \/ JoinTaken(j)
      PROVE  SpareInv' /\ SurplusHasAWorker'
  <2>1. \E answer : FinishWork(j, answer) /\ at[j] = "work"
    BY <1>5 DEF DoCall, JoinReady, JoinTaken, TaskIs
  <2>2. /\ UNCHANGED <<queue, idle, total, scanning, asleep, woken, mail, spurious>>
        /\ \/ fate[j] = "inline" /\ actor' = [actor EXCEPT ![Owner[j]] = "run"]
           \/ actor' = actor
    BY <2>1, FinishWorkCases DEF FinishInline, FinishOnWorker
  <2>3. Notifying' = Notifying
    BY <2>2, PoolAssumption DEF Notifying, InlineInv, TypeOK
  <2> QED
    BY <1>c, <1>s, <1>t, <2>2, <2>3 DEF Coming
<1>6. ASSUME NEW j \in Jobs, JoinPending(j) \/ Panic(j)
      PROVE  SpareInv' /\ SurplusHasAWorker'
  <2>1. Notifying' = Notifying
    BY <1>6 DEF JoinPending, Panic, Notifying, TypeOK
  <2> QED
    BY <1>6, <1>c, <1>s, <1>t, <2>1 DEF JoinPending, Panic, Coming
<1>7. ASSUME NEW j \in Jobs, Post(j) PROVE SpareInv' /\ SurplusHasAWorker'
  <2>1. Notifying' = Notifying
    BY <1>7 DEF Post, Notifying, TypeOK
  <2> QED
    BY <1>7, <1>c, <1>s, <1>t, <2>1 DEF Post, Coming
<1>8. ASSUME NEW a \in Actors, NotifyOne(a) PROVE SpareInv' /\ SurplusHasAWorker'
  <2>1. Notifying' = Notifying \ {a} /\ a \in Notifying
    BY <1>8 DEF NotifyOne, Notifying, TypeOK
  <2>2. n' = n - 1 /\ n' \in Nat
    BY <1>0, <2>1, FS_RemoveElement, FS_CardinalityType
  <2> HIDE DEF n
  <2>3. PICK moved \in {0, 1} : asleep' = asleep - moved /\ woken' = woken + moved
                             /\ (asleep > 0 <=> moved = 1)
    BY <1>8 DEF NotifyOne
  <2>4. Coming' = Coming + moved /\ UNCHANGED <<queue, total>>
    BY <1>t, <1>8, <2>3 DEF NotifyOne, Coming
  <2>5. SpareInv'
    BY <1>c, <1>t, <2>3, <2>4 DEF SpareInv
  <2>6. Len(queue) <= (Coming + moved) + (n - 1) \/ (total = Cap /\ asleep' = 0)
    BY <1>0, <1>c, <1>t, <1>w, <2>2, <2>3 DEF SpareInv
  <2>7. (Coming + moved) + (n - 1) \in Nat
    BY <1>c, <2>2
  <2> QED
    BY <1>g, <2>2, <2>4, <2>5, <2>6, <2>7
<1>9. ASSUME NEW a \in Actors, DrainMail(a) \/ WaitDrain(a)
      PROVE  SpareInv' /\ SurplusHasAWorker'
  <2>1. Notifying' = Notifying
    BY <1>9 DEF DrainMail, WaitDrain, Notifying, TypeOK
  <2> QED
    BY <1>9, <1>c, <1>s, <1>t, <2>1 DEF DrainMail, WaitDrain, Coming
<1>10. ASSUME NEW c \in Children, Ending(c) PROVE SpareInv' /\ SurplusHasAWorker'
  <2>1. Notifying' = Notifying
    BY <1>10 DEF Ending, EndActor, CompleteTask, NotifyJoiners, Notifying, TypeOK
  <2> QED
    BY <1>10, <1>c, <1>s, <1>t, <2>1 DEF Ending, EndActor, CompleteTask, NotifyJoiners, Coming
<1>11. CASE Spurious
  <2>1. Notifying' = Notifying
    BY <1>11 DEF Spurious, SpuriousWorker, SpuriousJoiner, SpuriousActor, Notifying, TypeOK
  <2>2. CASE UNCHANGED <<asleep, woken>>
    BY <1>11, <1>c, <1>s, <1>t, <2>1, <2>2 DEF Spurious, Coming
  <2>3. CASE SpuriousWorker
    <3>1. Coming' = Coming + 1 /\ asleep' = asleep - 1 /\ asleep > 0 /\ UNCHANGED <<queue, total>>
      BY <1>t, <1>11, <2>3 DEF Spurious, SpuriousWorker, Coming
    <3>2. n' = n
      BY <2>1
    <3> HIDE DEF n
    <3>3. SpareInv'
      BY <1>c, <1>t, <3>1 DEF SpareInv
    <3>4. Len(queue) <= (Coming + 1) + n /\ (Coming + 1) + n \in Nat
      BY <1>0, <1>c, <1>t, <1>w, <3>1
    <3> QED
      BY <1>g, <3>1, <3>2, <3>3, <3>4
  <2> QED
    BY <1>11, <2>2, <2>3 DEF Spurious, SpuriousJoiner, SpuriousActor
<1>12. CASE AtRest \/ UNCHANGED vars
  <2>1. Notifying' = Notifying
    BY <1>12 DEF AtRest, vars, Notifying
  <2> QED
    BY <1>12, <1>c, <1>s, <1>t, <2>1 DEF AtRest, vars, Coming
<1> QED
  BY <1>1, <1>2, <1>3, <1>4, <1>5, <1>6, <1>7, <1>8, <1>9, <1>10, <1>11, <1>12
  DEF Next, Progress, Work, Mailbox, Calls

-----------------------------------------------------------------------------
(* Where the jobs are. *)

\* What a step of a job does to where it is.
LEMMA WorkMoves ==
  ASSUME TypeOK, NEW j \in Jobs, Work(j)
  PROVE  /\ \E place \in {"join_asleep", "post", "done", "dead"} : at' = [at EXCEPT ![j] = place]
         /\ at[j] \in {"work", "post"} /\ queue' = queue
<1> USE DEF Put, poolVars
<1>1. CASE DoCall(j) \/ JoinReady(j) \/ JoinTaken(j)
  <2>1. at[j] = "work" /\ \E answer : FinishWork(j, answer)
    BY <1>1 DEF DoCall, JoinReady, JoinTaken, TaskIs
  <2> QED
    BY <2>1, FinishWorkCases DEF FinishInline, FinishOnWorker
<1>2. CASE JoinPending(j) \/ Panic(j) \/ Post(j)
  BY <1>2 DEF JoinPending, Panic, Post, TaskIs
<1> QED
  BY <1>1, <1>2 DEF Work

\* A job is queued once: it was nowhere before, and leaves with its worker.
LEMMA QueueStep ==
  ASSUME TypeOK, QueueInv, AnswerInv, [Next]_vars
  PROVE  QueueInv'
<1> USE DEF TypeOK, Put, poolVars
<1>s. ASSUME queue' = queue, \A j \in Jobs : at[j] = "queue" => at'[j] = "queue"
      PROVE  QueueInv'
  <2>1. \A i \in 1..Len(queue) : queue[i] \in Jobs
    OBVIOUS
  <2> HIDE DEF TypeOK
  <2> QED
    BY <1>s, <2>1 DEF QueueInv
<1>1. ASSUME NEW a \in Actors, NEW j \in Jobs, Submit(a, j) PROVE QueueInv'
  <2>1. at[j] # "queue" /\ queue' = Append(queue, j) /\ at' = [at EXCEPT ![j] = "queue"]
    BY <1>1 DEF Submit, AnswerInv
  <2>2. \A i \in 1..Len(queue) : queue[i] # j
    BY <2>1 DEF QueueInv
  <2>3. /\ Len(queue') = Len(queue) + 1 /\ queue'[Len(queue) + 1] = j
        /\ \A i \in 1..Len(queue) : queue'[i] = queue[i] /\ queue[i] \in Jobs
    BY <2>1
  <2>4. \A i \in 1..Len(queue') : at'[queue'[i]] = "queue"
    <3> SUFFICES ASSUME NEW i \in 1..Len(queue') PROVE at'[queue'[i]] = "queue"
      OBVIOUS
    <3>1. CASE i \in 1..Len(queue)
      BY <2>1, <2>3, <3>1 DEF QueueInv
    <3>2. CASE i = Len(queue) + 1
      BY <2>1, <2>3, <3>2
    <3> QED
      BY <2>3, <3>1, <3>2
  <2>5. ASSUME NEW i \in 1..Len(queue'), NEW k \in 1..Len(queue'), queue'[i] = queue'[k]
        PROVE  i = k
    <3>1. CASE i \in 1..Len(queue) /\ k \in 1..Len(queue)
      BY <2>3, <2>5, <3>1 DEF QueueInv
    <3>2. CASE i \in 1..Len(queue) /\ k = Len(queue) + 1
      BY <2>2, <2>3, <2>5, <3>2
    <3>3. CASE i = Len(queue) + 1 /\ k \in 1..Len(queue)
      BY <2>2, <2>3, <2>5, <3>3
    <3> QED
      BY <2>3, <3>1, <3>2, <3>3
  <2> QED
    BY <2>4, <2>5 DEF QueueInv
<1>2. ASSUME NEW a \in Actors, NEW j \in Jobs, CallInline(a, j) \/ Cancel(a, j) PROVE QueueInv'
  BY <1>2, <1>s DEF CallInline, Cancel, AnswerInv
<1>3. CASE TakeJob
  <2>1. /\ queue # <<>> /\ queue' = Tail(queue)
        /\ at' = [at EXCEPT ![queue[1]] = "work"]
    BY <1>3 DEF TakeJob
  <2>2. /\ Len(queue') = Len(queue) - 1 /\ 1 \in 1..Len(queue)
        /\ \A i \in 1..Len(queue') : /\ queue'[i] = queue[i + 1] /\ i + 1 \in 1..Len(queue)
                                   /\ queue[i + 1] \in Jobs /\ i + 1 # 1
    BY <2>1
  <2>3. \A i \in 1..Len(queue') : queue'[i] # queue[1]
    BY <2>2 DEF QueueInv
  <2>4. \A i \in 1..Len(queue') : at'[queue'[i]] = "queue"
    BY <2>1, <2>2, <2>3 DEF QueueInv
  <2>5. ASSUME NEW i \in 1..Len(queue'), NEW k \in 1..Len(queue'), queue'[i] = queue'[k]
        PROVE  i = k
    <3>1. i + 1 = k + 1
      BY <2>2, <2>5 DEF QueueInv
    <3>2. i \in Int /\ k \in Int
      OBVIOUS
    <3> QED
      BY <3>1, <3>2
  <2> QED
    BY <2>4, <2>5 DEF QueueInv
<1>4. ASSUME NEW j \in Jobs, Work(j) PROVE QueueInv'
  BY <1>4, <1>s, WorkMoves
<1>5. ASSUME NEW a \in Actors, Mailbox(a) PROVE QueueInv'
  BY <1>5, <1>s DEF Mailbox, NotifyOne, DrainMail, WaitDrain
<1>6. ASSUME NEW c \in Children, Ending(c) PROVE QueueInv'
  BY <1>6, <1>s DEF Ending, EndActor, CompleteTask, NotifyJoiners, Notified, JoinersAsleep
<1>7. CASE Spurious
  BY <1>7, <1>s DEF Spurious, SpuriousWorker, SpuriousJoiner, SpuriousActor
<1>8. CASE GoToSleep \/ AtRest \/ UNCHANGED vars
  BY <1>8, <1>s DEF GoToSleep, AtRest, vars
<1> HIDE DEF TypeOK
<1> QED
  BY <1>1, <1>2, <1>3, <1>4, <1>5, <1>6, <1>7, <1>8 DEF Next, Progress, Calls

\* Only the call itself brings its actor back.
LEMMA InlineStep ==
  ASSUME TypeOK, InlineInv, [Next]_vars
  PROVE  InlineInv'
<1> USE PoolAssumption DEF TypeOK, Goto, Is
<1>s. ASSUME fate' = fate, \A a \in Actors : actor[a] = "in_call" => actor'[a] = "in_call"
      PROVE  InlineInv'
  BY <1>s DEF InlineInv
<1>1. ASSUME NEW a \in Actors, NEW j \in Jobs, Submit(a, j) PROVE InlineInv'
  BY <1>1 DEF Submit, InlineInv
<1>2. ASSUME NEW a \in Actors, NEW j \in Jobs, CallInline(a, j) PROVE InlineInv'
  <2>1. \A k \in Jobs : fate[k] = "inline" => Owner[k] # a
    BY <1>2 DEF CallInline, InlineInv
  <2> QED
    BY <1>2, <2>1 DEF CallInline, InlineInv
<1>3. ASSUME NEW a \in Actors, NEW j \in Jobs, Cancel(a, j) PROVE InlineInv'
  BY <1>3 DEF Cancel, InlineInv
<1>4. ASSUME NEW j \in Jobs, DoCall(j) \/ JoinReady(j) \/ JoinTaken(j) PROVE InlineInv'
  <2>1. at[j] = "work" /\ \E answer : FinishWork(j, answer)
    BY <1>4 DEF DoCall, JoinReady, JoinTaken, TaskIs
  <2>2. CASE UNCHANGED <<actor, fate>>
    BY <1>s, <2>2
  <2>3. CASE /\ fate[j] = "inline"
             /\ actor' = [actor EXCEPT ![Owner[j]] = "run"]
             /\ fate' = [fate EXCEPT ![j] = "resumed"]
    <3>1. \A k \in Jobs : fate'[k] = "inline" => fate[k] = "inline" /\ k # j /\ Owner[k] # Owner[j]
      BY <2>3 DEF InlineInv
    <3> QED
      BY <2>3, <3>1 DEF InlineInv
  <2> HIDE DEF TypeOK
  <2> QED
    BY <2>1, <2>2, <2>3, FinishWorkCases DEF FinishInline, FinishOnWorker
<1>5. ASSUME NEW j \in Jobs, JoinPending(j) \/ Panic(j) \/ Post(j) PROVE InlineInv'
  BY <1>5, <1>s DEF JoinPending, Panic, Post
<1>6. ASSUME NEW a \in Actors, Mailbox(a) PROVE InlineInv'
  <2>1. CASE DrainMail(a)
    <3>1. \A j \in Jobs : fate'[j] = "inline" => fate[j] = "inline"
      BY <2>1 DEF DrainMail, Delivered
    <3>2. \A b \in Actors : actor[b] = "in_call" => actor'[b] = "in_call"
      BY <2>1 DEF DrainMail
    <3> QED
      BY <3>1, <3>2 DEF InlineInv
  <2>2. CASE NotifyOne(a) \/ WaitDrain(a)
    BY <1>s, <2>2 DEF NotifyOne, WaitDrain
  <2> QED
    BY <1>6, <2>1, <2>2 DEF Mailbox
<1>7. ASSUME NEW c \in Children, Ending(c) PROVE InlineInv'
  BY <1>7, <1>s DEF Ending, EndActor, CompleteTask, NotifyJoiners
<1>8. CASE Spurious
  BY <1>8, <1>s DEF Spurious, SpuriousWorker, SpuriousJoiner, SpuriousActor
<1>9. CASE TakeJob \/ GoToSleep \/ AtRest \/ UNCHANGED vars
  BY <1>9, <1>s DEF TakeJob, GoToSleep, AtRest, vars
<1> HIDE DEF TypeOK
<1> QED
  BY <1>1, <1>2, <1>3, <1>4, <1>5, <1>6, <1>7, <1>8, <1>9 DEF Next, Progress, Work, Calls

\* A call is answered only as the work on it ends.
LEMMA AnswerStep ==
  ASSUME TypeOK, QueueInv, AnswerInv, [Next]_vars
  PROVE  AnswerInv'
<1> USE PoolAssumption DEF TypeOK, Put
<1>s. ASSUME fate' = fate, got' = got, at' = at PROVE AnswerInv'
  BY <1>s DEF AnswerInv
<1>1. ASSUME NEW a \in Actors, NEW j \in Jobs, Submit(a, j) \/ CallInline(a, j) PROVE AnswerInv'
  <2>1. CASE Submit(a, j)
    BY <2>1 DEF Submit, AnswerInv
  <2>2. CASE CallInline(a, j)
    BY <2>2 DEF CallInline, AnswerInv
  <2> QED
    BY <1>1, <2>1, <2>2
<1>2. ASSUME NEW a \in Actors, NEW j \in Jobs, Cancel(a, j) PROVE AnswerInv'
  BY <1>2 DEF Cancel, IoBlocked, AnswerInv
<1>3. CASE TakeJob
  <2>1. queue[1] \in Jobs /\ at[queue[1]] = "queue"
    BY <1>3 DEF TakeJob, QueueInv
  <2>2. at' = [at EXCEPT ![queue[1]] = "work"] /\ UNCHANGED <<fate, got>>
    BY <1>3 DEF TakeJob
  <2> QED
    BY <2>1, <2>2 DEF AnswerInv
<1>4. ASSUME NEW j \in Jobs, DoCall(j) \/ JoinReady(j) \/ JoinTaken(j) PROVE AnswerInv'
  <2>1. at[j] = "work" /\ \E answer : FinishWork(j, answer)
    BY <1>4 DEF DoCall, JoinReady, JoinTaken, TaskIs
  <2>c. (\E answer : got' = [got EXCEPT ![j] = answer]) /\ (FinishInline(j) \/ FinishOnWorker(j))
    <3> HIDE DEF TypeOK
    <3> QED
      BY <2>1, FinishWorkCases
  <2>2. /\ \A k \in Jobs : k # j => got'[k] = got[k] /\ at'[k] = at[k] /\ fate'[k] = fate[k]
        /\ at'[j] \in {"post", "done"} /\ fate'[j] \in {fate[j], "resumed"}
    BY <2>c DEF FinishInline, FinishOnWorker
  <2>3. fate[j] # "new"
    BY <2>1 DEF AnswerInv
  <2> HIDE DEF TypeOK
  <2> QED
    BY <2>2, <2>3 DEF AnswerInv
<1>5. ASSUME NEW j \in Jobs, JoinPending(j) \/ Panic(j) \/ Post(j) PROVE AnswerInv'
  BY <1>5 DEF JoinPending, Panic, Post, TaskIs, AnswerInv
<1>6. ASSUME NEW a \in Actors, Mailbox(a) PROVE AnswerInv'
  <2>1. CASE DrainMail(a)
    <3>1. \A j \in Jobs : fate'[j] = "new" => fate[j] = "new"
      BY <2>1 DEF DrainMail, Delivered
    <3> QED
      BY <2>1, <3>1 DEF DrainMail, AnswerInv
  <2>2. CASE NotifyOne(a) \/ WaitDrain(a)
    BY <1>s, <2>2 DEF NotifyOne, WaitDrain
  <2> QED
    BY <1>6, <2>1, <2>2 DEF Mailbox
<1>7. ASSUME NEW c \in Children, Ending(c) PROVE AnswerInv'
  <2>1. CASE NotifyJoiners(c)
    <3>1. \A j \in Jobs : at'[j] = at[j] \/ (at[j] = "join_asleep" /\ at'[j] = "work")
      BY <2>1 DEF NotifyJoiners, Notified, JoinersAsleep
    <3> QED
      BY <2>1, <3>1 DEF NotifyJoiners, AnswerInv
  <2>2. CASE EndActor(c) \/ CompleteTask(c)
    BY <1>s, <2>2 DEF EndActor, CompleteTask
  <2> QED
    BY <1>7, <2>1, <2>2 DEF Ending
<1>8. CASE Spurious
  <2>1. CASE at' = at
    BY <1>8, <1>s, <2>1 DEF Spurious
  <2>2. ASSUME NEW j \in Jobs, SpuriousJoiner(j) PROVE AnswerInv'
    BY <1>8, <2>2 DEF Spurious, SpuriousJoiner, AnswerInv
  <2> QED
    BY <1>8, <2>1, <2>2 DEF Spurious, SpuriousWorker, SpuriousActor
<1>9. CASE GoToSleep \/ AtRest \/ UNCHANGED vars
  BY <1>9, <1>s DEF GoToSleep, AtRest, vars
<1> HIDE DEF TypeOK
<1> QED
  BY <1>1, <1>2, <1>3, <1>4, <1>5, <1>6, <1>7, <1>8, <1>9 DEF Next, Progress, Work, Calls

-----------------------------------------------------------------------------
(* Tasks and their joins. *)

\* A task is over once its actor is on its way out; nothing brings either back.
LEMMA TaskStep ==
  ASSUME TypeOK, InlineInv, TaskInv, [Next]_vars
  PROVE  TaskInv'
<1> USE PoolAssumption DEF TypeOK, Goto, Put, Is
<1>s. ASSUME task' = task,
             \A c \in Children : actor[c] \in {"notify_all", "ended"} => actor'[c] \in {"notify_all", "ended"},
             \A j \in Jobs : at'[j] = "post" => at[j] = "post"
      PROVE  TaskInv'
  <2>1. JoinJobs \subseteq Jobs
    OBVIOUS
  <2> HIDE DEF TypeOK
  <2> QED
    BY <1>s, <2>1 DEF TaskInv
<1>1. ASSUME NEW a \in Actors, NEW j \in Jobs, Submit(a, j) \/ CallInline(a, j) \/ Cancel(a, j)
      PROVE  TaskInv'
  BY <1>1, <1>s DEF Submit, CallInline, Cancel
<1>2. CASE TakeJob
  BY <1>2, <1>s DEF TakeJob
<1>3. ASSUME NEW j \in Jobs, DoCall(j) \/ JoinReady(j) \/ JoinTaken(j) PROVE TaskInv'
  <2>1. at[j] = "work" /\ \E answer : FinishWork(j, answer)
    BY <1>3 DEF DoCall, JoinReady, JoinTaken, TaskIs
  <2>c. FinishInline(j) \/ FinishOnWorker(j)
    <3> HIDE DEF TypeOK
    <3> QED
      BY <2>1, FinishWorkCases
  <2>2. \A k \in Jobs : k # j => at'[k] = at[k]
    BY <2>c DEF FinishInline, FinishOnWorker
  <2>3. \A c \in Children : actor[c] \in {"notify_all", "ended"} => actor'[c] = actor[c]
    BY <2>c DEF FinishInline, FinishOnWorker, InlineInv
  <2>4. \A c \in Children : task[c] # "pending" <=> task'[c] # "pending"
    BY <1>3 DEF DoCall, JoinReady, JoinTaken, TaskIs
  <2>5. j \in JoinJobs => task[Target[j]] # "pending"
    BY <1>3 DEF DoCall, JoinReady, JoinTaken, TaskIs
  <2> QED
    BY <2>2, <2>3, <2>4, <2>5 DEF TaskInv
<1>4. ASSUME NEW j \in Jobs, JoinPending(j) \/ Panic(j) \/ Post(j) PROVE TaskInv'
  BY <1>4, <1>s DEF JoinPending, Panic, Post
<1>5. ASSUME NEW a \in Actors, Mailbox(a) PROVE TaskInv'
  BY <1>5, <1>s DEF Mailbox, NotifyOne, DrainMail, WaitDrain
<1>6. ASSUME NEW c \in Children, Ending(c) PROVE TaskInv'
  <2>1. CASE EndActor(c)
    BY <1>s, <2>1 DEF EndActor
  <2>2. CASE CompleteTask(c)
    BY <2>2 DEF CompleteTask, TaskInv
  <2>3. CASE NotifyJoiners(c)
    <3>1. \A j \in Jobs : at'[j] = "post" => at[j] = "post"
      BY <2>3 DEF NotifyJoiners
    <3> QED
      BY <1>s, <2>3, <3>1 DEF NotifyJoiners
  <2> QED
    BY <1>6, <2>1, <2>2, <2>3 DEF Ending
<1>7. CASE Spurious
  BY <1>7, <1>s DEF Spurious, SpuriousWorker, SpuriousJoiner, SpuriousActor
<1>8. CASE GoToSleep \/ AtRest \/ UNCHANGED vars
  BY <1>8, <1>s DEF GoToSleep, AtRest, vars
<1> HIDE DEF TypeOK
<1> QED
  BY <1>1, <1>2, <1>3, <1>4, <1>5, <1>6, <1>7, <1>8 DEF Next, Progress, Work, Calls

\* A join sleeps only on a task that is not over, unless its notification is
\* still to come.
LEMMA NewsStep ==
  ASSUME TypeOK, InlineInv, TaskInv, AnswerInv, NobodySleepsThroughNews, [Next]_vars
  PROVE  NobodySleepsThroughNews'
<1> USE PoolAssumption DEF TypeOK, Goto, Put, Is
<1> DEFINE Mails == \A a \in Actors : actor[a] = "mail_asleep" => mail[a] = <<>>
           Joins == \A j \in JoinJobs : at[j] = "join_asleep" =>
                      task[Target[j]] = "pending" \/ actor[Target[j]] = "notify_all"
<1>i. /\ NobodySleepsThroughNews <=> Mails /\ Joins
      /\ NobodySleepsThroughNews' <=> Mails' /\ Joins'
  BY DEF NobodySleepsThroughNews
<1>j. JoinJobs \subseteq Jobs /\ \A j \in JoinJobs : Target[j] \in Children /\ Target[j] \in Actors
  OBVIOUS
<1>m. ASSUME mail' = mail, \A a \in Actors : actor'[a] = "mail_asleep" => actor[a] = "mail_asleep"
      PROVE  Mails'
  BY <1>i, <1>m
<1>s. ASSUME task' = task,
             \A c \in Children : actor[c] = "notify_all" => actor'[c] = "notify_all",
             \A j \in JoinJobs : at'[j] = "join_asleep" => at[j] = "join_asleep"
      PROVE  Joins'
  BY <1>i, <1>j, <1>s
<1>1. ASSUME NEW a \in Actors, NEW j \in Jobs, Submit(a, j) \/ CallInline(a, j) \/ Cancel(a, j)
      PROVE  Mails' /\ Joins'
  <2> HIDE DEF Mails, Joins
  <2> QED
    BY <1>1, <1>m, <1>s DEF Submit, CallInline, Cancel
<1>2. CASE TakeJob
  <2>1. UNCHANGED <<mail, actor, task>>
    BY <1>2 DEF TakeJob
  <2>2. \A j \in Jobs : at'[j] = "join_asleep" => at[j] = "join_asleep"
    BY <1>2 DEF TakeJob
  <2> HIDE DEF Mails, Joins
  <2> QED
    BY <1>i, <1>j, <1>m, <1>s, <2>1, <2>2
<1>3. ASSUME NEW j \in Jobs, DoCall(j) \/ JoinReady(j) \/ JoinTaken(j) PROVE Mails' /\ Joins'
  <2>1. at[j] = "work" /\ \E answer : FinishWork(j, answer)
    BY <1>3 DEF DoCall, JoinReady, JoinTaken, TaskIs
  <2>c. FinishInline(j) \/ FinishOnWorker(j)
    <3> HIDE DEF TypeOK
    <3> QED
      BY <2>1, FinishWorkCases
  <2>2. \A k \in Jobs : at'[k] = "join_asleep" => at[k] = "join_asleep"
    BY <2>c DEF FinishInline, FinishOnWorker
  <2>3. \A a \in Actors :
          actor'[a] = actor[a] \/ (actor[a] = "in_call" /\ actor'[a] = "run")
    <3>1. \/ fate[j] = "inline" /\ actor' = [actor EXCEPT ![Owner[j]] = "run"]
          \/ actor' = actor
      BY <2>c DEF FinishInline, FinishOnWorker
    <3>2. fate[j] = "inline" => actor[Owner[j]] = "in_call" /\ Owner[j] \in Actors
      BY DEF InlineInv
    <3>3. CASE fate[j] = "inline" /\ actor' = [actor EXCEPT ![Owner[j]] = "run"]
      BY <3>2, <3>3
    <3>4. CASE actor' = actor
      BY <3>4
    <3> QED
      BY <3>1, <3>3, <3>4
  <2>4. \A c \in Children : task[c] = "pending" => task'[c] = "pending"
    BY <1>3 DEF DoCall, JoinReady, JoinTaken, TaskIs
  <2>5. mail' = mail
    BY <2>1, FinishWorkCases
  <2>6. Mails'
    BY <1>m, <2>3, <2>5
  <2>7. Joins'
    BY <1>i, <1>j, <2>2, <2>3, <2>4
  <2> QED
    BY <2>6, <2>7
<1>4. ASSUME NEW j \in Jobs, JoinPending(j) \/ Panic(j) PROVE Mails' /\ Joins'
  <2>1. Mails'
    BY <1>4, <1>m DEF JoinPending, Panic
  <2>2. Joins'
    BY <1>4, <1>i, <1>j DEF JoinPending, Panic, TaskIs
  <2> QED
    BY <2>1, <2>2
<1>5. ASSUME NEW j \in Jobs, Post(j) PROVE Mails' /\ Joins'
  <2>1. Mails'
    BY <1>5, <1>i DEF Post
  <2>2. Joins'
    BY <1>5, <1>s, <1>j DEF Post
  <2> QED
    BY <2>1, <2>2
<1>6. ASSUME NEW a \in Actors, Mailbox(a) PROVE Mails' /\ Joins'
  <2>1. Joins'
    BY <1>6, <1>s DEF Mailbox, NotifyOne, DrainMail, WaitDrain
  <2>2. CASE NotifyOne(a)
    BY <1>m, <2>1, <2>2 DEF NotifyOne
  <2>3. CASE DrainMail(a)
    BY <1>i, <2>1, <2>3 DEF DrainMail
  <2>4. CASE WaitDrain(a)
    BY <1>i, <2>1, <2>4 DEF WaitDrain
  <2> QED
    BY <1>6, <2>2, <2>3, <2>4 DEF Mailbox
<1>7. ASSUME NEW c \in Children, Ending(c) PROVE Mails' /\ Joins'
  <2>1. Mails'
    BY <1>7, <1>m DEF Ending, EndActor, CompleteTask, NotifyJoiners
  <2>2. CASE EndActor(c)
    BY <1>s, <2>1, <2>2 DEF EndActor
  <2>3. CASE CompleteTask(c)
    BY <1>i, <1>j, <2>1, <2>3 DEF CompleteTask
  <2>4. CASE NotifyJoiners(c)
    <3>1. \A j \in JoinJobs : at'[j] = "join_asleep" => at[j] = "join_asleep" /\ Target[j] # c
      BY <1>j, <2>4 DEF NotifyJoiners, Notified, JoinersAsleep
    <3>2. \A b \in Actors : b # c => actor'[b] = actor[b]
      BY <2>4 DEF NotifyJoiners
    <3>3. Joins'
      BY <1>i, <1>j, <2>4, <3>1, <3>2 DEF NotifyJoiners
    <3> QED
      BY <2>1, <3>3
  <2> QED
    BY <1>7, <2>2, <2>3, <2>4 DEF Ending
<1>8. CASE Spurious
  <2>1. Mails'
    BY <1>8, <1>m DEF Spurious, SpuriousWorker, SpuriousJoiner, SpuriousActor
  <2>2. Joins'
    BY <1>8, <1>s, <1>j DEF Spurious, SpuriousWorker, SpuriousJoiner, SpuriousActor
  <2> QED
    BY <1>i, <2>1, <2>2
<1>9. CASE GoToSleep \/ AtRest \/ UNCHANGED vars
  <2>1. UNCHANGED <<mail, actor, task, at>>
    BY <1>9 DEF GoToSleep, AtRest, vars
  <2> HIDE DEF Mails, Joins
  <2> QED
    BY <1>i, <1>m, <1>s, <2>1
<1> HIDE DEF TypeOK, Mails, Joins
<1> QED
  BY <1>i, <1>1, <1>2, <1>3, <1>4, <1>5, <1>6, <1>7, <1>8, <1>9 DEF Next, Progress, Work, Calls

\* The first join that finds the task ready takes the outcome away.
LEMMA JoinedStep ==
  ASSUME TypeOK, AnswerInv, TaskInv, JoinedInv, [Next]_vars
  PROVE  JoinedInv'
<1> USE PoolAssumption DEF TypeOK
<1>j. JoinJobs \subseteq Jobs /\ \A j \in JoinJobs : Target[j] \in Children
  OBVIOUS
<1>s. ASSUME task' = task, got' = got PROVE JoinedInv'
  BY <1>s DEF JoinedInv
<1>1. ASSUME NEW j \in Jobs, DoCall(j) PROVE JoinedInv'
  <2>1. task' = task /\ j \notin JoinJobs /\ \A k \in JoinJobs : got'[k] = got[k]
    BY <1>1, <1>j DEF DoCall, FinishWork
  <2> HIDE DEF TypeOK
  <2> QED
    BY <2>1 DEF JoinedInv
<1>2. ASSUME NEW j \in Jobs, JoinReady(j) PROVE JoinedInv'
  <2>1. /\ j \in JoinJobs /\ task[Target[j]] = "ready" /\ got[j] = "none"
        /\ task' = [task EXCEPT ![Target[j]] = "taken"] /\ got' = [got EXCEPT ![j] = "outcome"]
    BY <1>2 DEF JoinReady, TaskIs, FinishWork, AnswerInv
  <2>2. \A k \in JoinJobs : Target[k] = Target[j] => got[k] \notin {"outcome", "already_joined"}
    BY <2>1 DEF JoinedInv
  <2>3. \A k \in JoinJobs : got'[k] = IF k = j THEN "outcome" ELSE got[k]
    BY <2>1, <1>j
  <2>4. \A c \in Children : task'[c] = IF c = Target[j] THEN "taken" ELSE task[c]
    BY <2>1
  <2> HIDE DEF TypeOK
  <2>5. \A k, l \in JoinJobs :
          got'[k] = "outcome" /\ got'[l] = "outcome" /\ Target[k] = Target[l] => k = l
    BY <2>1, <2>2, <2>3 DEF JoinedInv
  <2>6. \A k \in JoinJobs : got'[k] \in {"outcome", "already_joined"} => task'[Target[k]] = "taken"
    BY <1>j, <2>1, <2>3, <2>4 DEF JoinedInv
  <2>7. \A c \in Children : task'[c] = "taken" =>
          \E k \in JoinJobs : Target[k] = c /\ got'[k] = "outcome"
    BY <2>1, <2>3, <2>4 DEF JoinedInv
  <2> QED
    BY <2>5, <2>6, <2>7 DEF JoinedInv
<1>3. ASSUME NEW j \in Jobs, JoinTaken(j) PROVE JoinedInv'
  <2>1. /\ j \in JoinJobs /\ task[Target[j]] = "taken" /\ got[j] = "none"
        /\ task' = task /\ got' = [got EXCEPT ![j] = "already_joined"]
    BY <1>3 DEF JoinTaken, TaskIs, FinishWork, AnswerInv
  <2>2. \A k \in JoinJobs : got'[k] = IF k = j THEN "already_joined" ELSE got[k]
    BY <2>1, <1>j
  <2> HIDE DEF TypeOK
  <2> QED
    BY <2>1, <2>2 DEF JoinedInv
<1>4. ASSUME NEW c \in Children, CompleteTask(c) PROVE JoinedInv'
  <2>1. task[c] = "pending" /\ task' = [task EXCEPT ![c] = "ready"] /\ got' = got
    BY <1>4 DEF CompleteTask, TaskInv, Is
  <2>2. \A b \in Children : task'[b] = "taken" <=> task[b] = "taken"
    BY <2>1
  <2> HIDE DEF TypeOK
  <2> QED
    BY <1>j, <2>1, <2>2 DEF JoinedInv
<1>5. ASSUME NEW a \in Actors, Calls(a) \/ Mailbox(a) PROVE JoinedInv'
  BY <1>5, <1>s DEF Calls, Submit, CallInline, Cancel, Mailbox, NotifyOne, DrainMail, WaitDrain
<1>6. ASSUME NEW j \in Jobs, JoinPending(j) \/ Panic(j) \/ Post(j) PROVE JoinedInv'
  BY <1>6, <1>s DEF JoinPending, Panic, Post
<1>7. ASSUME NEW c \in Children, EndActor(c) \/ NotifyJoiners(c) PROVE JoinedInv'
  BY <1>7, <1>s DEF EndActor, NotifyJoiners
<1>8. CASE TakeJob \/ GoToSleep \/ Spurious \/ AtRest \/ UNCHANGED vars
  BY <1>8, <1>s DEF TakeJob, GoToSleep, Spurious, AtRest, vars
<1> HIDE DEF TypeOK
<1> QED
  BY <1>1, <1>2, <1>3, <1>4, <1>5, <1>6, <1>7, <1>8 DEF Next, Progress, Work, Ending

-----------------------------------------------------------------------------
(* Mailboxes. *)

\* A mailbox holds answers to its owner's calls, whose work is done for good.
LEMMA MailStep ==
  ASSUME TypeOK, QueueInv, AnswerInv, MailInv, [Next]_vars
  PROVE  MailInv'
<1> USE PoolAssumption DEF TypeOK, Put
<1>e. ASSUME NEW a \in Actors PROVE Elems(mail[a]) \subseteq Jobs
  <2>1. mail[a] \in Seq(Jobs)
    OBVIOUS
  <2> QED
    BY <2>1, ElemsFacts
<1>s. ASSUME mail' = mail, \A j \in Jobs : at[j] = "done" => at'[j] = "done"
      PROVE  MailInv'
  BY <1>e, <1>s DEF MailInv
<1>1. ASSUME NEW a \in Actors, NEW j \in Jobs, Submit(a, j) \/ CallInline(a, j) \/ Cancel(a, j)
      PROVE  MailInv'
  BY <1>1, <1>s DEF Submit, CallInline, Cancel, AnswerInv
<1>2. CASE TakeJob
  <2>1. queue[1] \in Jobs /\ at[queue[1]] = "queue" /\ at' = [at EXCEPT ![queue[1]] = "work"]
    BY <1>2 DEF TakeJob, QueueInv
  <2> QED
    BY <1>2, <1>s, <2>1 DEF TakeJob
<1>3. ASSUME NEW j \in Jobs, DoCall(j) \/ JoinReady(j) \/ JoinTaken(j) PROVE MailInv'
  <2>1. at[j] = "work" /\ \E answer : FinishWork(j, answer)
    BY <1>3 DEF DoCall, JoinReady, JoinTaken, TaskIs
  <2>2. mail' = mail /\ \E place : at' = [at EXCEPT ![j] = place]
    BY <2>1, FinishWorkCases DEF FinishInline, FinishOnWorker
  <2> QED
    BY <1>s, <2>1, <2>2
<1>4. ASSUME NEW j \in Jobs, JoinPending(j) \/ Panic(j) PROVE MailInv'
  BY <1>4, <1>s DEF JoinPending, Panic, TaskIs
<1>5. ASSUME NEW j \in Jobs, Post(j) PROVE MailInv'
  <2>1. \A a \in Actors : Elems(mail'[a]) \subseteq Elems(mail[a]) \cup (IF a = Owner[j] THEN {j} ELSE {})
    <3> SUFFICES ASSUME NEW a \in Actors
                 PROVE  Elems(mail'[a]) \subseteq Elems(mail[a]) \cup (IF a = Owner[j] THEN {j} ELSE {})
      OBVIOUS
    <3>1. CASE a = Owner[j]
      <4>1. mail'[a] = Append(mail[a], j)
        BY <1>5, <3>1 DEF Post
      <4> QED
        BY <3>1, <4>1, ElemsOfAppend
    <3>2. CASE a # Owner[j]
      BY <1>5, <3>2 DEF Post
    <3> QED
      BY <3>1, <3>2
  <2>2. \A k \in Jobs : at'[k] = IF k = j THEN "done" ELSE at[k]
    BY <1>5 DEF Post
  <2> QED
    BY <1>e, <2>1, <2>2 DEF MailInv
<1>6. ASSUME NEW a \in Actors, Mailbox(a) PROVE MailInv'
  <2>1. CASE DrainMail(a)
    <3>1. at' = at /\ \A b \in Actors : mail'[b] = IF b = a THEN <<>> ELSE mail[b]
      BY <2>1 DEF DrainMail
    <3>2. Elems(<<>>) = {}
      BY DEF Elems
    <3> QED
      BY <3>1, <3>2 DEF MailInv
  <2>2. CASE NotifyOne(a) \/ WaitDrain(a)
    BY <1>s, <2>2 DEF NotifyOne, WaitDrain
  <2> QED
    BY <1>6, <2>1, <2>2 DEF Mailbox
<1>7. ASSUME NEW c \in Children, Ending(c) PROVE MailInv'
  BY <1>7, <1>s DEF Ending, EndActor, CompleteTask, NotifyJoiners, Notified, JoinersAsleep
<1>8. CASE Spurious
  BY <1>8, <1>s DEF Spurious, SpuriousWorker, SpuriousJoiner, SpuriousActor
<1>9. CASE GoToSleep \/ AtRest \/ UNCHANGED vars
  BY <1>9, <1>s DEF GoToSleep, AtRest, vars
<1> HIDE DEF TypeOK
<1> QED
  BY <1>1, <1>2, <1>3, <1>4, <1>5, <1>6, <1>7, <1>8, <1>9 DEF Next, Progress, Work, Calls

-----------------------------------------------------------------------------
(* The invariants. *)

\* The inductive invariant holds at the start, is kept by every step, and so
\* holds always.
LEMMA InvInit == Init => IInv
<1> SUFFICES ASSUME Init PROVE IInv
  OBVIOUS
<1>1. TypeOK
  BY PoolAssumption DEF Init, TypeOK
<1>2. IdleInv /\ SpareInv
  BY DEF Init, IdleInv, SpareInv, Coming
<1>3. QueueInv /\ InlineInv /\ AnswerInv
  BY DEF Init, QueueInv, InlineInv, AnswerInv
<1>4. TaskInv /\ JoinedInv
  BY PoolAssumption DEF Init, TaskInv, JoinedInv
<1>5. MailInv
  BY DEF Init, MailInv, Elems
<1>6. SurplusHasAWorker
  <2>1. Cardinality({a \in Actors : Is(a, "notify")}) \in Nat
    BY NotifyingCounted DEF Notifying
  <2> QED
    BY <2>1 DEF Init, SurplusHasAWorker
<1>7. NobodySleepsThroughNews
  BY PoolAssumption DEF Init, NobodySleepsThroughNews, Is
<1> QED
  BY <1>1, <1>2, <1>3, <1>4, <1>5, <1>6, <1>7 DEF IInv

\* The invariant is inductive.
LEMMA InvStep == IInv /\ [Next]_vars => IInv'
<1> SUFFICES ASSUME IInv, [Next]_vars PROVE IInv'
  OBVIOUS
<1>1. TypeOK' /\ IdleInv'
  BY TypeStep, IdleStep DEF IInv
<1>2. SpareInv' /\ SurplusHasAWorker'
  BY SurplusStep DEF IInv
<1>3. QueueInv' /\ InlineInv' /\ AnswerInv'
  BY QueueStep, InlineStep, AnswerStep DEF IInv
<1>4. TaskInv' /\ JoinedInv' /\ NobodySleepsThroughNews'
  BY TaskStep, JoinedStep, NewsStep DEF IInv
<1>5. MailInv'
  BY MailStep DEF IInv
<1> QED
  BY <1>1, <1>2, <1>3, <1>4, <1>5 DEF IInv

\* So it always holds.
LEMMA InvAlways == Spec => []IInv
BY InvInit, InvStep, PTL DEF Spec

\* The pool, its mailboxes and the tasks are well typed; in particular
\* PoolInner::total never exceeds the soft cap.
THEOREM TypeCorrect == Spec => []TypeOK
<1>1. IInv => TypeOK
  BY DEF IInv
<1> QED
  BY <1>1, InvAlways, PTL

\* However many submits outrun the workers they woke, a queued job has a worker
\* on its way to it or all the workers of the cap are busy (Pool::submit).
THEOREM SurplusHasAWorkerAlways == Spec => []SurplusHasAWorker
<1>1. IInv => SurplusHasAWorker
  BY DEF IInv
<1> QED
  BY <1>1, InvAlways, PTL

\* No actor sleeps in wait_drain on an answer, and no join on a task whose
\* notification has been sent (CompletionMailbox, TaskInner).
THEOREM NobodySleepsThroughNewsAlways == Spec => []NobodySleepsThroughNews
<1>1. IInv => NobodySleepsThroughNews
  BY DEF IInv
<1> QED
  BY <1>1, InvAlways, PTL

\* A task's outcome goes to exactly one of its joins, whichever worker or actor
\* they run on, and no other is told so before (TaskInner::join).
THEOREM OneJoinGetsTheOutcomeAlways == Spec => []OneJoinGetsTheOutcome
<1>1. ASSUME IInv PROVE OneJoinGetsTheOutcome
  <2> DEFINE joins(c, answer) == {j \in JoinJobs : Target[j] = c /\ got[j] = answer}
  <2> SUFFICES ASSUME NEW c \in Children
               PROVE  /\ Cardinality(joins(c, "outcome")) <= 1
                      /\ joins(c, "already_joined") # {} => joins(c, "outcome") # {}
                      /\ joins(c, "outcome") # {} <=> task[c] = "taken"
    BY DEF OneJoinGetsTheOutcome
  <2>1. joins(c, "outcome") # {} <=> task[c] = "taken"
    BY <1>1 DEF IInv, JoinedInv
  <2>2. joins(c, "already_joined") # {} => task[c] = "taken"
    BY <1>1 DEF IInv, JoinedInv
  <2>3. Cardinality(joins(c, "outcome")) <= 1
    <3>1. CASE joins(c, "outcome") = {}
      BY <3>1, FS_EmptySet
    <3>2. CASE joins(c, "outcome") # {}
      <4>1. PICK j \in JoinJobs : joins(c, "outcome") = {j}
        BY <1>1, <3>2 DEF IInv, JoinedInv
      <4>2. Cardinality({j}) = 1
        BY FS_Singleton
      <4> QED
        BY <4>1, <4>2
    <3> QED
      BY <3>1, <3>2
  <2> QED
    BY <2>1, <2>2, <2>3
<1> QED
  BY <1>1, InvAlways, PTL

-----------------------------------------------------------------------------
(* The refinement. *)

\* An actor that a panic took in a call never comes back.
LEMMA DeathIsFinal ==
  ASSUME IInv, [Next]_vars, NEW a \in Actors, DiedInCall(a)
  PROVE  DiedInCall(a)'
<1> USE PoolAssumption DEF IInv, TypeOK, Put
<1>0. PICK j \in Jobs : Owner[j] = a /\ fate[j] = "inline" /\ at[j] = "dead"
  BY DEF DiedInCall
<1> SUFFICES fate'[j] = "inline" /\ at'[j] = "dead"
  BY <1>0 DEF DiedInCall
<1>1. ASSUME NEW b \in Actors, NEW k \in Jobs, Submit(b, k) \/ CallInline(b, k) \/ Cancel(b, k)
      PROVE  fate'[j] = "inline" /\ at'[j] = "dead"
  <2>1. k # j
    BY <1>0, <1>1 DEF Submit, CallInline, Cancel, IoBlocked
  <2> QED
    BY <1>0, <1>1, <2>1 DEF Submit, CallInline, Cancel
<1>2. CASE TakeJob
  <2>1. at[queue[1]] = "queue" /\ at' = [at EXCEPT ![queue[1]] = "work"] /\ fate' = fate
    BY <1>2 DEF TakeJob, QueueInv
  <2> QED
    BY <1>0, <2>1
<1>3. ASSUME NEW k \in Jobs, DoCall(k) \/ JoinReady(k) \/ JoinTaken(k)
      PROVE  fate'[j] = "inline" /\ at'[j] = "dead"
  <2>1. at[k] = "work" /\ \E answer : FinishWork(k, answer)
    BY <1>3 DEF DoCall, JoinReady, JoinTaken, TaskIs
  <2>2. k # j
    BY <1>0, <2>1
  <2>3. /\ \E place : at' = [at EXCEPT ![k] = place]
        /\ fate' = fate \/ fate' = [fate EXCEPT ![k] = "resumed"]
    BY <2>1, FinishWorkCases DEF FinishInline, FinishOnWorker
  <2> QED
    BY <1>0, <2>2, <2>3
<1>4. ASSUME NEW k \in Jobs, JoinPending(k) \/ Panic(k) \/ Post(k)
      PROVE  fate'[j] = "inline" /\ at'[j] = "dead"
  BY <1>0, <1>4 DEF JoinPending, Panic, Post, TaskIs
<1>5. ASSUME NEW b \in Actors, Mailbox(b) PROVE fate'[j] = "inline" /\ at'[j] = "dead"
  <2>1. at' = at /\ (fate' = fate \/ fate' = Delivered(b))
    BY <1>5 DEF Mailbox, NotifyOne, DrainMail, WaitDrain
  <2> QED
    BY <1>0, <2>1 DEF Delivered
<1>6. ASSUME NEW c \in Children, Ending(c) PROVE fate'[j] = "inline" /\ at'[j] = "dead"
  BY <1>0, <1>6 DEF Ending, EndActor, CompleteTask, NotifyJoiners, Notified, JoinersAsleep
<1>7. CASE Spurious
  BY <1>0, <1>7 DEF Spurious, SpuriousWorker, SpuriousJoiner, SpuriousActor
<1>8. CASE GoToSleep \/ AtRest \/ UNCHANGED vars
  BY <1>0, <1>8 DEF GoToSleep, AtRest, vars
<1> HIDE DEF TypeOK
<1> QED
  BY <1>1, <1>2, <1>3, <1>4, <1>5, <1>6, <1>7, <1>8 DEF Next, Progress, Work, Calls

\* An actor that waits for answers none of which is to come waits for ever: it
\* makes no call, and nobody else makes one for it.
LEMMA WaitIsFinal ==
  ASSUME IInv, [Next]_vars, NEW a \in Actors, WaitsForNothing(a)
  PROVE  WaitsForNothing(a)'
<1> USE PoolAssumption DEF IInv, TypeOK, Put, Goto, Is
<1> DEFINE Over(j) == at[j] \in {"nowhere", "done", "dead"}
<1>0. /\ actor[a] \in {"mail_asleep", "mail_woken"} /\ mail[a] = <<>>
      /\ \A j \in Jobs : Owner[j] = a => Over(j)
  BY DEF WaitsForNothing
<1>s. ASSUME actor'[a] \in {"mail_asleep", "mail_woken"}, mail'[a] = <<>>,
             \A j \in Jobs : Owner[j] = a => Over(j)'
      PROVE  WaitsForNothing(a)'
  BY <1>s DEF WaitsForNothing
<1>1. ASSUME NEW b \in Actors, NEW k \in Jobs, Submit(b, k) \/ CallInline(b, k) \/ Cancel(b, k)
      PROVE  WaitsForNothing(a)'
  <2>1. b # a /\ Owner[k] = b
    BY <1>0, <1>1 DEF Submit, CallInline, Cancel, IoBlocked
  <2>2. mail' = mail /\ actor'[a] = actor[a]
    BY <1>1, <2>1 DEF Submit, CallInline, Cancel
  <2>3. \A j \in Jobs : j # k => at'[j] = at[j]
    BY <1>1 DEF Submit, CallInline, Cancel
  <2> QED
    BY <1>0, <1>s, <2>1, <2>2, <2>3
<1>2. CASE TakeJob
  <2>1. queue[1] \in Jobs /\ at[queue[1]] = "queue" /\ at' = [at EXCEPT ![queue[1]] = "work"]
    BY <1>2 DEF TakeJob, QueueInv
  <2>2. Owner[queue[1]] # a
    BY <1>0, <2>1
  <2>3. UNCHANGED <<actor, mail>>
    BY <1>2 DEF TakeJob
  <2> QED
    BY <1>0, <1>s, <2>1, <2>2, <2>3
<1>3. ASSUME NEW k \in Jobs, DoCall(k) \/ JoinReady(k) \/ JoinTaken(k)
      PROVE  WaitsForNothing(a)'
  <2>1. at[k] = "work" /\ \E answer : FinishWork(k, answer)
    BY <1>3 DEF DoCall, JoinReady, JoinTaken, TaskIs
  <2>2. Owner[k] # a
    BY <1>0, <2>1
  <2>3. /\ mail' = mail /\ \E place : at' = [at EXCEPT ![k] = place]
        /\ actor' = actor \/ actor' = [actor EXCEPT ![Owner[k]] = "run"]
    BY <2>1, FinishWorkCases DEF FinishInline, FinishOnWorker
  <2>4. actor'[a] = actor[a]
    BY <2>2, <2>3
  <2>5. \A j \in Jobs : Owner[j] = a => at'[j] = at[j]
    BY <2>2, <2>3
  <2> QED
    BY <1>0, <1>s, <2>3, <2>4, <2>5
<1>4. ASSUME NEW k \in Jobs, JoinPending(k) \/ Panic(k)
      PROVE  WaitsForNothing(a)'
  <2>1. Owner[k] # a
    BY <1>0, <1>4 DEF JoinPending, Panic, TaskIs
  <2> QED
    BY <1>0, <1>4, <1>s, <2>1 DEF JoinPending, Panic
<1>5. ASSUME NEW k \in Jobs, Post(k) PROVE WaitsForNothing(a)'
  <2>1. Owner[k] # a
    BY <1>0, <1>5 DEF Post
  <2>2. mail'[a] = mail[a] /\ actor'[a] = actor[a]
    BY <1>5, <2>1 DEF Post
  <2>3. at' = [at EXCEPT ![k] = "done"]
    BY <1>5 DEF Post
  <2> QED
    BY <1>0, <1>s, <2>1, <2>2, <2>3
<1>6. ASSUME NEW b \in Actors, Mailbox(b) PROVE WaitsForNothing(a)'
  <2>1. at' = at /\ mail'[a] = <<>>
    BY <1>0, <1>6 DEF Mailbox, NotifyOne, DrainMail, WaitDrain
  <2>2. actor'[a] \in {"mail_asleep", "mail_woken"}
    BY <1>0, <1>6 DEF Mailbox, NotifyOne, DrainMail, WaitDrain
  <2> QED
    BY <1>0, <1>s, <2>1, <2>2
<1>7. ASSUME NEW c \in Children, Ending(c) PROVE WaitsForNothing(a)'
  <2>1. mail' = mail /\ actor'[a] = actor[a]
    BY <1>0, <1>7 DEF Ending, EndActor, CompleteTask, NotifyJoiners
  <2>2. \A j \in Jobs : Over(j) => Over(j)'
    BY <1>7 DEF Ending, EndActor, CompleteTask, NotifyJoiners, Notified, JoinersAsleep
  <2> QED
    BY <1>0, <1>s, <2>1, <2>2
<1>8. CASE Spurious
  <2>1. mail' = mail /\ actor'[a] \in {"mail_asleep", "mail_woken"}
    BY <1>0, <1>8 DEF Spurious, SpuriousWorker, SpuriousJoiner, SpuriousActor
  <2>2. \A j \in Jobs : Over(j) => Over(j)'
    BY <1>8 DEF Spurious, SpuriousWorker, SpuriousJoiner, SpuriousActor
  <2> QED
    BY <1>0, <1>s, <2>1, <2>2
<1>9. CASE GoToSleep \/ AtRest \/ UNCHANGED vars
  <2>1. UNCHANGED <<actor, mail, at>>
    BY <1>9 DEF GoToSleep, AtRest, vars
  <2> QED
    BY <1>0, <1>s, <2>1
<1> HIDE DEF TypeOK
<1> QED
  BY <1>1, <1>2, <1>3, <1>4, <1>5, <1>6, <1>7, <1>8, <1>9 DEF Next, Progress, Work, Calls

\* A job that a panic took is over for good.
LEMMA DeadIsFinal ==
  ASSUME IInv, [Next]_vars, NEW j \in Jobs, at[j] = "dead"
  PROVE  at'[j] = "dead"
<1> USE PoolAssumption DEF IInv, TypeOK, Put
<1>1. ASSUME NEW b \in Actors, NEW k \in Jobs, Submit(b, k) \/ CallInline(b, k) \/ Cancel(b, k)
      PROVE  at'[j] = "dead"
  BY <1>1 DEF Submit, CallInline, Cancel, AnswerInv
<1>2. CASE TakeJob
  <2>1. at[queue[1]] = "queue" /\ at' = [at EXCEPT ![queue[1]] = "work"]
    BY <1>2 DEF TakeJob, QueueInv
  <2> QED
    BY <2>1
<1>3. ASSUME NEW k \in Jobs, Work(k) PROVE at'[j] = "dead"
  BY <1>3, WorkMoves
<1>4. ASSUME NEW b \in Actors, Mailbox(b) PROVE at'[j] = "dead"
  BY <1>4 DEF Mailbox, NotifyOne, DrainMail, WaitDrain
<1>5. ASSUME NEW c \in Children, Ending(c) PROVE at'[j] = "dead"
  BY <1>5 DEF Ending, EndActor, CompleteTask, NotifyJoiners, Notified, JoinersAsleep
<1>6. CASE Spurious
  BY <1>6 DEF Spurious, SpuriousWorker, SpuriousJoiner, SpuriousActor
<1>7. CASE GoToSleep \/ AtRest \/ UNCHANGED vars
  BY <1>7 DEF GoToSleep, AtRest, vars
<1> HIDE DEF TypeOK
<1> QED
  BY <1>1, <1>2, <1>3, <1>4, <1>5, <1>6, <1>7 DEF Next, Progress, Calls

\* A call that is lost stays so, and is not on its way to a mailbox.
LEMMA LostIsFinal ==
  ASSUME IInv, [Next]_vars, NEW j \in Jobs, Lost(j)
  PROVE  Lost(j)' /\ at[j] # "post"
<1>0. j \in JoinJobs => Target[j] \in Children /\ Target[j] \in Actors
  BY PoolAssumption
<1>1. Lost(j)'
  BY <1>0, DeadIsFinal, DeathIsFinal, WaitIsFinal DEF Lost
<1>2. ASSUME j \in JoinJobs, at[j] = "post" PROVE ~ DiedInCall(Target[j]) /\ ~ WaitsForNothing(Target[j])
  <2>1. actor[Target[j]] \in {"notify_all", "ended"}
    BY <1>0, <1>2 DEF IInv, TaskInv
  <2> QED
    BY <2>1 DEF IInv, InlineInv, Is, DiedInCall, WaitsForNothing
<1> QED
  BY <1>1, <1>2 DEF Lost

-----------------------------------------------------------------------------
\* A call keeps its place in its life, or moves on in it.
MovesOn(j) == Status(j)' = Status(j) \/ <<Status(j), Status(j)'>> \in Service!Moves

\* A call that is neither delivered nor resumed can at most be lost.
LEMMA Unmoved ==
  ASSUME IInv, [Next]_vars, NEW j \in Jobs, fate'[j] = fate[j],
         (j \in Elems(mail[Owner[j]]))' <=> j \in Elems(mail[Owner[j]])
  PROVE  MovesOn(j)
<1>1. Lost(j) => Lost(j)'
  BY LostIsFinal
<1> QED
  BY <1>1 DEF MovesOn, Status, Service!Moves

\* Every step of the pool moves each call on, or leaves it.
LEMMA ServiceStep ==
  ASSUME IInv, [Next]_vars, NEW j \in Jobs
  PROVE  MovesOn(j)
<1> USE PoolAssumption DEF TypeOK, Put
<1>t. TypeOK
  BY DEF IInv
<1>s. ASSUME fate' = fate, mail' = mail PROVE MovesOn(j)
  BY <1>s, Unmoved
<1>1. ASSUME NEW a \in Actors, NEW k \in Jobs, Submit(a, k) PROVE MovesOn(j)
  <2>1. CASE j # k
    BY <1>t, <1>1, <2>1, Unmoved DEF Submit
  <2>2. CASE j = k
    <3>1. fate[j] = "new" /\ fate'[j] = "parked" /\ mail' = mail
      BY <1>t, <1>1, <2>2 DEF Submit
    <3>2. j \notin Elems(mail[Owner[j]])
      BY <3>1 DEF IInv, AnswerInv, MailInv
    <3> QED
      BY <3>1, <3>2 DEF MovesOn, Status, Service!Moves
  <2> QED
    BY <2>1, <2>2
<1>2. ASSUME NEW a \in Actors, NEW k \in Jobs, CallInline(a, k) PROVE MovesOn(j)
  <2>1. CASE j # k
    BY <1>t, <1>2, <2>1, Unmoved DEF CallInline
  <2>2. CASE j = k
    <3>1. fate[j] = "new" /\ fate'[j] = "inline"
      BY <1>t, <1>2, <2>2 DEF CallInline
    <3> QED
      BY <3>1 DEF MovesOn, Status
  <2> QED
    BY <2>1, <2>2
<1>3. ASSUME NEW a \in Actors, NEW k \in Jobs, Cancel(a, k) PROVE MovesOn(j)
  <2>1. CASE j # k
    BY <1>t, <1>3, <2>1, Unmoved DEF Cancel
  <2>2. CASE j = k
    <3>1. fate[j] = "parked" /\ fate'[j] = "abandoned"
      BY <1>t, <1>3, <2>2 DEF Cancel, IoBlocked
    <3> QED
      BY <3>1 DEF MovesOn, Status, Service!Moves
  <2> QED
    BY <2>1, <2>2
<1>4. ASSUME NEW k \in Jobs, DoCall(k) \/ JoinReady(k) \/ JoinTaken(k) PROVE MovesOn(j)
  <2>1. at[k] = "work" /\ \E answer : FinishWork(k, answer)
    BY <1>4 DEF DoCall, JoinReady, JoinTaken, TaskIs
  <2>2. mail' = mail /\ (fate' = fate \/ (fate[k] = "inline" /\ fate' = [fate EXCEPT ![k] = "resumed"]))
    BY <1>t, <2>1, FinishWorkCases DEF FinishInline, FinishOnWorker
  <2>3. CASE fate'[j] = fate[j]
    BY <2>2, <2>3, Unmoved
  <2>4. CASE fate[j] = "inline" /\ fate'[j] = "resumed"
    BY <2>4 DEF MovesOn, Status, Service!Moves
  <2> QED
    BY <1>t, <2>2, <2>3, <2>4
<1>5. ASSUME NEW k \in Jobs, JoinPending(k) \/ Panic(k) PROVE MovesOn(j)
  BY <1>5, <1>s DEF JoinPending, Panic
<1>6. ASSUME NEW k \in Jobs, Post(k) PROVE MovesOn(j)
  <2>1. fate' = fate /\ mail' = [mail EXCEPT ![Owner[k]] = Append(mail[Owner[k]], k)] /\ at[k] = "post"
    BY <1>6 DEF Post
  <2>2. Elems(mail'[Owner[k]]) = Elems(mail[Owner[k]]) \cup {k}
    BY <1>t, <2>1, ElemsOfAppend
  <2>3. CASE j # k
    <3>1. (j \in Elems(mail[Owner[j]]))' <=> j \in Elems(mail[Owner[j]])
      <4>1. CASE Owner[j] = Owner[k]
        BY <2>2, <2>3, <4>1
      <4>2. CASE Owner[j] # Owner[k]
        BY <1>t, <2>1, <4>2
      <4> QED
        BY <4>1, <4>2
    <3> QED
      BY <2>1, <3>1, Unmoved
  <2>4. CASE j = k
    <3>1. ~ Lost(j)
      BY <2>1, <2>4, LostIsFinal
    <3>2. j \notin Elems(mail[Owner[j]]) /\ j \in Elems(mail'[Owner[j]])
      BY <2>1, <2>2, <2>4 DEF IInv, MailInv
    <3> QED
      BY <2>1, <3>1, <3>2 DEF MovesOn, Status, Service!Moves
  <2> QED
    BY <2>3, <2>4
<1>7. ASSUME NEW a \in Actors, DrainMail(a) PROVE MovesOn(j)
  <2>1. fate' = Delivered(a) /\ mail' = [mail EXCEPT ![a] = <<>>]
    BY <1>7 DEF DrainMail
  <2>2. Elems(<<>>) = {}
    BY DEF Elems
  <2>3. CASE j \in Elems(mail[a]) /\ fate[j] = "parked"
    <3>1. Owner[j] = a /\ fate'[j] = "resumed"
      BY <2>1, <2>3 DEF IInv, MailInv, Delivered
    <3> QED
      BY <2>3, <3>1 DEF MovesOn, Status, Service!Moves
  <2>4. CASE fate[j] # "parked"
    <3>1. fate'[j] = fate[j]
      BY <2>1, <2>4 DEF Delivered
    <3> QED
      BY <2>4, <3>1 DEF MovesOn, Status
  <2>5. CASE j \notin Elems(mail[a])
    <3>1. fate'[j] = fate[j]
      BY <2>1, <2>5 DEF Delivered
    <3>2. (j \in Elems(mail[Owner[j]]))' <=> j \in Elems(mail[Owner[j]])
      <4>1. CASE Owner[j] = a
        <5>1. mail'[Owner[j]] = <<>>
          BY <1>t, <2>1, <4>1
        <5> QED
          BY <2>2, <2>5, <4>1, <5>1
      <4>2. CASE Owner[j] # a
        BY <1>t, <2>1, <4>2
      <4> QED
        BY <4>1, <4>2
    <3> QED
      BY <3>1, <3>2, Unmoved
  <2> QED
    BY <2>3, <2>4, <2>5
<1>8. ASSUME NEW a \in Actors, NotifyOne(a) \/ WaitDrain(a) PROVE MovesOn(j)
  BY <1>8, <1>s DEF NotifyOne, WaitDrain
<1>9. ASSUME NEW c \in Children, Ending(c) PROVE MovesOn(j)
  BY <1>9, <1>s DEF Ending, EndActor, CompleteTask, NotifyJoiners
<1>10. CASE TakeJob \/ GoToSleep \/ Spurious \/ AtRest \/ UNCHANGED vars
  BY <1>10, <1>s DEF TakeJob, GoToSleep, Spurious, AtRest, vars
<1> HIDE DEF TypeOK
<1> QED
  BY <1>1, <1>2, <1>3, <1>4, <1>5, <1>6, <1>7, <1>8, <1>9, <1>10
  DEF Next, Progress, Work, Mailbox, Calls

\* The pool carries blocking calls out as JobService promises, whatever the
\* number of actors, workers and joins: an answer comes at most once, a
\* coroutine is resumed after it and once, and a call is lost only to a panic
\* (that it is answered in the end is Service!Answered, which TLC checks).
THEOREM SafetyOfJobService == Spec => Service!Safety
<1>1. Init => Service!Init
  <2> SUFFICES ASSUME Init PROVE \A j \in Jobs : Status(j) = "new"
    BY DEF Service!Init
  <2> QED
    BY DEF Init, Status
<1>2. IInv /\ IInv' /\ [Next]_vars => Service!Next
  <2> SUFFICES ASSUME IInv, IInv', [Next]_vars PROVE Service!Next
    OBVIOUS
  <2>1. \A j \in Jobs : Status(j)' \in Service!Statuses
    <3> SUFFICES ASSUME NEW j \in Jobs PROVE Status(j)' \in Service!Statuses
      OBVIOUS
    <3> QED
      BY DEF IInv, TypeOK, Status, Service!Statuses
  <2>2. \A j \in Jobs : MovesOn(j)
    BY ServiceStep
  <2> QED
    BY <2>1, <2>2 DEF Service!Next, MovesOn
<1> QED
  BY <1>1, <1>2, InvAlways, PTL DEF Spec, Service!Safety

=============================================================================
