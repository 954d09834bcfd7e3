-------------------------- MODULE GreenOutcomes_proofs --------------------------
(***************************************************************************)
(* Machine-checked proofs about what the coroutines of GreenThreads are    *)
(* told, for any number of coroutines, jobs, deferreds and clock ticks:    *)
(*   CancelFiresOncePerRequestAlways  Spec => CancelFiresOncePerRequest    *)
(*   HostYieldNeverEscapesAlways      Spec => []HostYieldNeverEscapes      *)
(*                                    where BlockingTimersOk               *)
(*   DeliversWhatIsAwaitedAlways      Spec => []DeliversWhatIsAwaited      *)
(* They rest on the places of GreenThreads_proofs (PlaceInv) and on four   *)
(* invariants more: which outcomes can be where (OutcomeInv), what a       *)
(* parked coroutine's code waits for (SiteInv), which ids the jobs that    *)
(* run, or have run, bear (JobInv), and that a park leaves somebody who    *)
(* can run (HostInv, which holds only where BlockingTimersOk does).        *)
(***************************************************************************)
EXTENDS GreenThreads_proofs

-----------------------------------------------------------------------------
(* The invariants. *)

\* How a coroutine can end and a deferred be settled, and what one that
\* resumes can be given.
Ends        == {Value("done"), Value("cancelled"), Raise("raised"), Raise("deadlock")}
Settlements == {Value("settled"), Raise("raised")}
Resumes     == Ends \cup Settlements \cup JobOutcomes \cup {Value("null"), None}

\* The errors a program can see.
ErrorsSeen == {Raise("raised"), Raise("deadlock"), Raise("cancelled")}

\* Neither the nominal null of a wake nor the internal signals are recorded.
OutcomeInv ==
  /\ result \in [Green -> Ends \cup {None}]
  /\ settled \in [Deferreds -> Settlements \cup {None}]
  /\ mailbox \in [Jobs -> JobOutcomes \cup {None}]
  /\ parked_resume \in [Coroutine -> Resumes]
  /\ pc = "raise" => in_flight \in ErrorsSeen

\* A coroutine is parked on what its code waits for; one that runs, or has not
\* been created, waits for nothing.
SiteInv ==
  /\ \A p \in blocked : site[p.thread] = OnGreen(p.awaiting)
  /\ \A p \in io_blocked : site[p.thread] = OnJob(p.job_id)
  /\ \A p \in timer_blocked : site[p.thread] = Nothing
  /\ \A p \in deferred_blocked : site[p.thread] = OnDeferred(p.deferred)
  /\ HasThread => site[current_id] = Nothing
  /\ \A c \in Green : c >= next_id => site[c] = Nothing /\ parked_resume[c] = None

\* Ids of jobs are fresh, and one that is in the mailbox runs no more.
JobInv ==
  /\ \A j \in running_jobs : j < next_job_id
  /\ \A j \in Jobs : mailbox[j] # None => j \notin running_jobs /\ j < next_job_id
  /\ \A c \in Coroutine, j \in Jobs : site[c] = OnJob(j) => j < next_job_id

\* A park leaves somebody to be picked, and nothing else ends in HostYield.
HostInv ==
  /\ pc = "pick" /\ in_flight = HostYield => CanMakeProgress
  /\ pc = "ended" => in_flight # HostYield

-----------------------------------------------------------------------------
(* Which outcomes are recorded, delivered and raised. *)

\* Every outcome that raises does so with an error a program can see.
LEMMA ResumeFacts ==
  /\ Ends \subseteq Resumes /\ Settlements \subseteq Resumes /\ JobOutcomes \subseteq Resumes
  /\ Value("null") \in Resumes /\ None \in Resumes
  /\ None \notin Ends \cup Settlements \cup JobOutcomes
  /\ Value("null") \notin Ends \cup Settlements \cup JobOutcomes \cup {None}
  /\ \A o \in Resumes : o.kind = "raise" => o \in ErrorsSeen
BY DEF Resumes, Ends, Settlements, JobOutcomes, ErrorsSeen, Value, Raise, None

\* What waking the joiners, the awaiters, the due or the served hands them.
LEMMA ReadyResumes ==
  ASSUME NEW R, parked_resume \in [Coroutine -> R], NEW W, NEW o \in R,
         parked_resume' = [c \in Coroutine |-> IF c \in W THEN o ELSE parked_resume[c]]
  PROVE  parked_resume' \in [Coroutine -> R]
OBVIOUS

\* The coroutines whose offloaded call has come back.
Served == Threads({p \in io_blocked : mailbox[p.job_id] # None})

\* The completions that arrive are delivered to those parked on their jobs.
LEMMA IoResumes ==
  ASSUME SchedTypeOK, WakeIo(mailbox)
  PROVE  /\ Served \subseteq InIo
         /\ \A c \in Coroutine \ Served : parked_resume'[c] = parked_resume[c]
         /\ \A c \in Served : \E p \in io_blocked :
              /\ p.thread = c /\ mailbox[p.job_id] # None
              /\ parked_resume'[c] = mailbox[p.job_id]
<1> DEFINE arrived == {p \in io_blocked : mailbox[p.job_id] # None}
           served(c) == CHOOSE p \in arrived : p.thread = c
<1>1. parked_resume' =
        [c \in Coroutine |-> IF c \in Served THEN mailbox[served(c).job_id]
                                             ELSE parked_resume[c]]
  BY DEF WakeIo, MakeReady, Served
<1>2. Served \subseteq InIo /\ Served \subseteq Coroutine
  BY DEF Served, Threads, InIo, SchedTypeOK
<1>3. ASSUME NEW c \in Served
      PROVE  \E p \in io_blocked : /\ p.thread = c /\ mailbox[p.job_id] # None
                                  /\ parked_resume'[c] = mailbox[p.job_id]
  <2>1. \E p \in arrived : p.thread = c
    BY DEF Served, Threads
  <2>2. served(c) \in arrived /\ served(c).thread = c
    BY <2>1
  <2>3. parked_resume'[c] = mailbox[served(c).job_id]
    BY <1>1, <1>2
  <2> QED
    BY <2>2, <2>3
<1>4. \A c \in Coroutine \ Served : parked_resume'[c] = parked_resume[c]
  BY <1>1
<1> QED
  BY <1>2, <1>3, <1>4

\* Every step records, delivers and raises only what it may.
LEMMA OutcomeStep == TypeOK /\ OutcomeInv /\ [Next]_vars => OutcomeInv'
<1> SUFFICES ASSUME TypeOK, OutcomeInv, [Next]_vars PROVE OutcomeInv'
  OBVIOUS
<1>0. TypeOK /\ SchedTypeOK
  BY DEF TypeOK
<1>t. /\ result \in [Green -> Ends \cup {None}]
      /\ settled \in [Deferreds -> Settlements \cup {None}]
      /\ mailbox \in [Jobs -> JobOutcomes \cup {None}]
      /\ parked_resume \in [Coroutine -> Resumes]
  BY DEF OutcomeInv
<1>1. ASSUME UNCHANGED <<result, settled, mailbox, parked_resume>>,
             pc' = "raise" => in_flight' \in ErrorsSeen
      PROVE  OutcomeInv'
  BY <1>1 DEF OutcomeInv
<1>2. ASSUME UNCHANGED <<result, settled, mailbox, parked_resume>>,
             NEW o \in Resumes, Deliver(o)
      PROVE  OutcomeInv'
  <2>1. pc' = "raise" => in_flight' = o /\ o.kind = "raise"
    BY <1>2 DEF Deliver, RaiseErr, Continue
  <2> QED
    BY <1>1, <1>2, <2>1, ResumeFacts
<1>3. ASSUME RaiseCancelled PROVE OutcomeInv'
  BY <1>1, <1>3 DEF RaiseCancelled, RaiseErr, ErrorsSeen, schedVars, jobVars
<1>4. ASSUME NEW o \in Ends, Finish(o), current_id # Main, pc' # "raise", mailbox' = mailbox
      PROVE  OutcomeInv'
  <2>1. result' \in [Green -> Ends \cup {None}]
    BY <1>4, <1>t DEF Finish
  <2>2. parked_resume' \in [Coroutine -> Resumes]
    BY <1>4, <1>t, ReadyResumes, ResumeFacts DEF Finish, WakeJoiners, MakeReady
  <2> QED
    BY <1>4, <1>t, <2>1, <2>2 DEF Finish, OutcomeInv
<1>5. ASSUME PollIoCompletions, UNCHANGED <<result, settled>>, pc' # "raise"
      PROVE  OutcomeInv'
  <2>1. /\ Served \subseteq InIo
        /\ \A c \in Coroutine \ Served : parked_resume'[c] = parked_resume[c]
        /\ \A c \in Served : \E p \in io_blocked :
             /\ p.thread = c /\ mailbox[p.job_id] # None
             /\ parked_resume'[c] = mailbox[p.job_id]
    BY <1>0, <1>5, IoResumes DEF PollIoCompletions
  <2>2. ASSUME NEW p \in io_blocked PROVE mailbox[p.job_id] \in Resumes
    BY <1>0, <1>t, ResumeFacts DEF SchedTypeOK
  <2>3. ASSUME NEW c \in Coroutine PROVE parked_resume'[c] \in Resumes
    BY <1>t, <2>1, <2>2
  <2>4. parked_resume' \in [Coroutine -> Outcomes \cup {None}]
    BY <1>0, <1>5, WakeIoType DEF PollIoCompletions, TypeOK
  <2>5. parked_resume' \in [Coroutine -> Resumes]
    BY <2>3, <2>4
  <2>6. mailbox' \in [Jobs -> JobOutcomes \cup {None}]
    BY <1>5 DEF PollIoCompletions, EmptyMailbox
  <2> QED
    BY <1>5, <1>t, <2>5, <2>6 DEF OutcomeInv
<1>6. ASSUME WakeTimers(now), UNCHANGED <<result, settled, mailbox>>, pc' # "raise"
      PROVE  OutcomeInv'
  <2>1. parked_resume' \in [Coroutine -> Resumes]
    BY <1>6, <1>t, ReadyResumes, ResumeFacts DEF WakeTimers, MakeReady
  <2> QED
    BY <1>6, <1>t, <2>1 DEF OutcomeInv
<1>7. CASE StayOp
  <2>1. CASE Go \/ YieldAlone
    BY <1>1, <2>1 DEF Go, EnqueueFresh, YieldAlone, Continue, schedVars, handleVars, jobVars
  <2>2. CASE BlockingInline
    <3>1. PICK o \in JobOutcomes : Deliver(o)
      BY <2>2 DEF BlockingInline
    <3> QED
      BY <1>2, <2>2, <3>1, ResumeFacts DEF BlockingInline, schedVars, handleVars, jobVars
  <2>3. CASE RaiseOp
    BY <1>1, <2>3 DEF RaiseOp, RaiseErr, ErrorsSeen, schedVars, handleVars, jobVars
  <2>4. ASSUME NEW g \in Green, JoinFinished(g) PROVE OutcomeInv'
    BY <1>2, <1>t, <2>4, ResumeFacts DEF JoinFinished, schedVars, handleVars, jobVars
  <2>5. ASSUME NEW d \in Deferreds, JoinSettled(d) PROVE OutcomeInv'
    BY <1>2, <1>t, <2>5, ResumeFacts DEF JoinSettled, schedVars, handleVars, jobVars
  <2>6. ASSUME NEW g \in Green, Cancel(g) PROVE OutcomeInv'
    <3>1. \/ parked_resume' = [parked_resume EXCEPT ![g] = Value("null")]
          \/ parked_resume' = parked_resume
      BY <2>6 DEF Cancel, CancelUnpark
    <3>2. parked_resume' \in [Coroutine -> Resumes]
      BY <1>t, <3>1, ResumeFacts
    <3> QED
      BY <1>t, <2>6, <3>2 DEF Cancel, Continue, jobVars, OutcomeInv
  <2>7. ASSUME NEW d \in Deferreds, NEW o \in Settlements, Settle(d, o) PROVE OutcomeInv'
    <3>1. settled' \in [Deferreds -> Settlements \cup {None}]
      BY <1>t, <2>7 DEF Settle
    <3>2. parked_resume' \in [Coroutine -> Resumes]
      <4>1. CASE settled[d] # None
        BY <1>t, <2>7, <4>1 DEF Settle
      <4>2. CASE settled[d] = None
        BY <1>t, <2>7, <4>2, ReadyResumes, ResumeFacts DEF Settle, WakeDeferred, MakeReady
      <4> QED
        BY <4>1, <4>2
    <3> QED
      BY <1>t, <2>7, <3>1, <3>2 DEF Settle, Continue, jobVars, OutcomeInv
  <2> QED
    BY <1>7, <2>1, <2>2, <2>3, <2>4, <2>5, <2>6, <2>7
    DEF StayOp, Resolve, Reject, Settlements
<1>8. CASE LeaveOp
  <2>1. CASE YieldToNext
    <3>1. parked_resume' \in [Coroutine -> Resumes]
      BY <1>t, <2>1, ResumeFacts DEF YieldToNext, EnqueueCurrent
    <3> QED
      BY <1>t, <2>1, <3>1 DEF YieldToNext, SwitchAway, handleVars, jobVars, OutcomeInv
  <2>2. CASE ReturnGreen
    BY <1>4, <2>2 DEF ReturnGreen, SwitchAway, Ends, Finish, jobVars
  <2>3. CASE ReturnMain
    BY <1>1, <2>3 DEF ReturnMain, schedVars, handleVars, jobVars
  <2>4. ASSUME NEW g \in Green, JoinLive(g) PROVE OutcomeInv'
    BY <1>1, <1>3, <2>4
    DEF JoinLive, RaiseErr, Park, SwitchAway, ErrorsSeen, schedVars, handleVars, jobVars
  <2>5. ASSUME NEW d \in Deferreds, JoinUnsettled(d) PROVE OutcomeInv'
    BY <1>1, <1>3, <2>5
    DEF JoinUnsettled, RaiseErr, Park, SwitchAway, ErrorsSeen, schedVars, handleVars, jobVars
  <2>6. ASSUME NEW s \in Delays, Wait(s) PROVE OutcomeInv'
    BY <1>1, <1>3, <2>6
    DEF Wait, RaiseErr, Park, SwitchAway, ErrorsSeen, schedVars, handleVars, jobVars
  <2>7. CASE BlockingOffload
    BY <1>1, <1>3, <2>7
    DEF BlockingOffload, Park, SwitchAway, handleVars
  <2> QED
    BY <1>8, <2>1, <2>2, <2>3, <2>4, <2>5, <2>6, <2>7 DEF LeaveOp
<1>9. CASE Unwind
  <2>1. CASE Caught \/ FailMain
    BY <1>1, <2>1 DEF Caught, FailMain, Continue, schedVars, handleVars, jobVars
  <2>2. CASE FailGreen
    <3> DEFINE o == IF in_flight = Raise("cancelled") THEN Value("cancelled") ELSE in_flight
    <3>1. in_flight \in ErrorsSeen
      BY <2>2 DEF FailGreen, OutcomeInv
    <3>2. o \in Ends
      BY <3>1 DEF ErrorsSeen, Ends
    <3>3. Finish(o) /\ current_id # Main /\ pc' # "raise" /\ mailbox' = mailbox
      BY <2>2 DEF FailGreen, SwitchAway, Finish, jobVars
    <3> QED
      BY <1>4, <3>2, <3>3
  <2> QED
    BY <1>9, <2>1, <2>2 DEF Unwind
<1>10. CASE Pick
  <2>1. CASE PickReady
    <3>0. Head(queue) \in Coroutine
      BY <1>0, <2>1 DEF PickReady, SchedTypeOK
    <3>1. parked_resume' \in [Coroutine -> Resumes]
      BY <1>t, <2>1, ResumeFacts DEF PickReady
    <3>2. pc' = "raise" => in_flight' \in ErrorsSeen
      <4>1. /\ parked_resume[Head(queue)] \in Resumes
            /\ parked_resume[Head(queue)].kind = "raise"
                  => parked_resume[Head(queue)] \in ErrorsSeen
        BY <1>t, <3>0, ResumeFacts
      <4> QED
        BY <2>1, <4>1 DEF PickReady, RaiseErr, Continue, ErrorsSeen
    <3> QED
      BY <1>t, <2>1, <3>1, <3>2 DEF PickReady, jobVars, OutcomeInv
  <2>2. CASE PumpIo
    BY <1>5, <2>2 DEF PumpIo, handleVars
  <2>3. CASE SleepToNextTimer
    BY <1>6, <2>3 DEF SleepToNextTimer, handleVars, jobVars
  <2>4. CASE PickNone
    BY <1>1, <2>4 DEF PickNone, schedVars, handleVars, jobVars
  <2> QED
    BY <1>10, <2>1, <2>2, <2>3, <2>4 DEF Pick
<1>11. ASSUME NEW j \in Jobs, Post(j) PROVE OutcomeInv'
  <2>1. mailbox' \in [Jobs -> JobOutcomes \cup {None}]
    BY <1>t, <1>11 DEF Post
  <2> QED
    BY <1>t, <1>11, <2>1 DEF Post, schedVars, handleVars, OutcomeInv
<1>12. CASE Poll
  <2>1. CASE io_blocked # {}
    BY <1>5, <1>12, <2>1 DEF Poll, handleVars
  <2>2. CASE io_blocked = {}
    BY <1>1, <1>12, <2>2 DEF Poll, handleVars
  <2> QED
    BY <2>1, <2>2
<1>13. CASE FireTimers
  <2>1. CASE BlockingTimersOk /\ timer_blocked # {}
    BY <1>6, <1>13, <2>1 DEF FireTimers, handleVars, jobVars
  <2>2. CASE ~(BlockingTimersOk /\ timer_blocked # {})
    BY <1>1, <1>13, <2>2 DEF FireTimers, handleVars, jobVars
  <2> QED
    BY <2>1, <2>2
<1>14. CASE Tick \/ Terminated \/ UNCHANGED vars
  BY <1>1, <1>14
  DEF Tick, Terminated, schedVars, handleVars, jobVars, vmVars, vars, OutcomeInv
<1> QED
  BY <1>7, <1>8, <1>9, <1>10, <1>11, <1>12, <1>13, <1>14 DEF Next

\* Nothing has been recorded at the start.
LEMMA OutcomeInit == Init => OutcomeInv
BY ResumeFacts DEF Init, SchedInit, OutcomeInv

-----------------------------------------------------------------------------
(* Cancellation fires once per request. *)

\* A request of this step is consumed by raising `cancelled` where it was
\* addressed; no step raises it otherwise, and none drops a request.
Consumes(g) ==
  /\ cancel_requested[g]
  /\ cancel_requested' = [cancel_requested EXCEPT ![g] = FALSE]
  /\ pc # "raise" /\ pc' = "raise"
  /\ in_flight' = Raise("cancelled")
  /\ current_id' = g

ConsumesNothing ==
  /\ \A g \in Green : cancel_requested[g] => cancel_requested'[g]
  /\ pc' = "raise" /\ in_flight' = Raise("cancelled") => pc = "raise"

\* Nothing recorded or delivered raises `cancelled` by itself.
LEMMA NothingElseCancels ==
  ASSUME NEW o \in Resumes, Deliver(o), cancel_requested' = cancel_requested
  PROVE  ConsumesNothing
BY DEF Resumes, Ends, Settlements, JobOutcomes, Value, Raise, None, Deliver, RaiseErr, Continue,
       ConsumesNothing

\* Every step consumes one request where it is addressed, or none.
LEMMA CancelSteps ==
  ASSUME PlaceInv, OutcomeInv, [Next]_vars
  PROVE  ConsumesNothing \/ \E g \in Green : Consumes(g)
<1>0. TypeOK /\ SchedTypeOK /\ \A c \in Coroutine : c # Main => c \in Green
  BY DEF PlaceInv, TypeOK, Coroutine, Green, Main
<1>t. /\ result \in [Green -> Ends \cup {None}]
      /\ settled \in [Deferreds -> Settlements \cup {None}]
      /\ parked_resume \in [Coroutine -> Resumes]
  BY DEF OutcomeInv
<1>1. ASSUME RaiseCancelled, pc = "exec" PROVE \E g \in Green : Consumes(g)
  <2>1. current_id \in Green /\ cancel_requested[current_id] /\ current_id' = current_id
    BY <1>0, <1>1 DEF RaiseCancelled, SelfCancelled, schedVars, SchedTypeOK
  <2>2. Consumes(current_id)
    BY <1>1, <2>1 DEF RaiseCancelled, RaiseErr, Consumes
  <2> QED
    BY <2>1, <2>2
<1>2. ASSUME \A g \in Green : cancel_requested[g] => cancel_requested'[g], pc' # "raise"
      PROVE  ConsumesNothing
  BY <1>2 DEF ConsumesNothing
<1>3. Raise("raised") # Raise("cancelled") /\ Raise("deadlock") # Raise("cancelled")
  BY DEF Raise
<1>4. CASE StayOp
  <2>1. CASE Go \/ YieldAlone
    BY <1>2, <2>1 DEF Go, YieldAlone, Continue, handleVars
  <2>2. CASE BlockingInline
    BY <2>2, NothingElseCancels, ResumeFacts DEF BlockingInline, handleVars
  <2>3. CASE RaiseOp
    BY <1>3, <2>3 DEF RaiseOp, RaiseErr, handleVars, ConsumesNothing
  <2>4. ASSUME NEW g \in Green, JoinFinished(g) PROVE ConsumesNothing
    BY <1>t, <2>4, NothingElseCancels, ResumeFacts DEF JoinFinished, handleVars
  <2>5. ASSUME NEW d \in Deferreds, JoinSettled(d) PROVE ConsumesNothing
    BY <1>t, <2>5, NothingElseCancels, ResumeFacts DEF JoinSettled, handleVars
  <2>6. ASSUME NEW g \in Green, Cancel(g) PROVE ConsumesNothing
    BY <1>0, <1>2, <2>6 DEF Cancel, Continue, TypeOK
  <2>7. ASSUME NEW d \in Deferreds, NEW o, Settle(d, o) PROVE ConsumesNothing
    BY <1>2, <2>7 DEF Settle, Continue
  <2> QED
    BY <1>4, <2>1, <2>2, <2>3, <2>4, <2>5, <2>6, <2>7 DEF StayOp, Resolve, Reject
<1>5. CASE LeaveOp
  <2>1. CASE YieldToNext \/ ReturnGreen \/ ReturnMain
    BY <1>2, <2>1 DEF YieldToNext, ReturnGreen, ReturnMain, Finish, SwitchAway, handleVars
  <2>2. ASSUME NEW g \in Green, JoinLive(g), ~RaiseCancelled PROVE ConsumesNothing
    BY <1>3, <2>2 DEF JoinLive, RaiseErr, Park, SwitchAway, handleVars, ConsumesNothing
  <2>3. ASSUME NEW d \in Deferreds, JoinUnsettled(d), ~RaiseCancelled PROVE ConsumesNothing
    BY <1>3, <2>3 DEF JoinUnsettled, RaiseErr, Park, SwitchAway, handleVars, ConsumesNothing
  <2>4. ASSUME NEW s \in Delays, Wait(s), ~RaiseCancelled PROVE ConsumesNothing
    BY <1>3, <2>4 DEF Wait, RaiseErr, Park, SwitchAway, handleVars, ConsumesNothing
  <2>5. CASE BlockingOffload /\ ~RaiseCancelled
    BY <1>2, <2>5 DEF BlockingOffload, Park, SwitchAway, handleVars
  <2>6. pc = "exec"
    BY <1>5 DEF LeaveOp, YieldToNext, BlockingOffload, ReturnGreen, ReturnMain, JoinLive,
                JoinUnsettled, Wait
  <2> QED
    BY <1>1, <1>5, <2>1, <2>2, <2>3, <2>4, <2>5, <2>6 DEF LeaveOp
<1>6. CASE Unwind
  BY <1>2, <1>6 DEF Unwind, Caught, FailGreen, FailMain, Continue, Finish, SwitchAway, handleVars
<1>7. CASE Pick
  <2>1. CASE PickReady
    <3> DEFINE next == Head(queue)
    <3>0. next \in Coroutine
      BY <1>0, <2>1 DEF PickReady, SchedTypeOK
    <3>1. CASE CancelledOnResume(next)
      <4>1. next \in Green /\ cancel_requested[next]
        BY <1>0, <3>0, <3>1 DEF CancelledOnResume
      <4>2. Consumes(next)
        BY <2>1, <3>1, <4>1 DEF PickReady, RaiseErr, Consumes
      <4> QED
        BY <4>1, <4>2
    <3>2. CASE ~CancelledOnResume(next)
      <4>1. /\ cancel_requested' = cancel_requested
            /\ pc' = "raise" => in_flight' = parked_resume[next]
        BY <2>1, <3>2 DEF PickReady, RaiseErr, Continue
      <4>2. parked_resume[next] # Raise("cancelled")
        BY <1>t, <3>0
        DEF Resumes, Ends, Settlements, JobOutcomes, Value, Raise, None
      <4> QED
        BY <4>1, <4>2 DEF ConsumesNothing
    <3> QED
      BY <3>1, <3>2
  <2>2. CASE PumpIo \/ SleepToNextTimer \/ PickNone
    BY <1>2, <2>2 DEF PumpIo, SleepToNextTimer, PickNone, handleVars
  <2> QED
    BY <1>7, <2>1, <2>2 DEF Pick
<1>8. CASE Poll \/ FireTimers
  BY <1>2, <1>8 DEF Poll, FireTimers, handleVars
<1>9. CASE (\E j \in Jobs : Post(j)) \/ Tick \/ Terminated \/ UNCHANGED vars
  BY <1>9 DEF Post, Tick, Terminated, vars, vmVars, handleVars, ConsumesNothing
<1> QED
  BY <1>4, <1>5, <1>6, <1>7, <1>8, <1>9 DEF Next

\* A request to cancel is consumed where it is addressed and nowhere else, and
\* `cancelled` is never raised without one.
THEOREM CancelFiresOncePerRequestAlways == Spec => CancelFiresOncePerRequest
<1>1. ASSUME PlaceInv, OutcomeInv, [Next]_vars
      PROVE  [\A g \in Green :
                (cancel_requested[g] /\ ~cancel_requested'[g])
                  <=> (/\ pc # "raise" /\ pc' = "raise"
                       /\ in_flight' = Raise("cancelled")
                       /\ current_id' = g)]_vars
  <2>1. cancel_requested \in [Green -> BOOLEAN]
    BY <1>1 DEF PlaceInv, TypeOK
  <2>2. CASE ConsumesNothing
    BY <2>2 DEF ConsumesNothing
  <2>3. CASE \E g \in Green : Consumes(g)
    BY <2>1, <2>3 DEF Consumes
  <2> QED
    BY <1>1, <2>2, <2>3, CancelSteps
<1>2. Init => OutcomeInv
  BY OutcomeInit
<1>3. PlaceInv => TypeOK
  BY DEF PlaceInv
<1> QED
  BY <1>1, <1>2, <1>3, OutcomeStep, PlaceInvariant, PTL DEF Spec, CancelFiresOncePerRequest

-----------------------------------------------------------------------------
(* HostYield stays inside: the deadlock guards suffice. *)

\* A wake while somebody sleeps on a call or the clock leaves somebody to pick.
LEMMA WakeProgress ==
  ASSUME PlaceInv, pc # "ended",
         \/ /\ io_blocked # {} /\ WakeIo(mailbox)
         \/ /\ timer_blocked # {} /\ WakeTimers(now)
  PROVE  CanMakeProgress'
<1>0. SchedTypeOK /\ Unique /\ Apart
  BY DEF PlaceInv, TypeOK, Placed
<1>1. Queued' # {} => queue' # <<>>
  BY DEF Queued
<1>2. CASE io_blocked # {} /\ WakeIo(mailbox)
  <2>1. PICK W \in SUBSET InIo : Queued' = Queued \cup W /\ InIo' = InIo \ W
    BY <1>0, <1>2, WakeIoMoves
  <2>2. InIo # {} /\ (InIo' # {} => io_blocked' # {})
    BY <1>2 DEF InIo, Threads
  <2> QED
    BY <1>1, <2>1, <2>2 DEF CanMakeProgress
<1>3. CASE timer_blocked # {} /\ WakeTimers(now)
  <2>1. PICK W \in SUBSET InTimer : Queued' = Queued \cup W /\ InTimer' = InTimer \ W
    BY <1>0, <1>3, WakeTimersMoves
  <2>2. InTimer # {} /\ (InTimer' # {} => timer_blocked' # {})
    BY <1>3 DEF InTimer, Threads
  <2> QED
    BY <1>1, <2>1, <2>2 DEF CanMakeProgress
<1> QED
  BY <1>2, <1>3

\* In an actor that owns its thread every park leaves somebody to pick.
LEMMA HostInvStep ==
  ASSUME BlockingTimersOk
  PROVE  PlaceInv /\ OutcomeInv /\ HostInv /\ [Next]_vars => HostInv'
<1> SUFFICES ASSUME PlaceInv, OutcomeInv, HostInv, [Next]_vars PROVE HostInv'
  OBVIOUS
<1>0. SchedTypeOK
  BY DEF PlaceInv, TypeOK
<1>1. ASSUME pc' \notin {"pick", "ended"} PROVE HostInv'
  BY <1>1 DEF HostInv
<1>2. ASSUME pc' = "pick", CanMakeProgress' PROVE HostInv'
  BY <1>2 DEF HostInv
<1>3. ASSUME in_flight' # HostYield PROVE HostInv'
  BY <1>3 DEF HostInv
<1>4. pc = "raise" => in_flight # HostYield
  BY DEF OutcomeInv, ErrorsSeen, HostYield, Raise
<1>5. /\ Value("done") # HostYield /\ Raise("deadlock") # HostYield
      /\ Raise("raised") # HostYield /\ Raise("cancelled") # HostYield
  BY DEF HostYield, Value, Raise
<1>6. CASE StayOp
  BY <1>1, <1>6 DEF StayOp, Go, YieldAlone, BlockingInline, RaiseOp, JoinFinished, JoinSettled,
                    Cancel, Resolve, Reject, Settle, Deliver, RaiseErr, Continue
<1>7. CASE LeaveOp
  <2>1. CASE YieldToNext
    <3>1. queue' # <<>>
      BY <1>0, <2>1 DEF YieldToNext, EnqueueCurrent, SchedTypeOK
    <3> QED
      BY <1>2, <2>1, <3>1 DEF YieldToNext, SwitchAway, CanMakeProgress
  <2>2. CASE ReturnGreen \/ ReturnMain
    BY <1>3, <1>5, <2>2 DEF ReturnGreen, ReturnMain, SwitchAway
  <2>3. CASE RaiseCancelled
    BY <1>1, <2>3 DEF RaiseCancelled, RaiseErr
  <2>4. CASE BlockingOffload /\ ~RaiseCancelled
    BY <1>2, <2>4 DEF BlockingOffload, Park, SwitchAway, ParkIo, CanMakeProgress
  <2>5. ASSUME NEW g \in Green, JoinLive(g), ~RaiseCancelled PROVE HostInv'
    BY <1>1, <1>2, <2>5 DEF JoinLive, RaiseErr, Park, SwitchAway, CanMakeProgress
  <2>6. ASSUME NEW d \in Deferreds, JoinUnsettled(d), ~RaiseCancelled PROVE HostInv'
    BY <1>1, <1>2, <2>6 DEF JoinUnsettled, RaiseErr, Park, SwitchAway, CanMakeProgress
  <2>7. ASSUME NEW s \in Delays, Wait(s), ~RaiseCancelled PROVE HostInv'
    BY <1>1, <1>2, <2>7 DEF Wait, RaiseErr, Park, SwitchAway, ParkTimer, CanMakeProgress
  <2> QED
    BY <1>7, <2>1, <2>2, <2>3, <2>4, <2>5, <2>6, <2>7 DEF LeaveOp
<1>8. CASE Unwind
  BY <1>1, <1>3, <1>4, <1>8 DEF Unwind, Caught, Continue, FailGreen, FailMain, SwitchAway
<1>9. CASE Pick
  <2>1. CASE PickReady
    BY <1>1, <2>1 DEF PickReady, RaiseErr, Continue
  <2>2. CASE PumpIo
    BY <1>2, <2>2, WakeProgress DEF PumpIo, PollIoCompletions
  <2>3. CASE SleepToNextTimer
    BY <1>2, <2>3, WakeProgress DEF SleepToNextTimer
  <2>4. CASE PickNone
    <3>1. ~CanMakeProgress
      BY <2>4 DEF PickNone, CanMakeProgress
    <3>2. in_flight # HostYield
      BY <2>4, <3>1 DEF PickNone, HostInv
    <3> QED
      BY <1>3, <1>5, <2>4, <3>2 DEF PickNone
  <2> QED
    BY <1>9, <2>1, <2>2, <2>3, <2>4 DEF Pick
<1>10. CASE Poll \/ FireTimers
  BY <1>1, <1>10 DEF Poll, FireTimers
<1>11. CASE (\E j \in Jobs : Post(j)) \/ Tick \/ Terminated \/ UNCHANGED vars
  BY <1>11 DEF Post, Tick, Terminated, vars, schedVars, vmVars, HostInv, CanMakeProgress
<1> QED
  BY <1>6, <1>7, <1>8, <1>9, <1>10, <1>11 DEF Next

\* Where the program owns its thread - under `run` - the signal by which a park
\* leaves the dispatch loop never becomes what the program ends with.
THEOREM HostYieldNeverEscapesAlways ==
  ASSUME BlockingTimersOk
  PROVE  Spec => []HostYieldNeverEscapes
<1>1. Init => OutcomeInv
  BY OutcomeInit
<1>2. Init => HostInv
  BY DEF Init, HostInv
<1>3. PlaceInv /\ OutcomeInv /\ HostInv /\ [Next]_vars => HostInv'
  BY HostInvStep
<1>4. HostInv => HostYieldNeverEscapes
  BY DEF HostInv, HostYieldNeverEscapes
<1>5. PlaceInv => TypeOK
  BY DEF PlaceInv
<1> QED
  BY <1>1, <1>2, <1>3, <1>4, <1>5, OutcomeStep, PlaceInvariant, PTL DEF Spec

-----------------------------------------------------------------------------
(* What a parked coroutine waits for, and the ids of jobs. *)

\* The things to wait for are told apart.
LEMMA SiteFacts ==
  /\ \A g, h : OnGreen(g) = OnGreen(h) => g = h
  /\ \A j, k : OnJob(j) = OnJob(k) => j = k
  /\ \A d, e : OnDeferred(d) = OnDeferred(e) => d = e
  /\ \A x, y : OnGreen(x) # OnJob(y) /\ OnGreen(x) # OnDeferred(y) /\ OnJob(x) # OnDeferred(y)
  /\ \A x : OnGreen(x) # Nothing /\ OnJob(x) # Nothing /\ OnDeferred(x) # Nothing
<1>1. \A x, y : <<"green", x>> = <<"green", y>> => x = y
  OBVIOUS
<1>2. \A x, y : <<"job", x>> = <<"job", y>> => x = y
  OBVIOUS
<1>3. \A x, y : <<"deferred", x>> = <<"deferred", y>> => x = y
  OBVIOUS
<1>4. \A x, y : <<"green", x>> # <<"job", y>> /\ <<"green", x>> # <<"deferred", y>>
                /\ <<"job", x>> # <<"deferred", y>>
  OBVIOUS
<1>5. \A x : <<"green", x>> # <<"nothing">> /\ <<"job", x>> # <<"nothing">>
             /\ <<"deferred", x>> # <<"nothing">>
  OBVIOUS
<1> QED
  BY <1>1, <1>2, <1>3, <1>4, <1>5 DEF OnGreen, OnJob, OnDeferred, Nothing

\* A coroutine that is somewhere has been created.
LEMMA SomewhereIsBorn ==
  ASSUME PlaceInv, pc # "ended", NEW c \in Green, c >= next_id
  PROVE  c \notin Everyone
<1>1. Placed /\ c \in Coroutine /\ c # Main
  BY DEF PlaceInv, Green, Coroutine, Main
<1>2. next_id \in Nat /\ c \in Nat
  BY DEF PlaceInv, TypeOK, SchedTypeOK, Green
<1>3. ~Live(c)
  BY <1>1, <1>2 DEF Live
<1> QED
  BY <1>1, <1>3 DEF Placed, Accounted

\* A step by which coroutines only leave the collections.
LEMMA SiteKept ==
  ASSUME PlaceInv, SiteInv, site' = site, current_id' = current_id, HasThread' => HasThread,
         next_id' = next_id \/ next_id' = next_id + 1,
         blocked' \subseteq blocked, io_blocked' \subseteq io_blocked,
         timer_blocked' \subseteq timer_blocked, deferred_blocked' \subseteq deferred_blocked,
         \A c \in Green : c >= next_id => parked_resume'[c] = parked_resume[c]
  PROVE  SiteInv'
<1>1. next_id \in Nat /\ \A c \in Green : c \in Nat
  BY DEF PlaceInv, TypeOK, SchedTypeOK, Green
<1>2. PICK m \in Nat : m = next_id'
  BY <1>1
<1>3. \A c \in Green : c >= m => c >= next_id
  BY <1>1, <1>2
<1>4. ASSUME NEW c \in Green, c >= next_id'
      PROVE  site[c] = Nothing /\ parked_resume'[c] = None
  BY <1>2, <1>3, <1>4 DEF SiteInv
<1> QED
  BY <1>4 DEF SiteInv

\* A coroutine parks on what its code waits for.
LEMMA SiteParked ==
  ASSUME PlaceInv, SiteInv, HasThread, ~HasThread', NEW what, NEW g, NEW j, NEW t, NEW d,
         site' = [site EXCEPT ![current_id] = what],
         next_id' = next_id, parked_resume' = parked_resume,
         \/ /\ what = OnGreen(g) /\ Block(g)
            /\ UNCHANGED <<io_blocked, timer_blocked, deferred_blocked>>
         \/ /\ what = OnJob(j) /\ ParkIo(j)
            /\ UNCHANGED <<blocked, timer_blocked, deferred_blocked>>
         \/ /\ what = Nothing /\ ParkTimer(t)
            /\ UNCHANGED <<blocked, io_blocked, deferred_blocked>>
         \/ /\ what = OnDeferred(d) /\ ParkDeferred(d)
            /\ UNCHANGED <<blocked, io_blocked, timer_blocked>>
  PROVE  SiteInv'
<1>0. /\ TypeOK /\ SchedTypeOK /\ current_id \in Coroutine /\ pc # "ended"
      /\ current_id \notin InJoin \cup InIo \cup InTimer \cup InDefer
      /\ current_id \in Everyone
  BY RunningIsAlone DEF PlaceInv, TypeOK, HasThread, Everyone
<1>1. site'[current_id] = what /\ \A c \in Coroutine : c # current_id => site'[c] = site[c]
  BY <1>0 DEF TypeOK
<1>2. \A p \in blocked : site'[p.thread] = site[p.thread]
  BY <1>0, <1>1 DEF InJoin, Threads, SchedTypeOK
<1>3. \A p \in io_blocked : site'[p.thread] = site[p.thread]
  BY <1>0, <1>1 DEF InIo, Threads, SchedTypeOK
<1>4. \A p \in timer_blocked : site'[p.thread] = site[p.thread]
  BY <1>0, <1>1 DEF InTimer, Threads, SchedTypeOK
<1>5. \A p \in deferred_blocked : site'[p.thread] = site[p.thread]
  BY <1>0, <1>1 DEF InDefer, Threads, SchedTypeOK
<1>6. \A p \in blocked' : site'[p.thread] = OnGreen(p.awaiting)
  BY <1>1, <1>2 DEF Block, SiteInv
<1>7. \A p \in io_blocked' : site'[p.thread] = OnJob(p.job_id)
  BY <1>1, <1>3 DEF ParkIo, SiteInv
<1>8. \A p \in timer_blocked' : site'[p.thread] = Nothing
  BY <1>1, <1>4 DEF ParkTimer, SiteInv
<1>9. \A p \in deferred_blocked' : site'[p.thread] = OnDeferred(p.deferred)
  BY <1>1, <1>5 DEF ParkDeferred, SiteInv
<1>10. ASSUME NEW c \in Green, c >= next_id PROVE site'[c] = Nothing /\ parked_resume[c] = None
  <2>1. c # current_id /\ c \in Coroutine
    BY <1>0, <1>10, SomewhereIsBorn DEF Green, Coroutine
  <2> QED
    BY <1>1, <1>10, <2>1 DEF SiteInv
<1> QED
  BY <1>6, <1>7, <1>8, <1>9, <1>10 DEF SiteInv

\* A wake or a yield says nothing to a coroutine that has not been created.
LEMMA ReadyIsBorn ==
  ASSUME PlaceInv, pc # "ended", NEW W, W \subseteq Everyone,
         \A c \in Coroutine \ W : parked_resume'[c] = parked_resume[c]
  PROVE  \A c \in Green : c >= next_id => parked_resume'[c] = parked_resume[c]
BY SomewhereIsBorn DEF Green, Coroutine

\* Every step keeps each parked coroutine on what its code waits for.
LEMMA SiteStep == PlaceInv /\ SiteInv /\ [Next]_vars => SiteInv'
<1> SUFFICES ASSUME PlaceInv, SiteInv, [Next]_vars PROVE SiteInv'
  OBVIOUS
<1>0. TypeOK /\ SchedTypeOK
  BY DEF PlaceInv, TypeOK
<1>1. ASSUME UNCHANGED <<schedVars, site>>, HasThread' => HasThread PROVE SiteInv'
  BY <1>1, SiteKept DEF schedVars
<1>2. ASSUME WakeIo(mailbox), pc # "ended", HasThread' => HasThread,
             UNCHANGED <<site, current_id, next_id, blocked, timer_blocked, deferred_blocked>>
      PROVE  SiteInv'
  <2>1. /\ Served \subseteq InIo
        /\ \A c \in Coroutine \ Served : parked_resume'[c] = parked_resume[c]
    BY <1>0, <1>2, IoResumes
  <2>2. Served \subseteq Everyone /\ io_blocked' \subseteq io_blocked
    BY <1>2, <2>1 DEF Everyone, WakeIo
  <2>3. \A c \in Green : c >= next_id => parked_resume'[c] = parked_resume[c]
    BY <1>2, <2>1, <2>2, ReadyIsBorn
  <2> QED
    BY <1>2, <2>2, <2>3, SiteKept
<1>3. ASSUME WakeTimers(now), pc # "ended", HasThread' => HasThread,
             UNCHANGED <<site, current_id, next_id, blocked, io_blocked, deferred_blocked>>
      PROVE  SiteInv'
  <2>1. Threads(Due(now)) \subseteq Everyone
    BY DEF Threads, Due, InTimer, Everyone
  <2>2. \A c \in Coroutine \ Threads(Due(now)) : parked_resume'[c] = parked_resume[c]
    BY <1>3 DEF WakeTimers, MakeReady
  <2>3. \A c \in Green : c >= next_id => parked_resume'[c] = parked_resume[c]
    BY <1>3, <2>1, <2>2, ReadyIsBorn
  <2> QED
    BY <1>3, <2>3, SiteKept DEF WakeTimers
<1>4. ASSUME NEW o, Finish(o), HasThread, ~HasThread' PROVE SiteInv'
  <2>1. Joiners(current_id) \subseteq Everyone
    BY DEF Threads, Joiners, InJoin, Everyone
  <2>2. \A c \in Coroutine \ Joiners(current_id) : parked_resume'[c] = parked_resume[c]
    BY <1>4 DEF Finish, WakeJoiners, MakeReady
  <2>3. pc # "ended"
    BY <1>4 DEF HasThread
  <2>4. \A c \in Green : c >= next_id => parked_resume'[c] = parked_resume[c]
    BY <2>1, <2>2, <2>3, ReadyIsBorn
  <2> QED
    BY <1>4, <2>4, SiteKept DEF Finish, WakeJoiners
<1>5. CASE StayOp
  <2>0. HasThread /\ pc # "ended"
    BY <1>5 DEF HasThread, StayOp, Go, YieldAlone, BlockingInline, RaiseOp, JoinFinished,
                JoinSettled, Cancel, Resolve, Reject, Settle
  <2>1. CASE Go
    BY <2>0, <2>1, SiteKept DEF Go, EnqueueFresh, parkVars
  <2>2. CASE YieldAlone \/ BlockingInline \/ RaiseOp
    BY <1>1, <2>0, <2>2 DEF YieldAlone, BlockingInline, RaiseOp, Deliver
  <2>3. ASSUME NEW g \in Green, JoinFinished(g) PROVE SiteInv'
    BY <1>1, <2>0, <2>3 DEF JoinFinished, Deliver
  <2>4. ASSUME NEW d \in Deferreds, JoinSettled(d) PROVE SiteInv'
    BY <1>1, <2>0, <2>4 DEF JoinSettled, Deliver
  <2>5. ASSUME NEW g \in Green, Cancel(g) PROVE SiteInv'
    <3>1. /\ blocked' \subseteq blocked /\ io_blocked' \subseteq io_blocked
          /\ timer_blocked' \subseteq timer_blocked
          /\ deferred_blocked' \subseteq deferred_blocked
      BY <2>5 DEF Cancel, CancelUnpark, Without, parkVars
    <3>2. \A c \in Green : c >= next_id => parked_resume'[c] = parked_resume[c]
      <4>1. next_id \in Nat /\ g \in Nat /\ g < next_id
        BY <1>0, <2>5 DEF Cancel, SchedTypeOK, Green
      <4>2. \A c \in Green : c >= next_id => c # g
        BY <4>1
      <4>3. \/ parked_resume' = [parked_resume EXCEPT ![g] = Value("null")]
            \/ parked_resume' = parked_resume
        BY <2>5 DEF Cancel, CancelUnpark
      <4>4. \A c \in Coroutine : c # g => parked_resume'[c] = parked_resume[c]
        BY <1>0, <4>3 DEF SchedTypeOK
      <4>5. Green \subseteq Coroutine
        BY DEF Green, Coroutine
      <4> QED
        BY <4>2, <4>4, <4>5
    <3> QED
      BY <2>0, <2>5, <3>1, <3>2, SiteKept DEF Cancel
  <2>6. ASSUME NEW d \in Deferreds, NEW o, Settle(d, o) PROVE SiteInv'
    <3>1. CASE settled[d] # None
      BY <2>0, <2>6, <3>1, SiteKept DEF Settle
    <3>2. CASE settled[d] = None
      <4>1. WakeDeferred(d, o) /\ UNCHANGED <<blocked, io_blocked, timer_blocked>>
        BY <2>6, <3>2 DEF Settle
      <4>2. Awaiters(d) \subseteq Everyone
        BY DEF Threads, Awaiters, InDefer, Everyone
      <4>3. \A c \in Coroutine \ Awaiters(d) : parked_resume'[c] = parked_resume[c]
        BY <4>1 DEF WakeDeferred, MakeReady
      <4>4. \A c \in Green : c >= next_id => parked_resume'[c] = parked_resume[c]
        BY <2>0, <4>2, <4>3, ReadyIsBorn
      <4> QED
        BY <2>0, <2>6, <4>1, <4>4, SiteKept DEF Settle, WakeDeferred
    <3> QED
      BY <3>1, <3>2
  <2> QED
    BY <1>5, <2>1, <2>2, <2>3, <2>4, <2>5, <2>6 DEF StayOp, Resolve, Reject
<1>6. CASE LeaveOp
  <2>0. HasThread
    BY <1>6 DEF HasThread, LeaveOp, YieldToNext, BlockingOffload, ReturnGreen, ReturnMain,
                JoinLive, JoinUnsettled, Wait
  <2>1. CASE YieldToNext
    <3>1. {current_id} \subseteq Everyone /\ pc # "ended" /\ ~HasThread'
      BY <2>0, <2>1, RunningIsAlone DEF Everyone, YieldToNext, SwitchAway, HasThread
    <3>2. \A c \in Coroutine \ {current_id} : parked_resume'[c] = parked_resume[c]
      BY <1>0, <2>1 DEF YieldToNext, EnqueueCurrent, SchedTypeOK
    <3>3. \A c \in Green : c >= next_id => parked_resume'[c] = parked_resume[c]
      BY <3>1, <3>2, ReadyIsBorn
    <3> QED
      BY <2>1, <3>1, <3>3, SiteKept DEF YieldToNext, parkVars
  <2>2. CASE ReturnGreen
    BY <1>4, <2>0, <2>2 DEF ReturnGreen, SwitchAway, HasThread
  <2>3. CASE ReturnMain \/ RaiseCancelled
    BY <1>1, <2>0, <2>3 DEF ReturnMain, RaiseCancelled
  <2>4. CASE BlockingOffload /\ ~RaiseCancelled
    BY <2>0, <2>4, SiteParked DEF BlockingOffload, Park, SwitchAway, HasThread
  <2>5. ASSUME NEW g \in Green, JoinLive(g), ~RaiseCancelled PROVE SiteInv'
    <3>1. CASE UNCHANGED <<schedVars, site>>
      BY <1>1, <2>0, <3>1
    <3>2. CASE ~UNCHANGED <<schedVars, site>>
      BY <2>0, <2>5, <3>2, SiteParked DEF JoinLive, Park, SwitchAway, HasThread
    <3> QED
      BY <3>1, <3>2
  <2>6. ASSUME NEW d \in Deferreds, JoinUnsettled(d), ~RaiseCancelled PROVE SiteInv'
    <3>1. CASE UNCHANGED <<schedVars, site>>
      BY <1>1, <2>0, <3>1
    <3>2. CASE ~UNCHANGED <<schedVars, site>>
      BY <2>0, <2>6, <3>2, SiteParked DEF JoinUnsettled, Park, SwitchAway, HasThread
    <3> QED
      BY <3>1, <3>2
  <2>7. ASSUME NEW s \in Delays, Wait(s), ~RaiseCancelled PROVE SiteInv'
    <3>1. CASE UNCHANGED <<schedVars, site>>
      BY <1>1, <2>0, <3>1
    <3>2. CASE ~UNCHANGED <<schedVars, site>>
      BY <2>0, <2>7, <3>2, SiteParked DEF Wait, Park, SwitchAway, HasThread
    <3> QED
      BY <3>1, <3>2
  <2> QED
    BY <1>6, <2>1, <2>2, <2>3, <2>4, <2>5, <2>6, <2>7 DEF LeaveOp
<1>7. CASE Unwind
  <2>1. CASE Caught \/ FailMain
    BY <1>1, <2>1 DEF Caught, FailMain, HasThread
  <2>2. CASE FailGreen
    BY <1>4, <2>2 DEF FailGreen, SwitchAway, HasThread
  <2> QED
    BY <1>7, <2>1, <2>2 DEF Unwind
<1>8. CASE Pick
  <2>1. CASE PickReady
    <3> DEFINE next == Head(queue)
    <3>1. next \in Queued /\ next \in Coroutine /\ pc # "ended" /\ Placed
      BY <1>0, <2>1, TailMoves DEF PickReady, PlaceInv, Placed, Unique, SchedTypeOK
    <3>2. next \in Everyone /\ next \notin InJoin \cup InIo \cup InTimer \cup InDefer
      BY <3>1 DEF Placed, Apart, Everyone
    <3>3. /\ site'[next] = Nothing /\ \A c \in Coroutine : c # next => site'[c] = site[c]
          /\ \A c \in Coroutine : c # next => parked_resume'[c] = parked_resume[c]
          /\ current_id' = next /\ UNCHANGED parkVars /\ next_id' = next_id
      BY <1>0, <2>1, <3>1 DEF PickReady, TypeOK, SchedTypeOK
    <3>4. \A p \in blocked : site'[p.thread] = site[p.thread]
      BY <1>0, <3>2, <3>3 DEF InJoin, Threads, SchedTypeOK
    <3>5. \A p \in io_blocked : site'[p.thread] = site[p.thread]
      BY <1>0, <3>2, <3>3 DEF InIo, Threads, SchedTypeOK
    <3>6. \A p \in timer_blocked : site'[p.thread] = site[p.thread]
      BY <1>0, <3>2, <3>3 DEF InTimer, Threads, SchedTypeOK
    <3>7. \A p \in deferred_blocked : site'[p.thread] = site[p.thread]
      BY <1>0, <3>2, <3>3 DEF InDefer, Threads, SchedTypeOK
    <3>8. ASSUME NEW c \in Green, c >= next_id
          PROVE  site'[c] = Nothing /\ parked_resume'[c] = None
      <4>1. c # next /\ c \in Coroutine
        BY <3>1, <3>2, <3>8, SomewhereIsBorn DEF Green, Coroutine
      <4> QED
        BY <3>3, <3>8, <4>1 DEF SiteInv
    <3> QED
      BY <3>3, <3>4, <3>5, <3>6, <3>7, <3>8 DEF SiteInv, parkVars
  <2>2. CASE PumpIo
    BY <1>2, <2>2 DEF PumpIo, PollIoCompletions, HasThread
  <2>3. CASE SleepToNextTimer
    BY <1>3, <2>3 DEF SleepToNextTimer, HasThread
  <2>4. CASE PickNone
    BY <1>1, <2>4 DEF PickNone, HasThread
  <2> QED
    BY <1>8, <2>1, <2>2, <2>3, <2>4 DEF Pick
<1>9. CASE Poll
  <2>1. CASE io_blocked # {}
    BY <1>2, <1>9, <2>1 DEF Poll, PollIoCompletions, HasThread
  <2>2. CASE io_blocked = {}
    BY <1>9, <2>2, SiteKept DEF Poll, HasThread
  <2> QED
    BY <2>1, <2>2
<1>10. CASE FireTimers
  <2>1. CASE BlockingTimersOk /\ timer_blocked # {}
    BY <1>3, <1>10, <2>1 DEF FireTimers, HasThread
  <2>2. CASE ~(BlockingTimersOk /\ timer_blocked # {})
    BY <1>10, <2>2, SiteKept DEF FireTimers, HasThread
  <2> QED
    BY <2>1, <2>2
<1>11. CASE (\E j \in Jobs : Post(j)) \/ Tick \/ Terminated \/ UNCHANGED vars
  BY <1>1, <1>11 DEF Post, Tick, Terminated, vars, vmVars, HasThread
<1> QED
  BY <1>5, <1>6, <1>7, <1>8, <1>9, <1>10, <1>11 DEF Next

\* A job that runs keeps its id, a new one takes the next, and one whose
\* outcome is in the mailbox has left.
LEMMA JobSteps ==
  ASSUME [Next]_vars
  PROVE  /\ running_jobs' \subseteq running_jobs \cup {next_job_id}
         /\ \/ UNCHANGED <<running_jobs, next_job_id>> /\ mailbox' \in {mailbox, EmptyMailbox}
            \/ /\ next_job_id \in Jobs /\ next_job_id' = next_job_id + 1
               /\ running_jobs' = running_jobs \cup {next_job_id} /\ mailbox' = mailbox
            \/ /\ next_job_id' = next_job_id
               /\ \E j \in running_jobs :
                    /\ running_jobs' = running_jobs \ {j}
                    /\ \E o : mailbox' = [mailbox EXCEPT ![j] = o]
<1>1. CASE StayOp
  BY <1>1 DEF StayOp, Go, YieldAlone, BlockingInline, RaiseOp, JoinFinished, JoinSettled, Cancel,
              Resolve, Reject, Settle, jobVars
<1>2. CASE LeaveOp
  <2>1. CASE BlockingOffload /\ ~RaiseCancelled
    BY <2>1 DEF BlockingOffload
  <2>2. CASE RaiseCancelled
    BY <2>2 DEF RaiseCancelled, jobVars
  <2>3. CASE ~BlockingOffload /\ ~RaiseCancelled
    BY <1>2, <2>3 DEF LeaveOp, YieldToNext, ReturnGreen, ReturnMain, JoinLive, JoinUnsettled,
                      Wait, Finish, jobVars
  <2> QED
    BY <2>1, <2>2, <2>3
<1>3. CASE Unwind
  BY <1>3 DEF Unwind, Caught, FailGreen, FailMain, Finish, jobVars
<1>4. CASE Pick
  BY <1>4 DEF Pick, PickReady, PumpIo, PollIoCompletions, SleepToNextTimer, PickNone, jobVars
<1>5. CASE Poll \/ FireTimers
  BY <1>5 DEF Poll, PollIoCompletions, FireTimers, jobVars
<1>6. ASSUME NEW j \in Jobs, Post(j)
      PROVE  /\ next_job_id' = next_job_id /\ j \in running_jobs
             /\ running_jobs' = running_jobs \ {j}
             /\ \E o : mailbox' = [mailbox EXCEPT ![j] = o]
  BY <1>6 DEF Post
<1>7. CASE Tick \/ Terminated \/ UNCHANGED vars
  BY <1>7 DEF Tick, Terminated, vars, vmVars, jobVars
<1> QED
  BY <1>1, <1>2, <1>3, <1>4, <1>5, <1>6, <1>7 DEF Next

\* A site is left as it is, cleared, or set by a park; only an offloaded call
\* parks on a job, and on the one whose id it has just taken.
LEMMA SiteSteps ==
  ASSUME TypeOK, [Next]_vars, NEW c \in Coroutine, NEW j, site'[c] = OnJob(j), site[c] # OnJob(j)
  PROVE  j = next_job_id /\ next_job_id' = next_job_id + 1
<1>1. site' # site
  OBVIOUS
<1>2. site \in [Coroutine -> Sites]
  BY DEF TypeOK
<1>3. CASE StayOp
  BY <1>1, <1>3 DEF StayOp, Go, YieldAlone, BlockingInline, RaiseOp, JoinFinished, JoinSettled,
                    Cancel, Resolve, Reject, Settle, Deliver
<1>4. CASE LeaveOp
  <2>1. ASSUME NEW what, site' = [site EXCEPT ![current_id] = what] PROVE what = OnJob(j)
    BY <1>2, <2>1
  <2>2. CASE BlockingOffload /\ ~RaiseCancelled
    BY <2>1, <2>2, SiteFacts DEF BlockingOffload, Park
  <2>3. CASE RaiseCancelled
    BY <1>1, <2>3 DEF RaiseCancelled
  <2>4. CASE YieldToNext \/ ReturnGreen \/ ReturnMain
    BY <1>1, <2>4 DEF YieldToNext, ReturnGreen, ReturnMain, Finish
  <2>5. ASSUME NEW g \in Green, JoinLive(g), ~RaiseCancelled PROVE FALSE
    BY <1>1, <2>1, <2>5, SiteFacts DEF JoinLive, Park
  <2>6. ASSUME NEW d \in Deferreds, JoinUnsettled(d), ~RaiseCancelled PROVE FALSE
    BY <1>1, <2>1, <2>6, SiteFacts DEF JoinUnsettled, Park
  <2>7. ASSUME NEW s \in Delays, Wait(s), ~RaiseCancelled PROVE FALSE
    BY <1>1, <2>1, <2>7, SiteFacts DEF Wait, Park
  <2> QED
    BY <1>4, <2>2, <2>3, <2>4, <2>5, <2>6, <2>7 DEF LeaveOp
<1>5. CASE Unwind
  BY <1>1, <1>5 DEF Unwind, Caught, FailGreen, FailMain, Finish
<1>6. CASE Pick
  <2>1. CASE PickReady
    BY <1>2, <2>1, SiteFacts DEF PickReady
  <2>2. CASE ~PickReady
    BY <1>1, <1>6, <2>2 DEF Pick, PumpIo, SleepToNextTimer, PickNone
  <2> QED
    BY <2>1, <2>2
<1>7. CASE Poll \/ FireTimers \/ (\E k \in Jobs : Post(k)) \/ Tick \/ Terminated \/ UNCHANGED vars
  BY <1>1, <1>7 DEF Poll, FireTimers, Post, Tick, Terminated, vars, vmVars
<1> QED
  BY <1>3, <1>4, <1>5, <1>6, <1>7 DEF Next

\* Every step keeps the ids of jobs fresh.
LEMMA JobStep == TypeOK /\ JobInv /\ [Next]_vars => JobInv'
<1> SUFFICES ASSUME TypeOK, JobInv, [Next]_vars PROVE JobInv'
  OBVIOUS
<1>0. /\ next_job_id \in Nat /\ running_jobs \subseteq Jobs /\ \A j \in Jobs : j \in Nat
      /\ mailbox \in [Jobs -> Outcomes \cup {None}]
  BY DEF TypeOK, Jobs
<1>1. PICK n \in Nat : n = next_job_id' /\ (n = next_job_id \/ n = next_job_id + 1)
  BY <1>0, JobSteps
<1>2. \A j \in Nat : j < next_job_id => j < n
  BY <1>0, <1>1
<1>3. /\ \A j \in running_jobs' : j < n
      /\ \A j \in Jobs : mailbox'[j] # None => j \notin running_jobs' /\ j < n
  <2>1. CASE UNCHANGED <<running_jobs, next_job_id>> /\ mailbox' \in {mailbox, EmptyMailbox}
    BY <1>0, <1>2, <2>1 DEF JobInv, EmptyMailbox
  <2>2. CASE /\ next_job_id \in Jobs /\ next_job_id' = next_job_id + 1
             /\ running_jobs' = running_jobs \cup {next_job_id} /\ mailbox' = mailbox
    <3>1. next_job_id < n /\ ~(next_job_id < next_job_id)
      BY <1>0, <1>1, <2>2
    <3>2. \A j \in running_jobs' : j < n
      BY <1>0, <1>2, <2>2, <3>1 DEF JobInv
    <3>3. ASSUME NEW j \in Jobs, mailbox[j] # None PROVE j \notin running_jobs' /\ j < n
      BY <1>0, <1>2, <2>2, <3>1, <3>3 DEF JobInv
    <3> QED
      BY <2>2, <3>2, <3>3
  <2>3. ASSUME next_job_id' = next_job_id, NEW j \in running_jobs,
               running_jobs' = running_jobs \ {j},
               NEW o, mailbox' = [mailbox EXCEPT ![j] = o]
        PROVE  /\ \A k \in running_jobs' : k < n
               /\ \A k \in Jobs : mailbox'[k] # None => k \notin running_jobs' /\ k < n
    BY <1>0, <1>2, <2>3 DEF JobInv
  <2> QED
    BY <2>1, <2>2, <2>3, JobSteps
<1>4. ASSUME NEW c \in Coroutine, NEW j \in Jobs, site'[c] = OnJob(j) PROVE j < n
  <2>1. CASE site[c] = OnJob(j)
    BY <1>0, <1>2, <2>1 DEF JobInv
  <2>2. CASE site[c] # OnJob(j)
    <3>1. j = next_job_id /\ next_job_id' = next_job_id + 1
      BY <1>4, <2>2, SiteSteps
    <3> QED
      BY <1>0, <1>1, <3>1
  <2> QED
    BY <2>1, <2>2
<1> QED
  BY <1>1, <1>3, <1>4 DEF JobInv

-----------------------------------------------------------------------------
(* A coroutine is delivered what its code waits for. *)

\* DeliversWhatIsAwaited, of one coroutine of the run-queue.
DeliversTo(c) ==
  LET o == parked_resume[c] IN
  /\ site[c] = Nothing => o \in {None, Value("null")}
  /\ \A g \in Green : site[c] = OnGreen(g) => o \in {result[g], Value("null")}
  /\ \A d \in Deferreds : site[c] = OnDeferred(d) => o \in {settled[d], Value("null")}
  /\ \A j \in Jobs : site[c] = OnJob(j) =>
       \/ o = Value("null")
       \/ o \in JobOutcomes /\ j \notin running_jobs
  /\ site[c] # Nothing /\ o = Value("null") => c # Main /\ cancel_requested[c]
  /\ site[c] # Nothing => o # None

OutcomeInvs == PlaceInv /\ OutcomeInv /\ SiteInv /\ JobInv

\* A request to a coroutine that stays in the run-queue is not consumed.
LEMMA QueuedKeepsRequest ==
  ASSUME PlaceInv, OutcomeInv, [Next]_vars, NEW c \in Green, c \in Queued', cancel_requested[c]
  PROVE  cancel_requested'[c]
<1>1. CASE ConsumesNothing
  BY <1>1 DEF ConsumesNothing
<1>2. ASSUME NEW g \in Green, Consumes(g) PROVE cancel_requested'[c]
  <2>1. PlaceInv' /\ HasThread'
    BY <1>2, PlaceStep DEF Consumes, HasThread
  <2>2. (Placed /\ Running = {current_id})'
    BY <2>1 DEF PlaceInv, HasThread, Running
  <2>3. c # g
    BY <1>2, <2>2 DEF Consumes, Placed, Apart
  <2>4. cancel_requested \in [Green -> BOOLEAN]
    BY DEF PlaceInv, TypeOK
  <2> QED
    BY <1>2, <2>3, <2>4 DEF Consumes
<1> QED
  BY <1>1, <1>2, CancelSteps

\* What a ready coroutine has been handed stays what it waits for: outcomes
\* are final, ids of jobs are fresh and a request stands until it is raised.
LEMMA DeliveryKept ==
  ASSUME OutcomeInvs, [Next]_vars, NEW c \in Queued, c \in Queued', DeliversTo(c),
         parked_resume'[c] = parked_resume[c], site'[c] = site[c]
  PROVE  DeliversTo(c)'
<1> DEFINE o == parked_resume[c]
<1>0. TypeOK /\ SchedTypeOK /\ c \in Coroutine
  BY ParkedAreCoroutines DEF OutcomeInvs, PlaceInv, TypeOK
<1>1. ASSUME NEW g \in Green, site[c] = OnGreen(g) PROVE o \in {result'[g], Value("null")}
  BY <1>1, OutcomesKept, SiteFacts DEF OutcomeInvs, DeliversTo
<1>2. ASSUME NEW d \in Deferreds, site[c] = OnDeferred(d)
      PROVE  o \in {settled'[d], Value("null")}
  BY <1>2, OutcomesKept, SiteFacts DEF OutcomeInvs, DeliversTo
<1>3. ASSUME NEW j \in Jobs, site[c] = OnJob(j)
      PROVE  o = Value("null") \/ (o \in JobOutcomes /\ j \notin running_jobs')
  <2>1. j < next_job_id /\ j \in Nat /\ next_job_id \in Nat
    BY <1>0, <1>3 DEF OutcomeInvs, JobInv, TypeOK, Jobs
  <2>2. j # next_job_id
    BY <2>1
  <2> QED
    BY <1>3, <2>2, JobSteps DEF DeliversTo
<1>4. ASSUME site[c] # Nothing, o = Value("null") PROVE c # Main /\ cancel_requested'[c]
  <2>1. c # Main /\ cancel_requested[c]
    BY <1>4 DEF DeliversTo
  <2>2. c \in Green
    BY <1>0, <2>1 DEF Coroutine, Green, Main
  <2> QED
    BY <2>1, <2>2, QueuedKeepsRequest DEF OutcomeInvs
<1> QED
  BY <1>1, <1>2, <1>3, <1>4 DEF DeliversTo

\* A coroutine resumes from a yield, from a wait, or for the first time.
LEMMA DeliversNothing ==
  ASSUME NEW c, site'[c] = Nothing, parked_resume'[c] \in {None, Value("null")}
  PROVE  DeliversTo(c)'
BY SiteFacts DEF DeliversTo

\* A joiner is handed the result' of the coroutine it joined.
LEMMA DeliversResult ==
  ASSUME NEW c, NEW g, site'[c] = OnGreen(g), parked_resume'[c] = result'[g], result'[g] \in Ends
  PROVE  DeliversTo(c)'
<1>1. result'[g] # None /\ result'[g] # Value("null")
  BY ResumeFacts
<1>2. site'[c] # Nothing /\ \A h \in Green : site'[c] = OnGreen(h) => h = g
  BY SiteFacts
<1>3. /\ \A d \in Deferreds : site'[c] # OnDeferred(d)
      /\ \A j \in Jobs : site'[c] # OnJob(j)
  BY SiteFacts
<1> QED
  BY <1>1, <1>2, <1>3 DEF DeliversTo

\* An awaiter is handed what the deferred settled' with.
LEMMA DeliversSettlement ==
  ASSUME NEW c, NEW d, site'[c] = OnDeferred(d), parked_resume'[c] = settled'[d],
         settled'[d] \in Settlements
  PROVE  DeliversTo(c)'
<1>1. settled'[d] # None /\ settled'[d] # Value("null")
  BY ResumeFacts
<1>2. site'[c] # Nothing /\ \A e \in Deferreds : site'[c] = OnDeferred(e) => e = d
  BY SiteFacts
<1>3. /\ \A g \in Green : site'[c] # OnGreen(g)
      /\ \A j \in Jobs : site'[c] # OnJob(j)
  BY SiteFacts
<1> QED
  BY <1>1, <1>2, <1>3 DEF DeliversTo

\* The caller of an offloaded call is handed what the call came back with.
LEMMA DeliversCompletion ==
  ASSUME NEW c, NEW j, site'[c] = OnJob(j), parked_resume'[c] \in JobOutcomes,
         j \notin running_jobs'
  PROVE  DeliversTo(c)'
<1>1. parked_resume'[c] # None /\ parked_resume'[c] # Value("null")
  BY ResumeFacts
<1>2. site'[c] # Nothing /\ \A k \in Jobs : site'[c] = OnJob(k) => k = j
  BY SiteFacts
<1>3. /\ \A g \in Green : site'[c] # OnGreen(g)
      /\ \A d \in Deferreds : site'[c] # OnDeferred(d)
  BY SiteFacts
<1> QED
  BY <1>1, <1>2, <1>3 DEF DeliversTo

\* A coroutine torn out of its park has its request standing.
LEMMA DeliversRequest ==
  ASSUME NEW c, c # Main, parked_resume'[c] = Value("null"), cancel_requested'[c]
  PROVE  DeliversTo(c)'
BY DEF DeliversTo, Value, None

\* Every step hands each coroutine it makes ready what it waits for.
LEMMA DeliversStep ==
  ASSUME OutcomeInvs, \A c \in Queued : DeliversTo(c), [Next]_vars
  PROVE  \A c \in Queued' : DeliversTo(c)'
<1>0. /\ TypeOK /\ SchedTypeOK /\ PlaceInv /\ OutcomeInv /\ SiteInv /\ JobInv
      /\ OutcomeInv' /\ Queued \subseteq Coroutine
  BY OutcomeStep, ParkedAreCoroutines DEF OutcomeInvs, PlaceInv, TypeOK
<1>1. ASSUME NEW S, Queued' \subseteq Queued \cup S,
             \A c \in S : DeliversTo(c)',
             \A c \in Queued' \ S : parked_resume'[c] = parked_resume[c] /\ site'[c] = site[c]
      PROVE  \A c \in Queued' : DeliversTo(c)'
  BY <1>1, DeliveryKept
<1>r. ASSUME Queued' \subseteq Queued,
             \A c \in Queued' : parked_resume'[c] = parked_resume[c] /\ site'[c] = site[c]
      PROVE  \A c \in Queued' : DeliversTo(c)'
  BY <1>r, DeliveryKept
<1>2. ASSUME UNCHANGED <<queue, parked_resume, site>> PROVE \A c \in Queued' : DeliversTo(c)'
  <2>1. Queued' = Queued
    BY <1>2 DEF Queued
  <2> QED
    BY <1>2, <1>r, <2>1
<1>3. ASSUME UNCHANGED <<queue, parked_resume>>, HasThread,
             NEW what, site' = [site EXCEPT ![current_id] = what]
      PROVE  \A c \in Queued' : DeliversTo(c)'
  <2>1. Queued' = Queued /\ current_id \notin Queued
    BY <1>0, <1>3, RunningIsAlone DEF Queued
  <2>2. \A c \in Coroutine : c # current_id => site'[c] = site[c]
    BY <1>0, <1>3 DEF TypeOK
  <2> QED
    BY <1>0, <1>3, <1>r, <2>1, <2>2
<1>4. ASSUME NEW o \in Ends, Finish(o), HasThread, current_id # Main
      PROVE  \A c \in Queued' : DeliversTo(c)'
  <2>1. Placed /\ current_id \in Coroutine
    BY <1>0, <1>4, RunningIsAlone
  <2>2. Queued' = Queued \cup Joiners(current_id)
    BY <1>0, <1>4, <2>1, WakeJoinersMoves DEF Placed, Finish
  <2>3. site' = site /\ Joiners(current_id) \subseteq Coroutine
    BY <1>0, <1>4, ParkedAreCoroutines DEF Finish, Joiners, Threads
  <2>4. parked_resume' =
          [c \in Coroutine |-> IF c \in Joiners(current_id) THEN o ELSE parked_resume[c]]
    BY <1>4 DEF Finish, WakeJoiners, MakeReady
  <2>5. ASSUME NEW c \in Joiners(current_id) PROVE DeliversTo(c)'
    <3>1. PICK p \in blocked : p.thread = c /\ p.awaiting = current_id
      BY DEF Joiners, Threads
    <3>2. site[c] = OnGreen(p.awaiting)
      BY <1>0, <3>1 DEF SiteInv
    <3>3. current_id \in Green /\ result'[current_id] = o
      BY <1>0, <1>4, <2>1 DEF Finish, TypeOK, Coroutine, Green, Main
    <3>4. parked_resume'[c] = o
      BY <2>3, <2>4
    <3> QED
      BY <1>4, <2>3, <3>1, <3>2, <3>3, <3>4, DeliversResult
  <2>6. \A c \in Queued \ Joiners(current_id) : parked_resume'[c] = parked_resume[c]
    BY <1>0, <2>4
  <2> QED
    BY <1>1, <2>2, <2>3, <2>5, <2>6
<1>5. ASSUME PollIoCompletions, pc # "ended", UNCHANGED <<site, running_jobs>>
      PROVE  \A c \in Queued' : DeliversTo(c)'
  <2>1. /\ Served \subseteq InIo
        /\ \A c \in Coroutine \ Served : parked_resume'[c] = parked_resume[c]
        /\ \A c \in Served : \E p \in io_blocked :
             /\ p.thread = c /\ mailbox[p.job_id] # None
             /\ parked_resume'[c] = mailbox[p.job_id]
    BY <1>0, <1>5, IoResumes DEF PollIoCompletions
  <2>2. Queued' \subseteq Queued \cup Served
    <3>1. Placed
      BY <1>0, <1>5 DEF PlaceInv
    <3>2. PICK U \in SUBSET InIo : Queued' = Queued \cup U /\ InIo' = InIo \ U
      BY <1>0, <1>5, <3>1, WakeIoMoves DEF Placed, PollIoCompletions
    <3>3. ASSUME NEW c \in U, c \notin Served PROVE FALSE
      <4>1. PICK p \in io_blocked : p.thread = c
        BY <3>2, <3>3 DEF InIo, Threads
      <4>2. p \notin io_blocked'
        BY <3>2, <3>3, <4>1 DEF InIo, Threads
      <4>3. mailbox[p.job_id] # None
        BY <1>5, <4>1, <4>2 DEF PollIoCompletions, WakeIo
      <4> QED
        BY <3>3, <4>1, <4>3 DEF Served, Threads
    <3> QED
      BY <3>2, <3>3
  <2>3. ASSUME NEW c \in Served PROVE DeliversTo(c)'
    <3>1. PICK p \in io_blocked : /\ p.thread = c /\ mailbox[p.job_id] # None
                                  /\ parked_resume'[c] = mailbox[p.job_id]
      BY <2>1
    <3>2. p.job_id \in Jobs
      BY <1>0 DEF SchedTypeOK
    <3>3. mailbox[p.job_id] \in JobOutcomes /\ p.job_id \notin running_jobs
      BY <1>0, <3>1, <3>2 DEF OutcomeInv, JobInv
    <3>4. site[c] = OnJob(p.job_id)
      BY <1>0, <3>1 DEF SiteInv
    <3> QED
      BY <1>5, <3>1, <3>3, <3>4, DeliversCompletion
  <2>4. \A c \in Queued \ Served : parked_resume'[c] = parked_resume[c]
    BY <1>0, <2>1
  <2> QED
    BY <1>1, <1>5, <2>2, <2>3, <2>4
<1>6. ASSUME WakeTimers(now), pc # "ended", UNCHANGED site
      PROVE  \A c \in Queued' : DeliversTo(c)'
  <2> DEFINE W == Threads(Due(now))
  <2>1. parked_resume' =
          [c \in Coroutine |-> IF c \in W THEN Value("null") ELSE parked_resume[c]]
    BY <1>6 DEF WakeTimers, MakeReady
  <2>2. W \subseteq Coroutine
    BY <1>0 DEF Due, Threads, SchedTypeOK
  <2>3. ASSUME NEW c \in W PROVE DeliversTo(c)'
    <3>1. PICK p \in timer_blocked : p.thread = c
      BY DEF Due, Threads
    <3>2. site[c] = Nothing
      BY <1>0, <3>1 DEF SiteInv
    <3> QED
      BY <1>6, <2>1, <2>2, <3>2, DeliversNothing
  <2>4. Queued' \subseteq Queued \cup W
    <3>1. Placed
      BY <1>0, <1>6 DEF PlaceInv
    <3>2. PICK U \in SUBSET InTimer : Queued' = Queued \cup U /\ InTimer' = InTimer \ U
      BY <1>0, <1>6, <3>1, WakeTimersMoves DEF Placed
    <3>3. ASSUME NEW c \in U, c \notin W PROVE FALSE
      <4>1. PICK p \in timer_blocked : p.thread = c
        BY <3>2, <3>3 DEF InTimer, Threads
      <4>2. p \notin timer_blocked'
        BY <3>2, <3>3, <4>1 DEF InTimer, Threads
      <4>3. p \in Due(now)
        BY <1>6, <4>1, <4>2 DEF WakeTimers
      <4> QED
        BY <3>3, <4>1, <4>3 DEF Threads
    <3> QED
      BY <3>2, <3>3
  <2>5. \A c \in Queued \ W : parked_resume'[c] = parked_resume[c]
    BY <1>0, <2>1
  <2> QED
    BY <1>1, <1>6, <2>3, <2>4, <2>5
<1>7. CASE StayOp
  <2>1. CASE Go
    <3>1. /\ Queued' = Queued \cup {next_id} /\ next_id \in Green /\ next_id \in Coroutine
          /\ UNCHANGED <<parked_resume, site>>
      BY <1>0, <2>1, AppendMoves DEF Go, EnqueueFresh, Green, Coroutine
    <3>2. PICK n \in Coroutine : n = next_id
      BY <3>1
    <3>3. site'[n] = Nothing /\ parked_resume'[n] = None
      BY <1>0, <3>1, <3>2 DEF SiteInv, SchedTypeOK
    <3> DEFINE fresh == {n}
    <3>4. \A c \in fresh : DeliversTo(c)'
      BY <3>3, DeliversNothing
    <3>5. Queued' \subseteq Queued \cup fresh
      BY <3>1, <3>2
    <3>6. \A c \in Queued' \ fresh : parked_resume'[c] = parked_resume[c] /\ site'[c] = site[c]
      BY <3>1
    <3> HIDE DEF fresh
    <3> QED
      BY <1>1, <3>4, <3>5, <3>6
  <2>2. CASE YieldAlone \/ BlockingInline \/ RaiseOp
    BY <1>2, <2>2 DEF YieldAlone, BlockingInline, RaiseOp, Deliver, schedVars
  <2>3. ASSUME NEW g \in Green, JoinFinished(g) PROVE \A c \in Queued' : DeliversTo(c)'
    BY <1>2, <2>3 DEF JoinFinished, Deliver, schedVars
  <2>4. ASSUME NEW d \in Deferreds, JoinSettled(d) PROVE \A c \in Queued' : DeliversTo(c)'
    BY <1>2, <2>4 DEF JoinSettled, Deliver, schedVars
  <2>5. ASSUME NEW g \in Green, Cancel(g) PROVE \A c \in Queued' : DeliversTo(c)'
    <3>1. CASE UNCHANGED <<queue, parked_resume>>
      BY <1>2, <2>5, <3>1 DEF Cancel
    <3>2. CASE ~UNCHANGED <<queue, parked_resume>>
      <4>1. /\ queue' = Append(queue, g)
            /\ parked_resume' = [parked_resume EXCEPT ![g] = Value("null")]
            /\ cancel_requested' = [cancel_requested EXCEPT ![g] = TRUE]
            /\ site' = site
        BY <2>5, <3>2 DEF Cancel, CancelUnpark
      <4>2. g \in Coroutine /\ g # Main
        BY DEF Green, Coroutine, Main
      <4>3. Queued' = Queued \cup {g}
        BY <1>0, <4>1, <4>2, AppendMoves
      <4>4. parked_resume'[g] = Value("null") /\ cancel_requested'[g]
        BY <1>0, <4>1, <4>2 DEF SchedTypeOK, TypeOK
      <4>5. \A c \in {g} : DeliversTo(c)'
        BY <4>2, <4>4, DeliversRequest
      <4>6. \A c \in Queued \ {g} : parked_resume'[c] = parked_resume[c]
        BY <1>0, <4>1 DEF SchedTypeOK
      <4> QED
        BY <1>1, <4>1, <4>3, <4>5, <4>6
    <3> QED
      BY <3>1, <3>2
  <2>6. ASSUME NEW d \in Deferreds, NEW o \in Settlements, Settle(d, o)
        PROVE  \A c \in Queued' : DeliversTo(c)'
    <3>1. CASE settled[d] # None
      BY <1>2, <2>6, <3>1 DEF Settle
    <3>2. CASE settled[d] = None
      <4>1. /\ WakeDeferred(d, o) /\ site' = site /\ settled' = [settled EXCEPT ![d] = o]
            /\ pc # "ended"
        BY <2>6, <3>2 DEF Settle
      <4>2. Placed
        BY <1>0, <4>1 DEF PlaceInv
      <4>3. Queued' = Queued \cup Awaiters(d)
        BY <1>0, <4>1, <4>2, WakeDeferredMoves DEF Placed
      <4>4. Awaiters(d) \subseteq Coroutine
        BY <1>0 DEF Awaiters, Threads, SchedTypeOK
      <4>5. parked_resume' =
              [c \in Coroutine |-> IF c \in Awaiters(d) THEN o ELSE parked_resume[c]]
        BY <4>1 DEF WakeDeferred, MakeReady
      <4>6. ASSUME NEW c \in Awaiters(d) PROVE DeliversTo(c)'
        <5>1. PICK p \in deferred_blocked : p.thread = c /\ p.deferred = d
          BY DEF Awaiters, Threads
        <5>2. site[c] = OnDeferred(d)
          BY <1>0, <5>1 DEF SiteInv
        <5>3. settled'[d] = o /\ parked_resume'[c] = o
          BY <1>0, <4>1, <4>4, <4>5 DEF TypeOK
        <5> QED
          BY <2>6, <4>1, <5>2, <5>3, DeliversSettlement
      <4>7. \A c \in Queued \ Awaiters(d) : parked_resume'[c] = parked_resume[c]
        BY <1>0, <4>5
      <4> QED
        BY <1>1, <4>1, <4>3, <4>6, <4>7
    <3> QED
      BY <3>1, <3>2
  <2> QED
    BY <1>7, <2>1, <2>2, <2>3, <2>4, <2>5, <2>6 DEF StayOp, Resolve, Reject, Settlements
<1>8. CASE LeaveOp
  <2>0. HasThread
    BY <1>8 DEF HasThread, LeaveOp, YieldToNext, BlockingOffload, ReturnGreen, ReturnMain,
                JoinLive, JoinUnsettled, Wait
  <2>1. CASE YieldToNext
    <3>1. PICK n \in Coroutine : n = current_id
      BY <1>0 DEF SchedTypeOK
    <3>2. /\ queue' = Append(queue, n) /\ site' = site
          /\ parked_resume' = [parked_resume EXCEPT ![n] = Value("null")]
      BY <2>1, <3>1 DEF YieldToNext, EnqueueCurrent
    <3>3. Queued' = Queued \cup {n}
      BY <1>0, <3>2, AppendMoves
    <3>4. site'[n] = Nothing /\ parked_resume'[n] = Value("null")
      BY <1>0, <2>0, <3>1, <3>2 DEF SiteInv, SchedTypeOK
    <3>5. \A c \in {n} : DeliversTo(c)'
      BY <3>4, DeliversNothing
    <3>6. \A c \in Queued \ {n} : parked_resume'[c] = parked_resume[c]
      BY <1>0, <3>2 DEF SchedTypeOK
    <3> QED
      BY <1>1, <3>2, <3>3, <3>5, <3>6
  <2>2. CASE ReturnGreen
    BY <1>4, <2>0, <2>2 DEF ReturnGreen, Ends
  <2>3. CASE ReturnMain \/ RaiseCancelled
    BY <1>2, <2>3 DEF ReturnMain, RaiseCancelled, schedVars
  <2>4. CASE BlockingOffload /\ ~RaiseCancelled
    BY <1>3, <2>0, <2>4 DEF BlockingOffload, Park
  <2>5. ASSUME NEW g \in Green, JoinLive(g), ~RaiseCancelled
        PROVE  \A c \in Queued' : DeliversTo(c)'
    BY <1>2, <1>3, <2>0, <2>5 DEF JoinLive, Park, schedVars
  <2>6. ASSUME NEW d \in Deferreds, JoinUnsettled(d), ~RaiseCancelled
        PROVE  \A c \in Queued' : DeliversTo(c)'
    BY <1>2, <1>3, <2>0, <2>6 DEF JoinUnsettled, Park, schedVars
  <2>7. ASSUME NEW s \in Delays, Wait(s), ~RaiseCancelled
        PROVE  \A c \in Queued' : DeliversTo(c)'
    BY <1>2, <1>3, <2>0, <2>7 DEF Wait, Park, schedVars
  <2> QED
    BY <1>8, <2>1, <2>2, <2>3, <2>4, <2>5, <2>6, <2>7 DEF LeaveOp
<1>9. CASE Unwind
  <2>1. CASE Caught \/ FailMain
    BY <1>2, <2>1 DEF Caught, FailMain, schedVars
  <2>2. CASE FailGreen
    <3> DEFINE o == IF in_flight = Raise("cancelled") THEN Value("cancelled") ELSE in_flight
    <3>1. o \in Ends
      BY <1>0, <2>2 DEF FailGreen, OutcomeInv, ErrorsSeen, Ends
    <3>2. Finish(o) /\ HasThread /\ current_id # Main
      BY <2>2 DEF FailGreen, HasThread
    <3> QED
      BY <1>4, <3>1, <3>2
  <2> QED
    BY <1>9, <2>1, <2>2 DEF Unwind
<1>10. CASE Pick
  <2>1. CASE PickReady
    <3> DEFINE next == Head(queue)
    <3>1. Queued' = Queued \ {next} /\ next \in Queued
      BY <1>0, <2>1, TailMoves DEF PickReady, PlaceInv, Placed, Unique
    <3>2. \A c \in Coroutine : c # next =>
             parked_resume'[c] = parked_resume[c] /\ site'[c] = site[c]
      BY <1>0, <2>1 DEF PickReady, TypeOK, SchedTypeOK
    <3> QED
      BY <1>0, <1>r, <3>1, <3>2
  <2>2. CASE PumpIo
    BY <1>5, <2>2 DEF PumpIo
  <2>3. CASE SleepToNextTimer
    BY <1>6, <2>3 DEF SleepToNextTimer
  <2>4. CASE PickNone
    BY <1>2, <2>4 DEF PickNone, schedVars
  <2> QED
    BY <1>10, <2>1, <2>2, <2>3, <2>4 DEF Pick
<1>11. CASE Poll
  <2>1. CASE io_blocked # {}
    BY <1>5, <1>11, <2>1 DEF Poll
  <2>2. CASE io_blocked = {}
    BY <1>2, <1>11, <2>2 DEF Poll
  <2> QED
    BY <2>1, <2>2
<1>12. CASE FireTimers
  <2>1. CASE BlockingTimersOk /\ timer_blocked # {}
    BY <1>6, <1>12, <2>1 DEF FireTimers
  <2>2. CASE ~(BlockingTimersOk /\ timer_blocked # {})
    BY <1>2, <1>12, <2>2 DEF FireTimers
  <2> QED
    BY <2>1, <2>2
<1>13. CASE (\E j \in Jobs : Post(j)) \/ Tick \/ Terminated \/ UNCHANGED vars
  BY <1>2, <1>13 DEF Post, Tick, Terminated, vars, vmVars, schedVars
<1> QED
  BY <1>7, <1>8, <1>9, <1>10, <1>11, <1>12, <1>13 DEF Next

\* The four invariants hold in every reachable state.
LEMMA OutcomeInvariants == Spec => []OutcomeInvs
<1>1. Init => SiteInv /\ JobInv
  <2>1. ASSUME Init PROVE \A c \in Coroutine : site[c] = Nothing /\ parked_resume[c] = None
    BY <2>1 DEF Init, SchedInit
  <2>2. ASSUME Init PROVE current_id \in Coroutine /\ Green \subseteq Coroutine
    BY <2>2, BoundsAssumption DEF Init, SchedInit, Main, Coroutine, Green
  <2> QED
    BY <2>1, <2>2, SiteFacts DEF Init, SchedInit, SiteInv, JobInv
<1>2. PlaceInv => TypeOK
  BY DEF PlaceInv
<1> QED
  BY <1>1, <1>2, OutcomeInit, OutcomeStep, SiteStep, JobStep, PlaceInvariant, PTL
  DEF Spec, OutcomeInvs

\* Whoever is made ready is delivered the recorded outcome of what its code
\* waits for, or is torn out by a request that will replace it.
THEOREM DeliversWhatIsAwaitedAlways == Spec => []DeliversWhatIsAwaited
<1>1. Init => \A c \in Queued : DeliversTo(c)
  BY DEF Init, SchedInit, Queued
<1>2. (\A c \in Queued : DeliversTo(c)) => DeliversWhatIsAwaited
  BY DEF DeliversTo, DeliversWhatIsAwaited
<1>3. /\ OutcomeInvs /\ (\A c \in Queued : DeliversTo(c)) /\ [Next]_vars
      => (\A c \in Queued : DeliversTo(c))'
  BY DeliversStep
<1> QED
  BY <1>1, <1>2, <1>3, OutcomeInvariants, PTL DEF Spec

=============================================================================
