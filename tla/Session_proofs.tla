----------------------------- MODULE Session_proofs -----------------------------
(***************************************************************************)
(* Machine-checked proofs about a host's session, for any number of        *)
(* coroutines, jobs, deferreds, clock ticks, calls, drains and reloads:    *)
(*   SessionTypeCorrect           SessionSpec => []SessionTypeOK           *)
(*   SessionSurvivesAlways        SessionSpec => []SessionSurvives         *)
(*   EveryoneAccountedForAlways   SessionSpec => []EveryoneAccountedFor    *)
(*   KeepsPromisesAlways          SessionSpec => KeepsPromises             *)
(*   NobodyIsOvertakenInFramesEver                                         *)
(*                                SessionSpec => NobodyIsOvertakenInFrames *)
(* They rest on one inductive invariant, SessionInv.  What the actor's own *)
(* operations do is taken from GreenThreads_proofs and                     *)
(* GreenOutcomes_proofs, whose lemmas are about coroutines placed but for  *)
(* those set aside: main, while a drain runs; and what Awaiting sees of    *)
(* them from GreenRefinement_proofs.                                       *)
(***************************************************************************)
EXTENDS Session, GreenRefinement_proofs

-----------------------------------------------------------------------------
(* The invariants. *)

\* The types of what SessionTypeOK leaves out, and what a reload never leaves.
TypesInv ==
  /\ SessionTypeOK
  /\ in_flight \in Outcomes \cup {None}
  /\ cancel_requested \in [Green -> BOOLEAN]
  /\ settled \in [Deferreds -> Outcomes \cup {None}]
  /\ site \in [Coroutine -> Sites]
  /\ next_job_id \in 0..MaxJobs
  /\ running_jobs \subseteq Jobs
  /\ installed \in BOOLEAN

\* Who has main: the host's call until it parks, the drain, or, once it has
\* parked in a call, nobody the host could go on with.
CallInv ==
  /\ host \in {"call", "load"} => installed /\ pc # "frame"
  /\ pc = "frame" => InDrain
  /\ InDrain => pc \notin {"host", "panicked"}
  /\ strayed => host \in {"call", "load"} \/ (pc = "host" /\ ~Whole)
  /\ ~strayed => aside \/ (Whole /\ pc \notin {"pick", "panicked"})
  /\ ~strayed /\ ~InDrain /\ pc = "ended" => in_flight # HostYield
  /\ aside /\ current_id = Main => queue # <<>>
  /\ pc = "pick" /\ current_id = Main => in_flight = HostYield

\* Main, where the host or a drain keeps it.
Kept == IF MainIsKept THEN {Main} ELSE {}

\* The states in which the session's coroutines are in their places: all those
\* the host can go on from.
Sound == \/ ~strayed
         \/ pc \in {"poll", "timers", "exec", "raise", "pick", "frame"}
         \/ pc = "ended" /\ current_id = Main /\ in_flight # HostYield

\* A call's id is never given out again, across reloads too.
JobsKnown ==
  /\ \A j \in running_jobs : j < next_job_id
  /\ \A j \in Jobs : mailbox[j] # None => j < next_job_id

SessionInv ==
  /\ TypesInv
  /\ CallInv
  /\ Sound => PlacedBut(Kept)
  /\ Unborn
  /\ OutcomeInv
  /\ JoinsLive /\ JoinsOpen /\ CallsReturn
  /\ JobsKnown
  /\ ~forsaken

-----------------------------------------------------------------------------
(* Whose step it is. *)

\* The actor's thread is on its way: everything but the host's own steps.
Acting == pc \in {"poll", "timers", "exec", "raise", "pick"}

\* The steps of a session are those of the actor, two that a drain takes
\* otherwise, the workers', and the host's.
ActorStep == /\ Acting /\ Next /\ UNCHANGED hostVars
             /\ pc' = "ended" => ReturnMain \/ FailMain \/ (PickNone /\ ~InDrain)
DrainStep == InDrain /\ (WaitInDrain \/ NobodyInDrain) /\ UNCHANGED hostVars
PostStep  == (\E j \in Jobs : Post(j)) /\ UNCHANGED <<hostVars, strayed>>

\* The operations of a coroutine are those of the actor, `wait` in a drain aside.
LEMMA OperationIs ==
  ASSUME Operation
  PROVE  ActorStep \/ DrainStep
<1>1. CASE WaitInDrain
  BY <1>1 DEF Operation, DrainStep, WaitInDrain
<1>2. CASE StayOp
  <2>1. pc = "exec" /\ pc' # "ended"
    BY <1>2 DEF StayOp, Go, YieldAlone, BlockingInline, RaiseOp, JoinFinished, Cancel,
                JoinSettled, Resolve, Reject, Settle, Deliver, Continue, RaiseErr
  <2> QED
    BY <1>2, <2>1 DEF Operation, ActorStep, Acting, Next
<1>3. CASE LeaveOp
  <2>1. pc = "exec" /\ (pc' # "ended" \/ ReturnMain)
    BY <1>3 DEF LeaveOp, YieldToNext, BlockingOffload, ReturnGreen, JoinLive, JoinUnsettled,
                Wait, RaiseCancelled, SwitchAway, Park, RaiseErr, ReturnMain
  <2> QED
    BY <1>3, <2>1 DEF Operation, ActorStep, Acting, Next
<1> QED
  BY <1>1, <1>2, <1>3 DEF Operation, LeaveOp

\* So are the rest of what happens on its thread, `pick_next` in a drain aside.
LEMMA ThreadIs ==
  ASSUME Poll \/ FireTimers \/ Unwinding \/ Picking, UNCHANGED <<hostVars, strayed>>
  PROVE  ActorStep \/ DrainStep
<1>1. CASE Poll \/ FireTimers
  BY <1>1 DEF Poll, FireTimers, ActorStep, Acting, Next
<1>2. CASE Unwinding
  <2>1. pc = "raise" /\ (pc' # "ended" \/ FailMain) /\ Unwind
    BY <1>2 DEF Unwinding, Unwind, Caught, FailGreen, FailMain, Continue, SwitchAway
  <2> QED
    BY <2>1 DEF ActorStep, Acting, Next
<1>3. CASE Picking
  <2>1. CASE InDrain /\ NobodyInDrain
    BY <2>1 DEF DrainStep
  <2>2. CASE ~(InDrain /\ NobodyInDrain)
    <3>1. pc = "pick" /\ (pc' # "ended" \/ (PickNone /\ ~InDrain)) /\ Pick
      BY <1>3, <2>2 DEF Picking, PollInDrain, Pick, PickReady, PumpIo, PickNone, RaiseErr, Continue
    <3> QED
      BY <3>1 DEF ActorStep, Acting, Next
  <2> QED
    BY <2>1, <2>2
<1> QED
  BY <1>1, <1>2, <1>3

\* Every step of a session is one of these.
LEMMA StepIs ==
  ASSUME [SessionNext]_allVars
  PROVE  \/ ActorStep
         \/ DrainStep
         \/ PostStep
         \/ HostStep
         \/ StrangerReturns
         \/ StrangerFails
         \/ UNCHANGED allVars
<1>1. CASE Operation
  BY <1>1, OperationIs
<1>2. CASE /\ Poll \/ FireTimers \/ Unwinding \/ Picking \/ \E j \in Jobs : Post(j)
           /\ UNCHANGED <<hostVars, strayed>>
  <2>1. CASE \E j \in Jobs : Post(j)
    BY <1>2, <2>1 DEF PostStep
  <2>2. CASE Poll \/ FireTimers \/ Unwinding \/ Picking
    BY <1>2, <2>2, ThreadIs
  <2> QED
    BY <1>2, <2>1, <2>2
<1>3. CASE ~Operation /\ ~(/\ Poll \/ FireTimers \/ Unwinding \/ Picking \/ \E j \in Jobs : Post(j)
                           /\ UNCHANGED <<hostVars, strayed>>)
  BY <1>3 DEF SessionNext
<1> QED
  BY <1>1, <1>2, <1>3

\* While it acts the session is in a state of the actor.
LEMMA ActingTypes ==
  ASSUME TypesInv, Acting
  PROVE  TypeOK
BY DEF TypesInv, SessionTypeOK, Acting, TypeOK

\* And its coroutines are in their places, but for main in a drain.
LEMMA ActingPlaces ==
  ASSUME SessionInv, Acting
  PROVE  /\ Kept = IF aside THEN {Main} ELSE {}
         /\ PlaceInvBut(Kept)
<1>1. Kept = IF aside THEN {Main} ELSE {}
  BY DEF Kept, MainIsKept, Acting
<1>2. PlacedBut(Kept)
  BY DEF SessionInv, Sound, Acting
<1>3. RaiseHasError
  BY DEF SessionInv, OutcomeInv, ErrorsSeen, RaiseHasError, Raise, None
<1>4. TypeOK /\ Unborn
  BY ActingTypes DEF SessionInv
<1> QED
  BY <1>1, <1>2, <1>3, <1>4 DEF PlaceInvBut
-----------------------------------------------------------------------------
(* The types. *)

\* TypesInv in two parts: the data, and who has the thread.
DataTypes ==
  /\ SchedTypeOK
  /\ in_flight \in Outcomes \cup {None}
  /\ result \in [Green -> Outcomes \cup {None}]
  /\ cancel_requested \in [Green -> BOOLEAN]
  /\ settled \in [Deferreds -> Outcomes \cup {None}]
  /\ site \in [Coroutine -> Sites]
  /\ next_job_id \in 0..MaxJobs
  /\ running_jobs \subseteq Jobs
  /\ mailbox \in [Jobs -> Outcomes \cup {None}]
  /\ now \in Time

ControlTypes ==
  /\ pc \in {"poll", "timers", "exec", "raise", "pick", "ended", "host", "frame", "panicked"}
  /\ host \in {"none", "call", "load", "drain"}
  /\ pc = "host" <=> host = "none"
  /\ aside <=> InDrain /\ pc # "frame"
  /\ aside => current_id # Main \/ pc = "pick"
  /\ strayed \in BOOLEAN
  /\ installed \in BOOLEAN

\* And nothing else.
LEMMA TypesParts == TypesInv <=> DataTypes /\ ControlTypes
BY DEF TypesInv, DataTypes, ControlTypes, SessionTypeOK

\* Who the coroutines and what the outcomes are that a host's steps name.
LEMMA Named ==
  /\ Main \in Coroutine /\ Nothing \in Sites /\ Green \subseteq Coroutine
  /\ \A c \in Coroutine : c # Main => c \in Green
  /\ HostYield \in Outcomes /\ Value("settled") \in Outcomes /\ Raise("raised") \in Outcomes
  /\ Raise("cancelled") \in Outcomes
<1>1. HostYield \in Outcomes /\ Value("settled") \in Outcomes /\ Raise("raised") \in Outcomes
      /\ Raise("cancelled") \in Outcomes
  BY OutcomeFacts DEF HostYield, Payloads, Errors
<1> QED
  BY <1>1, BoundsAssumption DEF Main, Coroutine, Green, Sites

\* A coroutine that waits in a drain is parked on a time.
LEMMA WaitInDrainData == DataTypes /\ WaitInDrain => DataTypes'
<1> SUFFICES ASSUME DataTypes, WaitInDrain PROVE DataTypes'
  OBVIOUS
<1>1. CASE RaiseCancelled
  <2>1. current_id \in Green
    BY <1>1, Named DEF RaiseCancelled, SelfCancelled, DataTypes, SchedTypeOK
  <2> QED
    BY <1>1, <2>1, Named DEF RaiseCancelled, RaiseErr, DataTypes, SchedTypeOK, schedVars, jobVars
<1>2. CASE ~RaiseCancelled
  <2>1. PICK t \in {0} \cup ({now + s : s \in Delays} \cap Time) : ParkTimer(t)
    BY <1>2 DEF WaitInDrain
  <2>2. t \in Time
    BY <2>1, BoundsAssumption DEF Time
  <2>3. timer_blocked' \subseteq [wake_time : Time, thread : Coroutine]
    BY <2>1, <2>2 DEF ParkTimer, DataTypes, SchedTypeOK
  <2>4. UNCHANGED <<queue, blocked, io_blocked, deferred_blocked, next_id,
                    current_id, parked_resume, handleVars, jobVars, now>>
        /\ site' = [site EXCEPT ![current_id] = Nothing] /\ in_flight' = HostYield
    BY <1>2 DEF WaitInDrain, Park, SwitchAway
  <2>5. SchedTypeOK'
    BY <2>3, <2>4 DEF DataTypes, SchedTypeOK
  <2>6. site' \in [Coroutine -> Sites] /\ in_flight' \in Outcomes
    BY <2>4, Named DEF DataTypes
  <2> QED
    BY <2>4, <2>5, <2>6 DEF DataTypes, handleVars, jobVars
<1> QED
  BY <1>1, <1>2

\* What the host does keeps the types of what the coroutines have.
LEMMA HostData == DataTypes /\ HostStep => DataTypes'
<1> SUFFICES ASSUME DataTypes, HostStep PROVE DataTypes'
  OBVIOUS
<1>0. SchedTypeOK
  BY DEF DataTypes
<1>1. ASSUME UNCHANGED <<schedVars, handleVars, site, jobVars, now>>,
             in_flight' \in {in_flight, None}
      PROVE  DataTypes'
  BY <1>1 DEF DataTypes, SchedTypeOK, schedVars, handleVars, jobVars
<1>2. ASSUME NEW kind, CallIn(kind) PROVE DataTypes'
  BY <1>1, <1>2 DEF CallIn
<1>3. ASSUME NEW d \in Deferreds, NEW o \in {Value("settled"), Raise("raised")}, HostSettle(d, o)
      PROVE  DataTypes'
  <2>1. o \in Outcomes /\ WakeDeferred(d, o)
    BY <1>3, Named DEF HostSettle
  <2>2. /\ queue' \in Seq(Coroutine)
        /\ parked_resume' \in [Coroutine -> Outcomes \cup {None}]
        /\ deferred_blocked' \subseteq [deferred : Deferreds, thread : Coroutine]
    BY <1>0, <2>1, WakeDeferredType
  <2>3. SchedTypeOK'
    BY <1>3, <2>2 DEF HostSettle, DataTypes, SchedTypeOK
  <2> QED
    BY <1>3, <2>1, <2>3 DEF HostSettle, DataTypes, jobVars
<1>4. CASE Reload
  <2>1. SchedTypeOK'
    BY <1>4, Named, BoundsAssumption DEF Reload, SchedTypeOK
  <2> QED
    BY <1>4, <2>1, Named DEF Reload, JobsGoOn, DataTypes, jobVars
<1>5. CASE BeginDrain
  <2>1. PICK t : t = now' /\ t \in Time /\ WakeTimers(t)
    BY <1>5 DEF BeginDrain, DataTypes
  <2>2. /\ queue' \in Seq(Coroutine)
        /\ parked_resume' \in [Coroutine -> Outcomes \cup {None}]
        /\ timer_blocked' \subseteq [wake_time : Time, thread : Coroutine]
    BY <1>0, <2>1, WakeTimersType
  <2>3. SchedTypeOK'
    BY <1>5, <2>2 DEF BeginDrain, DataTypes, SchedTypeOK
  <2> QED
    BY <1>5, <2>1, <2>3 DEF BeginDrain, DataTypes, handleVars, jobVars
<1>6. CASE DrainReady
  <2>1. CASE io_blocked # {}
    <3>1. WakeIo(mailbox) /\ mailbox' = EmptyMailbox
      BY <1>6, <2>1 DEF DrainReady, PollIoCompletions
    <3>2. /\ queue' \in Seq(Coroutine)
          /\ parked_resume' \in [Coroutine -> Outcomes \cup {None}]
          /\ io_blocked' \subseteq [job_id : Jobs, thread : Coroutine]
      BY <1>0, <3>1, WakeIoType DEF DataTypes
    <3>3. SchedTypeOK' /\ mailbox' \in [Jobs -> Outcomes \cup {None}]
      BY <1>6, <3>1, <3>2 DEF DrainReady, DataTypes, SchedTypeOK, EmptyMailbox
    <3> QED
      BY <1>6, <3>3, Named DEF DrainReady, DataTypes, handleVars
  <2>2. CASE io_blocked = {}
    <3>1. SchedTypeOK' /\ mailbox' = mailbox
      BY <1>6, <2>2 DEF DrainReady, DataTypes, SchedTypeOK
    <3> QED
      BY <1>6, <3>1, Named DEF DrainReady, DataTypes, handleVars
  <2> QED
    BY <2>1, <2>2
<1>7. CASE EndDrain
  BY <1>7, Named DEF EndDrain, DataTypes, SchedTypeOK, parkVars, handleVars, jobVars
<1>8. CASE CallOut
  BY <1>1, <1>8 DEF CallOut
<1> QED
  BY <1>2, <1>3, <1>4, <1>5, <1>6, <1>7, <1>8 DEF HostStep

\* Every step of a session keeps them.
LEMMA DataStep == TypesInv /\ [SessionNext]_allVars => DataTypes'
<1> SUFFICES ASSUME TypesInv, [SessionNext]_allVars PROVE DataTypes'
  OBVIOUS
<1>0. DataTypes
  BY TypesParts
<1>1. ASSUME UNCHANGED <<schedVars, in_flight, handleVars, site, jobVars, now>> PROVE DataTypes'
  BY <1>0, <1>1 DEF DataTypes, SchedTypeOK, schedVars, handleVars, jobVars
<1>2. CASE ActorStep
  <2>1. TypeOK'
    BY <1>2, ActingTypes, TypeStep DEF ActorStep
  <2> QED
    BY <2>1 DEF TypeOK, DataTypes
<1>3. CASE WaitInDrain
  BY <1>0, <1>3, WaitInDrainData
<1>4. CASE NobodyInDrain
  <2>1. mailbox' \in [Jobs -> Outcomes \cup {None}] /\ in_flight' \in Outcomes \cup {None}
    BY <1>0, <1>4, Named DEF NobodyInDrain, DataTypes, EmptyMailbox
  <2> QED
    BY <1>0, <1>4, <2>1 DEF NobodyInDrain, DataTypes, SchedTypeOK, schedVars, handleVars
<1>5. ASSUME NEW j \in Jobs, Post(j) PROVE DataTypes'
  <2>1. running_jobs' \subseteq Jobs /\ mailbox' \in [Jobs -> Outcomes \cup {None}]
    BY <1>0, <1>5, OutcomeFacts DEF Post, DataTypes
  <2> QED
    BY <1>0, <1>5, <2>1 DEF Post, DataTypes, SchedTypeOK, schedVars, handleVars
<1>6. CASE HostStep
  BY <1>0, <1>6, HostData
<1>7. CASE StrangerReturns \/ StrangerFails
  BY <1>1, <1>7 DEF StrangerReturns, StrangerFails
<1>8. CASE UNCHANGED allVars
  BY <1>1, <1>8 DEF allVars, vars, vmVars
<1> QED
  BY <1>2, <1>3, <1>4, <1>5, <1>6, <1>7, <1>8, StepIs DEF DrainStep, PostStep
-----------------------------------------------------------------------------
(* Who has the thread, and who has main. *)

\* An operation goes on, raises, or gives the thread away; main gives it away
\* only where it parks or yields, or to end.
LEMMA OperationSwitch ==
  ASSUME Operation
  PROVE  /\ pc = "exec" /\ current_id' = current_id
         /\ \/ pc' \in {"poll", "raise"}
            \/ pc' = "pick" /\ (in_flight' = HostYield \/ current_id # Main)
            \/ pc' = "ended" /\ current_id = Main /\ in_flight' = Value("done")
<1>0. pc = "exec" /\ RaiseCancelled => pc' = "raise" /\ current_id' = current_id
  BY DEF RaiseCancelled, RaiseErr, schedVars
<1>1. CASE StayOp
  BY <1>1 DEF StayOp, Go, EnqueueFresh, YieldAlone, BlockingInline, RaiseOp, JoinFinished, Cancel,
              JoinSettled, Resolve, Reject, Settle, Deliver, Continue, RaiseErr, schedVars
<1>2. CASE LeaveOp
  <2>1. CASE YieldToNext \/ BlockingOffload
    BY <1>0, <2>1 DEF YieldToNext, BlockingOffload, SwitchAway, Park
  <2>2. CASE ReturnGreen \/ ReturnMain
    BY <2>2 DEF ReturnGreen, ReturnMain, SwitchAway, Finish, schedVars
  <2>3. ASSUME NEW g \in Green, JoinLive(g)
        PROVE  pc = "exec" /\ current_id' = current_id /\ (pc' = "raise" \/ (pc' = "pick" /\ in_flight' = HostYield))
    BY <1>0, <2>3 DEF JoinLive, RaiseErr, SwitchAway, Park, schedVars
  <2>4. ASSUME NEW d \in Deferreds, JoinUnsettled(d)
        PROVE  pc = "exec" /\ current_id' = current_id /\ (pc' = "raise" \/ (pc' = "pick" /\ in_flight' = HostYield))
    BY <1>0, <2>4 DEF JoinUnsettled, RaiseErr, SwitchAway, Park, schedVars
  <2>5. ASSUME NEW s \in Delays, Wait(s)
        PROVE  pc = "exec" /\ current_id' = current_id /\ (pc' = "raise" \/ (pc' = "pick" /\ in_flight' = HostYield))
    BY <1>0, <2>5 DEF Wait, RaiseErr, SwitchAway, Park, schedVars
  <2> QED
    BY <1>2, <2>1, <2>2, <2>3, <2>4, <2>5 DEF LeaveOp
<1>3. CASE WaitInDrain
  BY <1>0, <1>3 DEF WaitInDrain, SwitchAway, Park
<1> QED
  BY <1>1, <1>2, <1>3 DEF Operation, LeaveOp

\* The rest of what happens on the thread, with who is picked.
LEMMA ThreadSwitch ==
  ASSUME Poll \/ FireTimers \/ Unwinding \/ Picking
  PROVE  \/ /\ pc \in {"poll", "timers", "raise"} /\ current_id' = current_id
            /\ \/ pc' \in {"poll", "timers", "exec"}
               \/ pc = "raise" /\ pc' = "pick" /\ current_id # Main
               \/ pc = "raise" /\ pc' = "ended" /\ current_id = Main /\ in_flight' = in_flight
         \/ pc = "pick" /\ queue # <<>> /\ current_id' = Head(queue) /\ pc' \in {"poll", "raise"}
         \/ pc = "pick" /\ queue = <<>> /\ pc' = "pick" /\ UNCHANGED <<current_id, in_flight>>
         \/ pc = "pick" /\ queue = <<>> /\ pc' = "ended"
<1>1. CASE Poll \/ FireTimers
  BY <1>1 DEF Poll, FireTimers
<1>2. CASE Unwinding
  BY <1>2 DEF Unwinding, Caught, FailGreen, FailMain, Finish, Continue, SwitchAway, schedVars
<1>3. CASE Picking
  BY <1>3 DEF Picking, PollInDrain, PickReady, PumpIo, PickNone, NobodyInDrain, RaiseErr, Continue
<1> QED
  BY <1>1, <1>2, <1>3

\* In a drain the run-queue does not hold main.
LEMMA DrainPicksGreens ==
  ASSUME SessionInv, Acting, aside, queue # <<>>
  PROVE  Head(queue) # Main
<1>1. Kept = {Main} /\ PlacedBut(Kept)
  BY ActingPlaces DEF SessionInv, Sound, Acting
<1>2. Main \notin Queued
  BY <1>1 DEF PlacedBut, AccountedBut, Everyone
<1>3. queue \in Seq(Coroutine)
  BY DEF SessionInv, TypesInv, SessionTypeOK, SchedTypeOK
<1>4. 1 \in 1..Len(queue) /\ Head(queue) = queue[1]
  BY <1>3
<1> QED
  BY <1>2, <1>4 DEF Queued

ControlInv == ControlTypes /\ CallInv

\* The coroutines' steps keep them.
LEMMA CoroutineControl ==
  ASSUME SessionInv, Operation
  PROVE  ControlInv'
<1>0. ControlTypes /\ CallInv
  BY TypesParts DEF SessionInv
<1>1. /\ pc = "exec" /\ current_id' = current_id
      /\ \/ pc' \in {"poll", "raise"}
         \/ pc' = "pick" /\ (in_flight' = HostYield \/ current_id # Main)
         \/ pc' = "ended" /\ current_id = Main /\ in_flight' = Value("done")
  BY OperationSwitch
<1>2. /\ strayed' = (strayed \/ (current_id = Main /\ pc' = "pick"))
      /\ UNCHANGED <<host, installed, aside, forsaken>>
  BY DEF Operation, hostVars
<1>3. Value("done") # HostYield
  BY DEF Value, HostYield, Raise
<1>4. ControlTypes'
  BY <1>0, <1>1, <1>2 DEF ControlTypes, InDrain
<1>5. CallInv'
  BY <1>0, <1>1, <1>2, <1>3 DEF ControlTypes, CallInv, InDrain, Whole
<1> QED
  BY <1>4, <1>5 DEF ControlInv

\* So do the others of the actor's thread.
LEMMA ThreadControl ==
  ASSUME SessionInv, Poll \/ FireTimers \/ Unwinding \/ Picking, UNCHANGED <<hostVars, strayed>>
  PROVE  ControlInv'
<1>0. ControlTypes /\ CallInv /\ UNCHANGED <<host, installed, aside, forsaken, strayed>>
  BY TypesParts DEF SessionInv, hostVars
<1>1. CASE /\ pc \in {"poll", "timers", "raise"} /\ current_id' = current_id
           /\ \/ pc' \in {"poll", "timers", "exec"}
              \/ pc = "raise" /\ pc' = "pick" /\ current_id # Main
              \/ pc = "raise" /\ pc' = "ended" /\ current_id = Main /\ in_flight' = in_flight
  <2>1. pc = "raise" => in_flight # HostYield
    BY DEF SessionInv, OutcomeInv, ErrorsSeen, HostYield, Raise
  <2>2. ControlTypes'
    BY <1>0, <1>1 DEF ControlTypes, InDrain
  <2>3. CallInv'
    BY <1>0, <1>1, <2>1 DEF ControlTypes, CallInv, InDrain, Whole
  <2> QED
    BY <2>2, <2>3 DEF ControlInv
<1>2. CASE pc = "pick" /\ queue # <<>> /\ current_id' = Head(queue) /\ pc' \in {"poll", "raise"}
  <2>1. aside => current_id' # Main
    BY <1>2, DrainPicksGreens DEF Acting
  <2>2. ControlTypes'
    BY <1>0, <1>2, <2>1 DEF ControlTypes, InDrain
  <2>3. CallInv'
    BY <1>0, <1>2, <2>1 DEF ControlTypes, CallInv, InDrain, Whole
  <2> QED
    BY <2>2, <2>3 DEF ControlInv
<1>3. CASE pc = "pick" /\ queue = <<>> /\ pc' = "pick" /\ UNCHANGED <<current_id, in_flight>>
  <2>1. aside => current_id # Main
    BY <1>0, <1>3 DEF CallInv
  <2>2. ControlTypes'
    BY <1>0, <1>3, <2>1 DEF ControlTypes, InDrain
  <2>3. CallInv'
    BY <1>0, <1>3, <2>1 DEF ControlTypes, CallInv, InDrain, Whole
  <2> QED
    BY <2>2, <2>3 DEF ControlInv
<1>4. CASE pc = "pick" /\ queue = <<>> /\ pc' = "ended"
  <2>0. PickNone \/ NobodyInDrain
    BY <1>4 DEF Poll, FireTimers, Unwinding, Caught, FailGreen, FailMain, Picking, PickReady,
                PumpIo, PollInDrain
  <2>1. current_id' = current_id
    BY <2>0 DEF PickNone, NobodyInDrain, schedVars
  <2>2. aside => current_id # Main
    BY <1>0, <1>4 DEF CallInv
  <2>3. ControlTypes'
    BY <1>0, <1>4, <2>1, <2>2 DEF ControlTypes, InDrain
  <2>4. CallInv'
    BY <1>0, <1>4, <2>1, <2>2 DEF ControlTypes, CallInv, InDrain, Whole
  <2> QED
    BY <2>3, <2>4 DEF ControlInv
<1> QED
  BY <1>1, <1>2, <1>3, <1>4, ThreadSwitch
\* A call the host makes begins where main is, and main is back or gone astray
\* when it is over; a drain sets main aside and puts it back.
LEMMA HostControl ==
  ASSUME SessionInv, HostStep
  PROVE  ControlInv'
<1>0. ControlTypes /\ CallInv
  BY TypesParts DEF SessionInv
<1>m. HostYield.kind = "raise" /\ None # HostYield
  BY DEF HostYield, Raise, None
<1> USE DEF ControlInv, ControlTypes, CallInv, InDrain, Whole
<1>1. ASSUME NEW kind \in {"call", "load"}, CallIn(kind) PROVE ControlInv'
  BY <1>0, <1>1 DEF CallIn, schedVars
<1>2. ASSUME NEW d \in Deferreds, NEW o \in {Value("settled"), Raise("raised")}, HostSettle(d, o)
      PROVE  ControlInv'
  BY <1>0, <1>2 DEF HostSettle, hostVars
<1>3. CASE Reload
  BY <1>0, <1>3 DEF Reload
<1>4. CASE BeginDrain
  BY <1>0, <1>4 DEF BeginDrain
<1>5. CASE DrainReady
  <2>1. host = "drain" /\ ~strayed /\ ~aside /\ current_id = Main
    BY <1>0, <1>5 DEF DrainReady
  <2>2. /\ current_id' = Main /\ strayed' = FALSE /\ in_flight' = HostYield
        /\ \/ pc' = "host" /\ host' = "none" /\ installed' = TRUE /\ aside' = FALSE
           \/ /\ pc' = "pick" /\ host' = "drain" /\ installed' = FALSE /\ aside' = TRUE
              /\ queue' # <<>>
    BY <1>0, <2>1, <1>5 DEF DrainReady
  <2> QED
    BY <2>2
<1>6. CASE EndDrain
  BY <1>0, <1>6 DEF EndDrain
<1>7. CASE CallOut
  BY <1>0, <1>7 DEF CallOut, schedVars
<1> QED
  BY <1>1, <1>2, <1>3, <1>4, <1>5, <1>6, <1>7 DEF HostStep

\* Every step of a session keeps who has the thread and who has main.
LEMMA ControlStep ==
  ASSUME SessionInv, [SessionNext]_allVars
  PROVE  ControlInv'
<1>0. ControlTypes /\ CallInv
  BY TypesParts DEF SessionInv
<1>1. CASE StrangerReturns \/ StrangerFails
  BY <1>0, <1>1 DEF StrangerReturns, StrangerFails, Stranger, ControlInv, ControlTypes, CallInv,
                    InDrain, Whole, hostVars, schedVars
<1>2. ASSUME UNCHANGED <<queue, current_id, pc, in_flight, hostVars, strayed>>
      PROVE  ControlInv'
  BY <1>0, <1>2 DEF ControlInv, ControlTypes, CallInv, InDrain, Whole, hostVars
<1>3. CASE UNCHANGED allVars
  BY <1>2, <1>3 DEF allVars, vars, vmVars, schedVars
<1>4. CASE /\ Poll \/ FireTimers \/ Unwinding \/ Picking \/ \E j \in Jobs : Post(j)
           /\ UNCHANGED <<hostVars, strayed>>
  <2>1. CASE \E j \in Jobs : Post(j)
    BY <1>2, <1>4, <2>1 DEF Post, schedVars
  <2>2. CASE Poll \/ FireTimers \/ Unwinding \/ Picking
    BY <1>4, <2>2, ThreadControl
  <2> QED
    BY <1>4, <2>1, <2>2
<1>5. CASE Operation
  BY <1>5, CoroutineControl
<1>6. CASE HostStep
  BY <1>6, HostControl
<1>7. CASE ~(\/ Operation \/ HostStep \/ StrangerReturns \/ StrangerFails
             \/ /\ Poll \/ FireTimers \/ Unwinding \/ Picking \/ \E j \in Jobs : Post(j)
                /\ UNCHANGED <<hostVars, strayed>>)
  BY <1>3, <1>7 DEF SessionNext
<1> QED
  BY <1>1, <1>4, <1>5, <1>6, <1>7

-----------------------------------------------------------------------------
(* Where the coroutines are. *)

\* Only current_id or pc changes, and nobody runs before or after.
LEMMA StillPlaced ==
  ASSUME NEW A, PlacedBut(A), UNCHANGED <<queue, parkVars, next_id, result>>,
         Running' = Running
  PROVE  PlacedBut(A)'
<1>1. /\ Queued' = Queued /\ InJoin' = InJoin /\ InIo' = InIo
      /\ InTimer' = InTimer /\ InDefer' = InDefer
  BY DEF Queued, InJoin, InIo, InTimer, InDefer, parkVars
<1>2. \A c \in Coroutine : Live(c)' <=> Live(c)
  BY DEF Live
<1>3. Unique'
  BY DEF PlacedBut, Unique, NoRepeat, UniqueIn, parkVars
<1>4. Apart'
  BY <1>1 DEF PlacedBut, Apart
<1>5. AccountedBut(A)'
  BY <1>1, <1>2 DEF PlacedBut, AccountedBut, Everyone
<1> QED
  BY <1>3, <1>4, <1>5 DEF PlacedBut

\* The host takes main off the thread or puts it there: one place for another.
LEMMA HandedOver ==
  ASSUME NEW A, NEW B, PlacedBut(A), UNCHANGED <<queue, parkVars, next_id, result>>,
         A \cup Running = {Main}, A \cap Running = {},
         B \cup Running' = {Main}, B \cap Running' = {}
  PROVE  PlacedBut(B)'
<1>1. /\ Queued' = Queued /\ InJoin' = InJoin /\ InIo' = InIo
      /\ InTimer' = InTimer /\ InDefer' = InDefer
  BY DEF Queued, InJoin, InIo, InTimer, InDefer, parkVars
<1>2. \A c \in Coroutine : Live(c)' <=> Live(c)
  BY DEF Live
<1>3. Unique'
  BY DEF PlacedBut, Unique, NoRepeat, UniqueIn, parkVars
<1>4. Main \notin Queued \cup InJoin \cup InIo \cup InTimer \cup InDefer
  BY DEF PlacedBut, Apart, AccountedBut, Everyone
<1>5. Apart'
  BY <1>1, <1>4 DEF PlacedBut, Apart
<1>6. AccountedBut(B)'
  BY <1>1, <1>2, <1>4 DEF PlacedBut, AccountedBut, Everyone
<1> QED
  BY <1>3, <1>5, <1>6 DEF PlacedBut
\* While the actor's thread is on its way.
LEMMA ActorPlaces ==
  ASSUME SessionInv, ControlInv', ActorStep, Sound'
  PROVE  PlacedBut(Kept)'
<1>0. Acting /\ [Next]_vars /\ UNCHANGED <<host, installed, aside, forsaken>>
  BY DEF ActorStep, hostVars
<1>1. PICK A : A = Kept
  OBVIOUS
<1>2. A = (IF aside THEN {Main} ELSE {}) /\ PlaceInvBut(A)
  BY <1>0, <1>1, ActingPlaces
<1>3. ControlTypes /\ CallInv
  BY TypesParts DEF SessionInv
<1>4. TypeOK'
  BY <1>0, <1>2, TypeStep DEF PlaceInvBut
<1>5. CASE pc' # "ended"
  <2>1. PlacedBut(A)'
    BY <1>0, <1>2, <1>5, PlacedStep
  <2>2. Kept' = A
    BY <1>0, <1>2, <1>4, <1>5 DEF TypeOK, Kept, MainIsKept
  <2> QED
    BY <2>1, <2>2 DEF PlacedBut, AccountedBut
<1>6. CASE ReturnMain \/ FailMain
  <2>1. /\ HasThread /\ current_id = Main /\ current_id' = Main /\ pc' = "ended"
        /\ UNCHANGED <<queue, parkVars, next_id, result>>
    BY <1>6 DEF ReturnMain, FailMain, HasThread, schedVars, parkVars, handleVars
  <2>2. ~aside /\ host \in {"call", "load"}
    BY <1>0, <1>3, <1>6 DEF ControlTypes, InDrain, ReturnMain, FailMain
  <2>3. A = {} /\ Running = {Main} /\ Running' = {} /\ PlacedBut(A)
    BY <1>2, <2>1, <2>2, RunningAlone DEF Running, HasThread
  <2>4. Kept' = {Main}
    BY <1>0, <1>3, <2>1, <2>2 DEF Kept, MainIsKept, Whole, InDrain, CallInv
  <2>5. PICK B : B = {Main}
    OBVIOUS
  <2>6. PlacedBut(B)'
    BY <2>1, <2>3, <2>5, HandedOver
  <2> QED
    BY <2>4, <2>5, <2>6 DEF PlacedBut, AccountedBut
<1>7. CASE PickNone /\ ~InDrain
  <2>1. pc = "pick" /\ pc' = "ended" /\ current_id' = current_id
    BY <1>7 DEF PickNone, schedVars
  <2>2. ~aside' /\ strayed'
    <3>1. ~aside /\ ~InDrain'
      BY <1>0, <1>3, <1>7 DEF ControlTypes, InDrain
    <3>2. ~strayed' => Whole' /\ current_id = Main
      BY <1>0, <2>1, <3>1 DEF ControlInv, CallInv, Whole
    <3>3. ~strayed' => in_flight' # HostYield
      BY <2>1, <3>1 DEF ControlInv, CallInv
    <3>4. current_id = Main => in_flight' = HostYield
      BY <1>3, <1>7, <2>1 DEF CallInv, PickNone, HostYield, Raise
    <3> QED
      BY <1>0, <3>1, <3>2, <3>3, <3>4 DEF ControlInv, ControlTypes
  <2>3. current_id = Main => in_flight' = HostYield
    BY <1>3, <1>7, <2>1 DEF CallInv, PickNone, HostYield, Raise
  <2> QED
    BY <2>1, <2>2, <2>3 DEF Sound
<1> QED
  BY <1>5, <1>6, <1>7 DEF ActorStep

\* In what a drain does otherwise.
LEMMA DrainPlaces ==
  ASSUME SessionInv, DrainStep
  PROVE  PlacedBut(Kept)'
<1>0. Acting /\ UNCHANGED <<host, installed, aside, forsaken>>
  BY DEF DrainStep, hostVars, WaitInDrain, NobodyInDrain, Acting
<1>1. PICK A : A = Kept
  OBVIOUS
<1>2. A = (IF aside THEN {Main} ELSE {}) /\ PlaceInvBut(A)
  BY <1>0, <1>1, ActingPlaces
<1>3. ControlTypes /\ CallInv
  BY TypesParts DEF SessionInv
<1>4. PlacedBut(A)
  BY <1>0, <1>2 DEF PlaceInvBut, Acting
<1>5. CASE WaitInDrain
  <2>1. CASE RaiseCancelled
    <3>1. UNCHANGED <<queue, parkVars, next_id, current_id, result>> /\ HasThread' = HasThread
      BY <1>5, <2>1 DEF WaitInDrain, RaiseCancelled, RaiseErr, HasThread, schedVars, parkVars
    <3>2. Kept' = A
      BY <1>0, <1>2, <2>1 DEF RaiseCancelled, RaiseErr, Kept, MainIsKept
    <3>3. PlacedBut(A)'
      BY <1>4, <3>1, NothingMoves
    <3> QED
      BY <3>2, <3>3 DEF PlacedBut, AccountedBut
  <2>2. CASE ~RaiseCancelled
    <3>1. /\ \E t : ParkTimer(t)
          /\ UNCHANGED <<blocked, io_blocked, deferred_blocked, queue, next_id, result>>
          /\ pc = "exec" /\ pc' = "pick"
      BY <1>5, <2>2 DEF WaitInDrain, Park, SwitchAway, handleVars
    <3>2. HasThread /\ ~HasThread'
      BY <3>1 DEF HasThread
    <3>3. Kept' = A
      BY <1>0, <1>2, <3>1 DEF Kept, MainIsKept
    <3>4. PlacedBut(A)'
      BY <1>2, <3>1, <3>2, ParkPlaced
    <3> QED
      BY <3>3, <3>4 DEF PlacedBut, AccountedBut
  <2> QED
    BY <2>1, <2>2
<1>6. CASE NobodyInDrain
  <2>1. /\ pc = "pick" /\ pc' = "ended" /\ UNCHANGED schedVars /\ result' = result
        /\ HasThread' = HasThread
    BY <1>6 DEF NobodyInDrain, handleVars, HasThread
  <2>2. PlacedBut(A)'
    BY <1>4, <2>1, NothingMoves DEF schedVars, parkVars
  <2>3. Kept' = A
    <3>1. InDrain /\ aside
      BY <1>3, <2>1 DEF DrainStep, ControlTypes
    <3> QED
      BY <1>0, <1>2, <3>1 DEF Kept, MainIsKept
  <2> QED
    BY <2>2, <2>3 DEF PlacedBut, AccountedBut
<1> QED
  BY <1>5, <1>6 DEF DrainStep
\* Between two calls main is with the host, and everyone else in the scheduler.
LEMMA HostPlaces ==
  ASSUME SessionInv, pc = "host", Whole
  PROVE  /\ Kept = {Main} /\ PlacedBut({Main}) /\ Running = {}
         /\ host = "none" /\ ~aside /\ ~strayed
<1>0. ControlTypes /\ CallInv
  BY TypesParts DEF SessionInv
<1>1. host = "none" /\ ~aside /\ ~strayed
  BY <1>0 DEF ControlTypes, CallInv, InDrain
<1>2. Kept = {Main}
  BY <1>1 DEF Kept, MainIsKept, InDrain
<1>3. PlacedBut(Kept)
  BY <1>1 DEF SessionInv, Sound
<1> QED
  BY <1>1, <1>2, <1>3 DEF Running, HasThread

\* A call the host begins, and a reload, put main on the thread; a drain wakes.
LEMMA HostBegins ==
  ASSUME SessionInv, ControlInv',
         \/ \E kind \in {"call", "load"} : CallIn(kind)
         \/ \E d \in Deferreds, o \in {Value("settled"), Raise("raised")} : HostSettle(d, o)
         \/ Reload
         \/ BeginDrain
  PROVE  PlacedBut(Kept)'
<1>0. SchedTypeOK /\ \A g \in Green : result[g] \in Outcomes \cup {None}
  BY DEF SessionInv, TypesInv, SessionTypeOK
<1>1. /\ PlacedBut({Main}) /\ Running = {} /\ Unique /\ Apart
      /\ pc = "host" /\ host = "none" /\ ~aside /\ ~strayed /\ Whole
  BY HostPlaces DEF CallIn, HostSettle, Reload, BeginDrain, PlacedBut
<1>2. PICK A : A = {Main}
  OBVIOUS
<1>3. ASSUME NEW kind \in {"call", "load"}, CallIn(kind) PROVE PlacedBut(Kept)'
  <2>1. /\ UNCHANGED <<queue, parkVars, next_id, result>> /\ pc' = "poll" /\ aside' = FALSE
        /\ current_id' = Main
    BY <1>1, <1>3 DEF CallIn, Whole, schedVars, parkVars, handleVars
  <2>2. Running' = {Main} /\ Kept' = {}
    BY <2>1 DEF Running, HasThread, Kept, MainIsKept
  <2>3. PlacedBut({})'
    BY <1>1, <2>1, <2>2, HandedOver
  <2> QED
    BY <2>2, <2>3 DEF PlacedBut, AccountedBut
<1>4. ASSUME NEW d \in Deferreds, NEW o, HostSettle(d, o) PROVE PlacedBut(Kept)'
  <2>1. /\ WakeDeferred(d, o) /\ UNCHANGED <<blocked, io_blocked, timer_blocked>>
        /\ UNCHANGED <<next_id, current_id, result>> /\ HasThread' = HasThread
    BY <1>4 DEF HostSettle, HasThread
  <2>2. /\ Awaiters(d) \subseteq InDefer /\ Queued' = Queued \cup Awaiters(d)
        /\ InDefer' = InDefer \ Awaiters(d)
        /\ NoRepeat' /\ UniqueIn(deferred_blocked')
    BY <1>0, <1>1, <2>1, WakeDeferredMoves
  <2>3. InJoin' = InJoin /\ InIo' = InIo /\ InTimer' = InTimer
    BY <2>1 DEF InJoin, InIo, InTimer
  <2>4. Unique'
    BY <1>1, <2>1, <2>2 DEF Unique
  <2>5. PlacedBut(A)'
    BY <1>1, <1>2, <2>1, <2>2, <2>3, <2>4, WakePlaced
  <2>6. Kept' = A
    BY <1>1, <1>2, <1>4 DEF HostSettle, hostVars, Kept, MainIsKept, Whole, InDrain
  <2> QED
    BY <2>5, <2>6 DEF PlacedBut, AccountedBut
<1>5. CASE Reload
  <2>1. /\ queue' = <<>> /\ blocked' = {} /\ io_blocked' = {} /\ timer_blocked' = {}
        /\ deferred_blocked' = {} /\ next_id' = 1 /\ current_id' = Main /\ pc' = "poll"
        /\ result' = [g \in Green |-> None] /\ aside' = FALSE
    BY <1>5 DEF Reload
  <2>2. /\ Running' = {Main} /\ Queued' = {} /\ InJoin' = {} /\ InIo' = {} /\ InTimer' = {}
        /\ InDefer' = {} /\ Kept' = {}
    BY <2>1 DEF Running, HasThread, Queued, InJoin, InIo, InTimer, InDefer, Threads, Kept, MainIsKept
  <2>3. \A c \in Coroutine : Live(c)' <=> c = Main
    BY <2>1, BoundsAssumption DEF Live, Main, Coroutine
  <2>4. Unique'
    BY <2>1 DEF Unique, NoRepeat, UniqueIn
  <2> QED
    BY <2>2, <2>3, <2>4 DEF PlacedBut, Apart, AccountedBut, Everyone
<1>6. CASE BeginDrain
  <2>1. PICK t : t = now' /\ WakeTimers(t)
    BY <1>6 DEF BeginDrain
  <2>2. /\ UNCHANGED <<blocked, io_blocked, deferred_blocked, next_id, current_id, result>>
        /\ pc = "host" /\ pc' = "frame"
    BY <1>6 DEF BeginDrain, handleVars
  <2>3. HasThread' = HasThread
    BY <2>2 DEF HasThread
  <2>4. PlacedBut(A)'
    BY <1>0, <1>1, <1>2, <2>1, <2>2, <2>3, TimerWakePlaced
  <2>5. Kept' = A
    BY <1>2, <2>2 DEF Kept, MainIsKept
  <2> QED
    BY <2>4, <2>5 DEF PlacedBut, AccountedBut
<1> QED
  BY <1>3, <1>4, <1>5, <1>6

\* What a drain begins and ends with leaves main aside or with the host, and a
\* call that is over has main with the host or has lost it.
LEMMA HostEnds ==
  ASSUME SessionInv, ControlInv', Sound', DrainReady \/ EndDrain \/ CallOut
  PROVE  PlacedBut(Kept)'
<1>0. ControlTypes /\ CallInv /\ SchedTypeOK
  BY TypesParts DEF SessionInv, DataTypes
<1>1. PICK A : A = {Main}
  OBVIOUS
<1>2. CASE DrainReady
  <2>1. host = "drain" /\ ~strayed /\ ~aside /\ current_id = Main /\ pc = "frame"
    BY <1>0, <1>2 DEF DrainReady, ControlTypes, CallInv, InDrain, Whole
  <2>2. PlacedBut(A)
    BY <1>1, <2>1 DEF SessionInv, Sound, Kept, MainIsKept
  <2>3. /\ UNCHANGED <<blocked, timer_blocked, deferred_blocked, next_id, current_id, result>>
        /\ pc' \in {"host", "pick"}
    BY <1>2 DEF DrainReady, handleVars
  <2>4. HasThread' = HasThread
    BY <2>1, <2>3 DEF HasThread
  <2>5. Kept' = A
    <3>1. \/ pc' = "host" /\ host' = "none" /\ installed' = TRUE
          \/ aside' = TRUE
      BY <1>2 DEF DrainReady
    <3> QED
      BY <1>1, <2>1, <2>3, <3>1 DEF Kept, MainIsKept, Whole, InDrain
  <2>6. PlacedBut(A)'
    <3>1. CASE io_blocked # {}
      <4>1. WakeIo(mailbox)
        BY <1>2, <3>1 DEF DrainReady, PollIoCompletions
      <4> QED
        BY <1>0, <2>2, <2>3, <2>4, <4>1, IoWakePlaced
    <3>2. CASE io_blocked = {}
      <4>1. UNCHANGED <<queue, io_blocked>>
        BY <1>2, <3>2 DEF DrainReady
      <4> QED
        BY <2>2, <2>3, <2>4, <4>1, NothingMoves DEF parkVars
    <3> QED
      BY <3>1, <3>2
  <2> QED
    BY <2>5, <2>6 DEF PlacedBut, AccountedBut
<1>3. CASE EndDrain
  <2>1. pc = "ended" /\ aside /\ ~strayed
    BY <1>0, <1>3 DEF EndDrain, ControlTypes, CallInv, InDrain
  <2>2. PlacedBut(A)
    BY <1>1, <2>1 DEF SessionInv, Sound, Kept, MainIsKept
  <2>3. UNCHANGED <<queue, parkVars, next_id, result>> /\ Running' = Running
    BY <1>3 DEF EndDrain, handleVars, Running, HasThread
  <2>4. Kept' = A
    BY <1>1, <1>3 DEF EndDrain, Kept, MainIsKept, Whole, InDrain
  <2>5. PlacedBut(A)'
    BY <2>2, <2>3, StillPlaced
  <2> QED
    BY <2>4, <2>5 DEF PlacedBut, AccountedBut
<1>4. CASE CallOut
  <2>1. /\ pc = "ended" /\ pc' = "host" /\ host \in {"call", "load"} /\ host' = "none"
        /\ installed' = (current_id = Main /\ in_flight # HostYield)
        /\ current_id' = current_id /\ UNCHANGED <<queue, parkVars, next_id, result>>
    BY <1>4 DEF CallOut, schedVars, parkVars, handleVars
  <2>2. ~strayed'
    BY <2>1 DEF Sound
  <2>3. ~aside' /\ Whole'
    BY <2>1, <2>2 DEF ControlInv, ControlTypes, CallInv, InDrain
  <2>4. current_id = Main /\ in_flight # HostYield /\ installed
    BY <1>0, <2>1, <2>3 DEF Whole, CallInv
  <2>5. PlacedBut(A)
    <3>1. PlacedBut(Kept)
      BY <2>1, <2>4 DEF SessionInv, Sound
    <3> QED
      BY <1>1, <2>1, <2>4, <3>1 DEF Kept, MainIsKept, Whole, InDrain
  <2>6. Kept' = A
    BY <1>1, <2>1, <2>3 DEF Kept, MainIsKept, InDrain
  <2>7. Running' = Running
    BY <2>1 DEF Running, HasThread
  <2>8. PlacedBut(A)'
    BY <2>1, <2>5, <2>7, StillPlaced
  <2> QED
    BY <2>6, <2>8 DEF PlacedBut, AccountedBut
<1> QED
  BY <1>2, <1>3, <1>4

\* Every step leaves each live coroutine in one place, but where main, having
\* parked in a call, has gone astray.
LEMMA PlacesStep ==
  ASSUME SessionInv, [SessionNext]_allVars
  PROVE  Sound' => PlacedBut(Kept)'
<1> SUFFICES ASSUME Sound' PROVE PlacedBut(Kept)'
  OBVIOUS
<1>0. ControlTypes /\ CallInv /\ ControlInv'
  BY TypesParts, ControlStep DEF SessionInv
<1>1. CASE ActorStep
  BY <1>0, <1>1, ActorPlaces
<1>2. CASE DrainStep
  BY <1>2, DrainPlaces
<1>3. CASE HostStep
  BY <1>0, <1>3, HostBegins, HostEnds DEF HostStep
<1>4. CASE StrangerReturns \/ StrangerFails
  <2>1. /\ host = "call" /\ current_id # Main /\ UNCHANGED <<current_id, hostVars>>
        /\ pc' \in {"panicked", "ended"}
    BY <1>4 DEF StrangerReturns, StrangerFails, Stranger, schedVars
  <2>2. strayed'
    BY <1>0, <2>1 DEF ControlInv, ControlTypes, CallInv, InDrain, Whole, hostVars
  <2> QED
    BY <2>1, <2>2 DEF Sound
<1>5. CASE PostStep \/ UNCHANGED allVars
  <2>1. UNCHANGED <<queue, parkVars, next_id, current_id, result, pc, in_flight, hostVars, strayed>>
    BY <1>5 DEF PostStep, Post, allVars, vars, vmVars, schedVars, parkVars, handleVars
  <2>2. PICK A : A = Kept
    OBVIOUS
  <2>3. PlacedBut(A)
    BY <2>1, <2>2 DEF SessionInv, Sound
  <2>4. Kept' = A
    BY <2>1, <2>2 DEF Kept, MainIsKept, Whole, InDrain, hostVars
  <2>5. PlacedBut(A)'
    BY <2>1, <2>3, NothingMoves DEF HasThread
  <2> QED
    BY <2>4, <2>5 DEF PlacedBut, AccountedBut
<1> QED
  BY <1>1, <1>2, <1>3, <1>4, <1>5, StepIs
-----------------------------------------------------------------------------
(* What is recorded and awaited. *)

\* Between them the steps that are not the actor's own touch little: this is
\* what each leaves alone, or does instead.
LEMMA OtherSteps ==
  ASSUME [SessionNext]_allVars
  PROVE  \/ ActorStep
         \/ \E j \in Jobs : Post(j)
         \/ Reload
         \/ \E d \in Deferreds, o \in {Value("settled"), Raise("raised")} : HostSettle(d, o)
         \/ BeginDrain
         \/ DrainReady
         \/ InDrain /\ NobodyInDrain
         \/ WaitInDrain
         \/ /\ UNCHANGED <<schedVars, handleVars, jobVars>>
            /\ pc' = "raise" => UNCHANGED <<pc, in_flight>>
         \/ EndDrain
BY StepIs DEF DrainStep, PostStep, HostStep, StrangerReturns, StrangerFails, CallIn, CallOut,
              allVars, vars, vmVars

\* An id that `go` has not handed out, since the last reload, has no result.
LEMMA SessionUnborn ==
  ASSUME SessionInv, [SessionNext]_allVars
  PROVE  Unborn'
<1>1. CASE ActorStep
  <2>1. PICK A : A = Kept
    OBVIOUS
  <2>2. PlaceInvBut(A) /\ [Next]_vars
    BY <1>1, <2>1, ActingPlaces DEF ActorStep
  <2> QED
    BY <2>2, UnbornStep
<1>2. CASE Reload
  BY <1>2 DEF Reload, Unborn
<1>3. ASSUME UNCHANGED <<next_id, result>> PROVE Unborn'
  BY <1>3 DEF SessionInv, Unborn
<1>4. CASE ~ActorStep /\ ~Reload
  BY <1>3, <1>4, OtherSteps
  DEF Post, HostSettle, BeginDrain, DrainReady, NobodyInDrain, WaitInDrain, RaiseCancelled,
      EndDrain, schedVars, handleVars
<1> QED
  BY <1>1, <1>2, <1>4

\* Nothing is recorded, delivered or raised that could not be in an actor of its
\* own.
LEMMA SessionOutcomes ==
  ASSUME SessionInv, [SessionNext]_allVars
  PROVE  OutcomeInv'
<1>0. DataTypes /\ SchedTypeOK
  BY TypesParts DEF SessionInv, DataTypes
<1>t. /\ result \in [Green -> Ends \cup {None}]
      /\ settled \in [Deferreds -> Settlements \cup {None}]
      /\ mailbox \in [Jobs -> JobOutcomes \cup {None}]
      /\ parked_resume \in [Coroutine -> Resumes]
      /\ pc = "raise" => in_flight \in ErrorsSeen
  BY DEF SessionInv, OutcomeInv
<1>1. CASE ActorStep
  BY <1>1, ActingTypes, OutcomeStep DEF ActorStep, SessionInv
<1>2. ASSUME UNCHANGED <<result, settled, parked_resume>>,
             mailbox' \in [Jobs -> JobOutcomes \cup {None}],
             pc' = "raise" => in_flight' \in ErrorsSeen
      PROVE  OutcomeInv'
  BY <1>t, <1>2 DEF OutcomeInv
<1>3. ASSUME NEW j \in Jobs, Post(j) PROVE OutcomeInv'
  BY <1>t, <1>2, <1>3 DEF Post, schedVars, handleVars
<1>4. CASE Reload
  BY <1>t, <1>4, ResumeFacts DEF Reload, JobsGoOn, OutcomeInv, jobVars
<1>5. ASSUME NEW d \in Deferreds, NEW o \in {Value("settled"), Raise("raised")}, HostSettle(d, o)
      PROVE  OutcomeInv'
  <2>1. o \in Settlements /\ o \in Resumes
    BY ResumeFacts DEF Settlements
  <2>2. parked_resume' = [c \in Coroutine |-> IF c \in Awaiters(d) THEN o ELSE parked_resume[c]]
    BY <1>5 DEF HostSettle, WakeDeferred, MakeReady
  <2>3. parked_resume' \in [Coroutine -> Resumes]
    BY <1>t, <2>1, <2>2, ReadyResumes
  <2> QED
    BY <1>t, <1>5, <2>1, <2>3 DEF HostSettle, OutcomeInv, jobVars
<1>6. CASE BeginDrain
  <2>1. PICK t : t = now' /\ WakeTimers(t)
    BY <1>6 DEF BeginDrain
  <2> DEFINE W == Threads(Due(t))
  <2>2. parked_resume' =
          [c \in Coroutine |-> IF c \in W THEN Value("null") ELSE parked_resume[c]]
    BY <2>1 DEF WakeTimers, MakeReady
  <2> HIDE DEF W
  <2>3. parked_resume' \in [Coroutine -> Resumes]
    BY <1>t, <2>2, ReadyResumes, ResumeFacts
  <2> QED
    BY <1>t, <1>6, <2>3 DEF BeginDrain, OutcomeInv, handleVars, jobVars
<1>7. ASSUME mailbox' \in {mailbox, EmptyMailbox} PROVE mailbox' \in [Jobs -> JobOutcomes \cup {None}]
  BY <1>t, <1>7 DEF EmptyMailbox
<1>8. CASE DrainReady
  <2>1. UNCHANGED <<result, settled>> /\ pc' # "raise" /\ mailbox' \in {mailbox, EmptyMailbox}
    BY <1>8 DEF DrainReady, PollIoCompletions, handleVars
  <2>2. CASE io_blocked # {}
    <3>1. WakeIo(mailbox)
      BY <1>8, <2>2 DEF DrainReady, PollIoCompletions
    <3>2. /\ \A c \in Coroutine \ Served : parked_resume'[c] = parked_resume[c]
          /\ \A c \in Served : \E p \in io_blocked :
               mailbox[p.job_id] # None /\ parked_resume'[c] = mailbox[p.job_id]
      BY <1>0, <3>1, IoResumes
    <3>3. \A p \in io_blocked : p.job_id \in Jobs
      BY <1>0 DEF SchedTypeOK
    <3>4. \A c \in Coroutine : parked_resume'[c] \in Resumes
      BY <1>t, <3>2, <3>3, ResumeFacts
    <3>5. parked_resume' \in [Coroutine -> Resumes]
      <4>1. DataTypes'
        BY DataStep DEF SessionInv
      <4> QED
        BY <3>4, <4>1 DEF DataTypes, SchedTypeOK
    <3> QED
      BY <1>t, <1>7, <2>1, <3>5 DEF OutcomeInv
  <2>3. CASE io_blocked = {}
    <3>1. UNCHANGED parked_resume
      BY <1>8, <2>3 DEF DrainReady
    <3> QED
      BY <1>2, <1>7, <2>1, <3>1
  <2> QED
    BY <2>2, <2>3
<1>9. CASE InDrain /\ NobodyInDrain
  BY <1>2, <1>7, <1>9 DEF NobodyInDrain, schedVars, handleVars
<1>10. CASE WaitInDrain
  <2>1. UNCHANGED <<result, settled, parked_resume, mailbox>>
    BY <1>10 DEF WaitInDrain, RaiseCancelled, schedVars, handleVars, jobVars
  <2>2. pc' = "raise" => in_flight' \in ErrorsSeen
    BY <1>10 DEF WaitInDrain, RaiseCancelled, RaiseErr, Park, SwitchAway, ErrorsSeen
  <2> QED
    BY <1>t, <1>2, <2>1, <2>2
<1>11. CASE UNCHANGED <<schedVars, handleVars, jobVars>> /\ (pc' = "raise" => UNCHANGED <<pc, in_flight>>)
  BY <1>t, <1>2, <1>11 DEF schedVars, handleVars, jobVars
<1>12. CASE EndDrain
  BY <1>t, <1>2, <1>12 DEF EndDrain, handleVars, jobVars
<1> QED
  BY <1>1, <1>3, <1>4, <1>5, <1>6, <1>8, <1>9, <1>10, <1>11, <1>12, OtherSteps

\* Whoever is parked still waits for something that can come: the host settles
\* a deferred with all its awaiters, and a drain loses no completion.
LEMMA SessionWaits ==
  ASSUME SessionInv, [SessionNext]_allVars
  PROVE  (JoinsLive /\ JoinsOpen /\ CallsReturn)'
<1>0. DataTypes /\ SchedTypeOK /\ JoinsLive /\ JoinsOpen /\ CallsReturn
  BY TypesParts DEF SessionInv, DataTypes
<1>1. CASE ActorStep
  <2>1. TypeOK /\ [Next]_vars
    BY <1>1, ActingTypes DEF ActorStep, SessionInv
  <2> QED
    BY <1>0, <2>1, JoinsLiveStep, JoinsOpenStep, CallsReturnStep
<1>2. ASSUME blocked' \subseteq blocked, result' = result PROVE JoinsLive'
  BY <1>0, <1>2 DEF JoinsLive
<1>3. ASSUME deferred_blocked' \subseteq deferred_blocked, settled' = settled PROVE JoinsOpen'
  BY <1>0, <1>3 DEF JoinsOpen
<1>4. ASSUME io_blocked' \subseteq io_blocked, UNCHANGED <<running_jobs, mailbox>>
      PROVE  CallsReturn'
  BY <1>0, <1>4 DEF CallsReturn
<1>5. ASSUME io_blocked' = io_blocked \ {p \in io_blocked : mailbox[p.job_id] # None},
             running_jobs' = running_jobs
      PROVE  CallsReturn'
  BY <1>0, <1>5 DEF CallsReturn
<1>6. ASSUME NEW j \in Jobs, Post(j) PROVE (JoinsLive /\ JoinsOpen /\ CallsReturn)'
  <2>1. PICK o \in JobOutcomes : mailbox' = [mailbox EXCEPT ![j] = o]
    BY <1>6 DEF Post
  <2>2. o # None
    BY ResumeFacts
  <2>3. running_jobs' = running_jobs \ {j} /\ io_blocked' = io_blocked
    BY <1>6 DEF Post, schedVars
  <2>4. CallsReturn'
    BY <1>0, <2>1, <2>2, <2>3 DEF CallsReturn, DataTypes
  <2> QED
    BY <1>2, <1>3, <1>6, <2>4 DEF Post, schedVars, handleVars
<1>7. CASE Reload
  BY <1>7 DEF Reload, JoinsLive, JoinsOpen, CallsReturn
<1>8. ASSUME NEW d \in Deferreds, NEW o \in {Value("settled"), Raise("raised")}, HostSettle(d, o)
      PROVE  (JoinsLive /\ JoinsOpen /\ CallsReturn)'
  <2>1. deferred_blocked' = {b \in deferred_blocked : b.deferred # d}
        /\ settled' = [settled EXCEPT ![d] = o]
    BY <1>8 DEF HostSettle, WakeDeferred
  <2>2. JoinsOpen'
    BY <1>0, <2>1 DEF JoinsOpen, DataTypes
  <2> QED
    BY <1>2, <1>4, <1>8, <2>2 DEF HostSettle, jobVars
<1>9. CASE BeginDrain
  BY <1>2, <1>3, <1>4, <1>9 DEF BeginDrain, handleVars, jobVars
<1>10. CASE DrainReady
  <2>1. CASE io_blocked # {}
    <3>1. io_blocked' = io_blocked \ {p \in io_blocked : mailbox[p.job_id] # None}
      BY <1>10, <2>1 DEF DrainReady, PollIoCompletions, WakeIo
    <3> QED
      BY <1>2, <1>3, <1>5, <1>10, <3>1 DEF DrainReady, handleVars
  <2>2. CASE io_blocked = {}
    BY <1>2, <1>3, <1>4, <1>10, <2>2 DEF DrainReady, handleVars
  <2> QED
    BY <2>1, <2>2
<1>11. CASE NobodyInDrain
  <2>1. io_blocked' = io_blocked /\ running_jobs' = running_jobs
        /\ \A p \in io_blocked : mailbox[p.job_id] = None
    BY <1>11 DEF NobodyInDrain, Arrived, schedVars
  <2>2. CallsReturn'
    BY <1>5, <2>1
  <2> QED
    BY <1>2, <1>3, <1>11, <2>2 DEF NobodyInDrain, schedVars, handleVars
<1>12. CASE WaitInDrain
  BY <1>2, <1>3, <1>4, <1>12 DEF WaitInDrain, RaiseCancelled, schedVars, handleVars, jobVars
<1>13. CASE UNCHANGED <<schedVars, handleVars, jobVars>>
  BY <1>2, <1>3, <1>4, <1>13 DEF schedVars, handleVars, jobVars
<1>14. CASE EndDrain
  BY <1>2, <1>3, <1>4, <1>14 DEF EndDrain, parkVars, handleVars, jobVars
<1> QED
  BY <1>1, <1>6, <1>7, <1>8, <1>9, <1>10, <1>11, <1>12, <1>13, <1>14, OtherSteps

\* No id of a call is taken again while its answer may still come.
LEMMA SessionJobs ==
  ASSUME SessionInv, [SessionNext]_allVars
  PROVE  JobsKnown'
<1>0. /\ next_job_id \in Nat /\ running_jobs \subseteq Nat /\ \A j \in Jobs : j \in Nat
      /\ mailbox \in [Jobs -> Outcomes \cup {None}] /\ JobsKnown
  BY DEF SessionInv, TypesInv, SessionTypeOK, Jobs
<1>1. \/ UNCHANGED <<running_jobs, next_job_id>> /\ mailbox' \in {mailbox, EmptyMailbox}
      \/ /\ next_job_id' = next_job_id + 1
         /\ running_jobs' = running_jobs \cup {next_job_id} /\ mailbox' = mailbox
      \/ /\ next_job_id' = next_job_id
         /\ \E j \in running_jobs :
              /\ running_jobs' = running_jobs \ {j}
              /\ \E o : mailbox' = [mailbox EXCEPT ![j] = o]
  <2>1. CASE ActorStep
    BY <2>1, JobSteps DEF ActorStep
  <2>2. CASE \E j \in Jobs : Post(j)
    BY <2>2 DEF Post
  <2>3. CASE ~ActorStep /\ ~(\E j \in Jobs : Post(j))
    BY <2>3, OtherSteps
    DEF Reload, JobsGoOn, HostSettle, BeginDrain, DrainReady, PollIoCompletions, NobodyInDrain,
        WaitInDrain, RaiseCancelled, EndDrain, jobVars
  <2> QED
    BY <2>1, <2>2, <2>3
<1>2. CASE UNCHANGED <<running_jobs, next_job_id>> /\ mailbox' \in {mailbox, EmptyMailbox}
  BY <1>0, <1>2 DEF JobsKnown, EmptyMailbox
<1>3. CASE /\ next_job_id' = next_job_id + 1
           /\ running_jobs' = running_jobs \cup {next_job_id} /\ mailbox' = mailbox
  <2>1. PICK n \in Nat : n = next_job_id' /\ n = next_job_id + 1
    BY <1>0, <1>3
  <2>2. /\ next_job_id < n
        /\ \A j \in Nat : j < next_job_id => j < n
    BY <1>0, <2>1
  <2> QED
    BY <1>0, <1>3, <2>1, <2>2 DEF JobsKnown
<1>4. ASSUME next_job_id' = next_job_id, NEW j \in running_jobs, running_jobs' = running_jobs \ {j},
             NEW o, mailbox' = [mailbox EXCEPT ![j] = o]
      PROVE  JobsKnown'
  BY <1>0, <1>4 DEF JobsKnown
<1> QED
  BY <1>1, <1>2, <1>3, <1>4

\* A reload leaves nobody's handle behind: each coroutine that has not ended is
\* parked, and so settled as cancelled.
LEMMA NobodyForsaken ==
  ASSUME SessionInv, [SessionNext]_allVars
  PROVE  ~forsaken'
<1>1. CASE Reload
  <2>1. PlacedBut({Main}) /\ Running = {}
    BY <1>1, HostPlaces DEF Reload
  <2>2. next_id \in 1..(MaxGreen + 1)
    BY DEF SessionInv, TypesInv, SessionTypeOK, SchedTypeOK
  <2>3. ASSUME NEW g \in 1..(next_id - 1), result[g] = None PROVE g \in Parked
    <3>1. g \in Coroutine /\ g # Main /\ g < next_id
      BY <2>2, <2>3, BoundsAssumption DEF Coroutine, Main
    <3>2. Live(g)
      BY <2>3, <3>1 DEF Live
    <3>3. g \in Everyone
      BY <2>1, <3>1, <3>2 DEF PlacedBut, AccountedBut
    <3> QED
      BY <2>1, <3>3 DEF Everyone, Parked, InJoin, InIo, InTimer, InDefer
  <2>4. forsaken' = (forsaken \/ \E g \in 1..(next_id - 1) : ~(result[g] # None \/ g \in Parked))
    BY <1>1 DEF Reload
  <2> QED
    BY <2>3, <2>4 DEF SessionInv
<1>2. CASE ~Reload
  BY <1>2, StepIs
  DEF ActorStep, DrainStep, PostStep, HostStep, StrangerReturns, StrangerFails, CallIn, HostSettle,
      BeginDrain, DrainReady, EndDrain, CallOut, hostVars, allVars, SessionInv
<1> QED
  BY <1>1, <1>2

-----------------------------------------------------------------------------
(* What the coroutines may rely on (Awaiting), in a session. *)

\* While the actor in it acts, a session is what Awaiting's view of an actor asks.
LEMMA SessionView ==
  ASSUME SessionInv, Acting
  PROVE  ViewInv
<1>1. TypeOK /\ OutcomeInv
  BY ActingTypes DEF SessionInv
<1>2. PICK A : A = Kept
  OBVIOUS
<1>3. PlaceInvBut(A)
  BY <1>2, ActingPlaces
<1>4. Unique /\ Apart
  BY <1>3 DEF PlaceInvBut, PlacedBut, Acting
<1>5. HasThread /\ current_id # Main => result[current_id] = None
  BY <1>3, RunningAlone DEF Live
<1>6. CallsKnown
  <2>1. \A p \in io_blocked : p.job_id \in Jobs
    BY <1>1 DEF TypeOK, SchedTypeOK
  <2> QED
    BY <2>1 DEF SessionInv, CallsReturn, JobsKnown, CallsKnown
<1> QED
  BY <1>1, <1>4, <1>5, <1>6 DEF ViewInv

\* Nobody runs where the host, or nobody, has the thread.
LEMMA HostViews ==
  /\ pc \in {"pick", "ended", "host", "frame", "panicked"} => Running = {} /\ Raising = None
  /\ pc' \in {"pick", "ended", "host", "frame", "panicked"} => Running' = {} /\ Raising' = None
BY DEF Running, Raising, HasThread

\* Between two calls the host has the thread, as Awaiting sees it.
LEMMA HostHosts ==
  ASSUME SessionInv, pc = "host", Whole
  PROVE  Promise!Hosting /\ SchedTypeOK /\ Unique /\ Apart
<1>1. PlacedBut({Main}) /\ Running = {} /\ SchedTypeOK
  BY HostPlaces DEF SessionInv, TypesInv, SessionTypeOK
<1>2. Main \notin Queued \cup InJoin \cup InIo \cup InTimer \cup InDefer
  BY <1>1 DEF PlacedBut, AccountedBut, Everyone
<1>3. Promise!Threads(Waits) = InJoin \cup InIo \cup InTimer \cup InDefer
  <2>1. Promise!Threads(Waits) = Promise!Threads(JoinWaits) \cup Promise!Threads(IoWaits)
          \cup Promise!Threads(TimerWaits) \cup Promise!Threads(DeferWaits)
    BY WaitsAre DEF Promise!Threads
  <2> QED
    BY <2>1, ThreadsOfWaits
<1> QED
  BY <1>1, <1>2, <1>3 DEF Promise!Hosting, PlacedBut

\* What the host does between two calls.
LEMMA HostIsPromised ==
  ASSUME SessionInv,
         \/ \E kind \in {"call", "load"} : CallIn(kind)
         \/ \E d \in Deferreds, o \in {Value("settled"), Raise("raised")} : HostSettle(d, o)
         \/ Reload
         \/ BeginDrain
  PROVE  Promise!HostedNext
<1>0. /\ Promise!Hosting /\ SchedTypeOK /\ Unique /\ Apart
      /\ pc = "host" /\ current_id = Main /\ Running = {} /\ Raising = None
  BY HostHosts, HostViews DEF CallIn, HostSettle, Reload, BeginDrain, Whole
<1>1. ASSUME NEW kind, CallIn(kind) PROVE Promise!Enter
  <2>1. pc' = "poll" /\ UNCHANGED <<schedVars, handleVars, jobVars, now>>
    BY <1>1 DEF CallIn
  <2>2. UNCHANGED <<Started, Queued, Waits>> /\ Running' = {Main} /\ Raising' = None
    BY <1>0, <2>1, ViewKept, PcViews DEF schedVars, parkVars
  <2> QED
    BY <1>0, <2>1, <2>2 DEF Promise!Enter, schedVars, handleVars, jobVars
<1>2. ASSUME NEW d \in Deferreds, NEW o \in {Value("settled"), Raise("raised")}, HostSettle(d, o)
      PROVE  Promise!HostSettle(d)
  <2>1. /\ settled[d] = None /\ settled' = [settled EXCEPT ![d] = o] /\ WakeDeferred(d, o)
        /\ UNCHANGED <<blocked, io_blocked, timer_blocked, next_id, pc, result,
                       cancel_requested, jobVars, now>>
    BY <1>2 DEF HostSettle
  <2>2. Promise!Tell(Promise!WaitsOn(OnDeferred(d)), o)
    BY <1>0, <2>1, AwaitersAreTold
  <2>3. Started' = Started /\ Running' = Running /\ Raising' = Raising
    BY <1>0, <2>1, ViewKept, HostViews
  <2> QED
    BY <1>0, <2>1, <2>2, <2>3 DEF Promise!HostSettle, Promise!SettleOnce, jobVars
<1>3. CASE Reload
  <2>1. /\ queue' = <<>> /\ blocked' = {} /\ io_blocked' = {} /\ timer_blocked' = {}
        /\ deferred_blocked' = {} /\ next_id' = 1 /\ current_id' = Main /\ pc' = "poll"
        /\ parked_resume' = [c \in Coroutine |-> None]
        /\ result' = [g \in Green |-> None]
        /\ cancel_requested' = [g \in Green |-> FALSE]
        /\ UNCHANGED <<settled, running_jobs, mailbox, now>>
    BY <1>3 DEF Reload, JobsGoOn, jobVars
  <2>2. Started' = {Main} /\ Queued' = {}
    BY <2>1 DEF Started, Queued, Main
  <2>3. Waits' = {}
    BY <2>1, WaitsAre DEF JoinWaits, IoWaits, TimerWaits, DeferWaits
  <2>4. Running' = {Main} /\ Raising' = None
    BY <2>1, PcViews
  <2>5. Promise!Restart
    BY <1>0, <2>1, <2>2, <2>3, <2>4 DEF Promise!Restart
  <2> QED
    BY <2>5 DEF Promise!HostedNext
<1>4. CASE BeginDrain
  <2>1. PICK t : t = now' /\ WakeTimers(t)
    BY <1>4 DEF BeginDrain
  <2>2. /\ UNCHANGED <<blocked, io_blocked, deferred_blocked, next_id, handleVars, jobVars>>
        /\ pc' = "frame" /\ now' \in Time /\ now' >= now
    BY <1>4 DEF BeginDrain, SessionInv, TypesInv, SessionTypeOK, Time
  <2>3. Promise!Tell(DueBy(t), Value("null"))
    BY <1>0, <2>1, <2>2, SleepersAreWoken
  <2>4. Started' = Started /\ Running' = Running /\ Raising' = Raising
    BY <1>0, <2>2, ViewKept, HostViews
  <2>5. DueBy(t) = {w \in Waits : \E u \in Time : w.on = OnTime(u) /\ u <= now'}
    BY <2>1 DEF DueBy
  <2>6. Promise!Frame
    BY <1>0, <2>2, <2>3, <2>4, <2>5 DEF Promise!Frame, handleVars, jobVars
  <2> QED
    BY <2>6 DEF Promise!HostedNext
<1> QED
  BY <1>1, <1>2, <1>3, <1>4 DEF Promise!HostedNext

\* How a drain looks into the mailbox and ends, and how a call ends.
LEMMA HostEndIsPromised ==
  ASSUME SessionInv, DrainReady \/ EndDrain \/ CallOut
  PROVE  Promise!HostedNext \/ UNCHANGED Promise!vars
<1>0. /\ UNCHANGED <<blocked, timer_blocked, deferred_blocked, next_id, handleVars,
                     running_jobs, now>>
      /\ Running' = Running /\ Raising' = Raising
  BY HostViews DEF DrainReady, EndDrain, CallOut, schedVars, parkVars, jobVars
<1>1. CASE DrainReady /\ io_blocked # {}
  <2>1. PICK A : A = Kept
    OBVIOUS
  <2>2. PlacedBut(A) /\ SchedTypeOK
    BY <1>1, <2>1 DEF DrainReady, SessionInv, Sound, TypesInv, SessionTypeOK
  <2>3. PollIoCompletions
    BY <1>1 DEF DrainReady
  <2>4. Promise!Collect
    BY <1>0, <2>2, <2>3, DrainIsSeen DEF PlacedBut
  <2> QED
    BY <2>4 DEF Promise!HostedNext, Promise!Next
<1>2. CASE UNCHANGED <<queue, parked_resume, io_blocked, mailbox>>
  <2>1. UNCHANGED <<Started, Queued, Waits>>
    BY <1>0, <1>2, ViewKept DEF parkVars
  <2> QED
    BY <1>0, <1>2, <2>1 DEF Promise!vars, handleVars
<1> QED
  BY <1>1, <1>2 DEF DrainReady, EndDrain, CallOut, schedVars, parkVars, jobVars

\* A wait in a drain ends with a frame, and one that nobody can end is left to the
\* host.
LEMMA DrainIsPromised ==
  ASSUME SessionInv, DrainStep
  PROVE  Promise!HostedNext \/ UNCHANGED Promise!vars
<1>0. ViewInv /\ TypeOK /\ SchedTypeOK /\ current_id \in Coroutine
  BY SessionView DEF DrainStep, WaitInDrain, NobodyInDrain, Acting, ViewInv, TypeOK, SchedTypeOK
<1>1. CASE WaitInDrain /\ RaiseCancelled
  BY <1>0, <1>1, RaiseCancelledIsSeen DEF WaitInDrain, Promise!HostedNext, Promise!Next
<1>2. CASE WaitInDrain /\ ~RaiseCancelled
  <2>1. PICK t \in {0} \cup ({now + s : s \in Delays} \cap Time) : ParkTimer(t)
    BY <1>2 DEF WaitInDrain
  <2>2. /\ pc = "exec" /\ ~SelfCancelled /\ Park(Nothing)
        /\ UNCHANGED <<queue, blocked, io_blocked, deferred_blocked, next_id,
                       current_id, parked_resume, handleVars, jobVars, now>>
    BY <1>2 DEF WaitInDrain
  <2>3. Waits' = Waits \cup {[thread |-> current_id, on |-> OnTime(t)]}
    <3>1. TimerWaits' = TimerWaits \cup {[thread |-> current_id, on |-> OnTime(t)]}
      BY <2>1, ParkAddsAWait
    <3> QED
      BY <2>2, <3>1, WaitsAre, WaitsKept
  <2>4. Promise!BeginWait(current_id, OnTime(t)) /\ UNCHANGED running_jobs
    BY <1>0, <2>2, <2>3, ParkIsSeen DEF jobVars
  <2>5. CASE t = 0
    BY <1>0, <2>4, <2>5 DEF Promise!AwaitFrame, Promise!HostedNext
  <2>6. CASE t # 0
    <3>1. t \in Time /\ t >= now
      BY <1>0, <2>6, DelaysAssumption DEF TypeOK, Time
    <3>2. Promise!Sleep(current_id, t)
      BY <2>4, <3>1 DEF Promise!Sleep
    <3> QED
      BY <1>0, <3>1, <3>2 DEF Promise!HostedNext, Promise!Next
  <2> QED
    BY <2>5, <2>6
<1>3. CASE NobodyInDrain
  <2>1. /\ pc = "pick" /\ pc' = "ended" /\ mailbox' \in {mailbox, EmptyMailbox} /\ ~Arrived
        /\ UNCHANGED <<schedVars, handleVars, running_jobs, now>>
    BY <1>3 DEF NobodyInDrain
  <2>2. UNCHANGED <<Started, Queued, Waits, Running, Raising>>
    BY <2>1, ViewKept, HostViews DEF schedVars, parkVars
  <2>3. CASE mailbox' = mailbox
    BY <2>1, <2>2, <2>3 DEF Promise!vars, schedVars, handleVars
  <2>4. CASE mailbox' = EmptyMailbox
    <3>1. ServedWaits = {}
      <4>1. ASSUME NEW w \in Waits, NEW j \in Jobs, w.on = OnJob(j), mailbox[j] # None PROVE FALSE
        <5>1. w \in IoWaits
          BY <4>1, WaitsAre, ThingsDiffer DEF JoinWaits, TimerWaits, DeferWaits
        <5>2. PICK p \in io_blocked : w.on = OnJob(p.job_id)
          BY <5>1 DEF IoWaits
        <5>3. p.job_id = j
          BY <4>1, <5>2, ThingsDiffer
        <5> QED
          BY <2>1, <4>1, <5>3 DEF Arrived
      <4> QED
        BY <4>1 DEF ServedWaits
    <3>2. Promise!Threads({}) = {} /\ DOMAIN parked_resume = Coroutine
      BY <1>0 DEF Promise!Threads, SchedTypeOK
    <3>3. Promise!Wake(ServedWaits)
      BY <2>1, <2>2, <3>1, <3>2 DEF Promise!Wake, schedVars
    <3>4. Promise!Collect
      BY <2>1, <2>2, <2>4, <3>1, <3>3
      DEF Promise!Collect, ServedWaits, EmptyMailbox, handleVars
    <3> QED
      BY <3>4 DEF Promise!HostedNext, Promise!Next
  <2> QED
    BY <2>1, <2>3, <2>4
<1> QED
  BY <1>1, <1>2, <1>3 DEF DrainStep

\* Every step of a session is one that Awaiting allows of an actor that a host
\* drives, or is not seen, but for the end of a coroutine inside a call.
LEMMA SessionStepIsPromised ==
  SessionInv /\ [SessionNext]_allVars
    => [StrangerReturns \/ StrangerFails \/ Promise!HostedNext]_(Promise!vars)
<1> SUFFICES ASSUME SessionInv, [SessionNext]_allVars, ~StrangerReturns, ~StrangerFails
             PROVE  Promise!HostedNext \/ UNCHANGED Promise!vars
  OBVIOUS
<1>1. CASE ActorStep
  <2>1. ViewInv /\ [Next]_vars
    BY <1>1, SessionView DEF ActorStep
  <2>2. [Promise!Next]_(Promise!vars)
    BY <2>1, StepIsPromised
  <2> QED
    BY <2>2 DEF Promise!HostedNext
<1>2. CASE DrainStep
  BY <1>2, DrainIsPromised
<1>3. CASE PostStep
  BY <1>3, ReturnIsSeen DEF PostStep, Promise!HostedNext, Promise!Next
<1>4. CASE HostStep
  BY <1>4, HostIsPromised, HostEndIsPromised DEF HostStep
<1>5. CASE UNCHANGED allVars
  <2>1. UNCHANGED <<schedVars, pc, in_flight, handleVars, jobVars, now>>
    BY <1>5 DEF allVars, vars, vmVars
  <2>2. UNCHANGED <<Started, Queued, Waits, Running, Raising>>
    BY <2>1, ViewKept DEF schedVars, parkVars, Running, Raising, HasThread
  <2> QED
    BY <2>1, <2>2 DEF Promise!vars, schedVars, handleVars, jobVars
<1> QED
  BY <1>1, <1>2, <1>3, <1>4, <1>5, StepIs

-----------------------------------------------------------------------------
(* The theorems. *)

\* A session begins with its first load running, and nothing else.
LEMMA SessionInvInit == SessionInit => SessionInv
<1> SUFFICES ASSUME SessionInit PROVE SessionInv
  OBVIOUS
<1>1. PlaceInv /\ OutcomeInv
  BY PlaceInit, OutcomeInit DEF SessionInit
<1>2. DataTypes /\ pc = "poll" /\ current_id = Main
  BY <1>1 DEF PlaceInv, TypeOK, DataTypes, SessionInit, Init, SchedInit
<1>3. ControlTypes /\ CallInv
  BY <1>2 DEF SessionInit, ControlTypes, CallInv, InDrain, Whole
<1>4. Kept = {}
  BY <1>2 DEF SessionInit, Kept, MainIsKept
<1>5. PlacedBut(Kept)
  BY <1>1, <1>2, <1>4 DEF PlaceInv, Placed, PlacedBut, Accounted, AccountedBut
<1>6. JoinsLive /\ JoinsOpen /\ CallsReturn /\ ~forsaken
  BY DEF SessionInit, Init, SchedInit, JoinsLive, JoinsOpen, CallsReturn
<1>7. JobsKnown
  BY DEF SessionInit, Init, JobsKnown
<1> QED
  BY <1>1, <1>2, <1>3, <1>5, <1>6, <1>7, TypesParts DEF SessionInv, PlaceInv

\* Every step, of a coroutine, a worker or the host, keeps the invariant.
LEMMA SessionInvStep == SessionInv /\ [SessionNext]_allVars => SessionInv'
<1> SUFFICES ASSUME SessionInv, [SessionNext]_allVars PROVE SessionInv'
  OBVIOUS
<1>1. DataTypes'
  BY DataStep DEF SessionInv
<1>2. ControlTypes' /\ CallInv'
  BY ControlStep DEF ControlInv
<1>3. TypesInv'
  BY <1>1, <1>2 DEF TypesInv, DataTypes, ControlTypes, SessionTypeOK
<1>4. (Sound => PlacedBut(Kept))'
  BY PlacesStep
<1>5. Unborn' /\ OutcomeInv'
  BY SessionUnborn, SessionOutcomes
<1>6. JoinsLive' /\ JoinsOpen' /\ CallsReturn'
  BY SessionWaits
<1>7. ~forsaken'
  BY NobodyForsaken
<1>8. JobsKnown'
  BY SessionJobs
<1> QED
  BY <1>2, <1>3, <1>4, <1>5, <1>6, <1>7, <1>8 DEF SessionInv

\* So it holds in every reachable state of a session.
LEMMA SessionInvariant == SessionSpec => []SessionInv
<1> QED
  BY SessionInvInit, SessionInvStep, PTL DEF SessionSpec

\* While main has not gone astray, whoever is live is in one place, the host's
\* included, and whoever has ended in none.
LEMMA OnePlaceEach ==
  ASSUME SessionInv, ~strayed, NEW c \in Coroutine
  PROVE  Cardinality(Places(c)) = IF Live(c) THEN 1 ELSE 0
<1>1. PlacedBut(Kept)
  BY DEF SessionInv, Sound
<1>2. /\ Held("running") = Running /\ Held("queue") = Queued
      /\ Held("join") = InJoin /\ Held("io") = InIo
      /\ Held("timer") = InTimer /\ Held("deferred") = InDefer
  BY DEF Held, Running, InJoin, InIo, InTimer, InDefer
<1>3. (\E h : h \in Places(c)) <=> c \in Everyone \cup Kept
  BY <1>2 DEF Places, Holders, Kept, Everyone
<1>4. ASSUME NEW h \in Places(c), NEW k \in Places(c) PROVE h = k
  <2>1. ASSUME NEW x \in Places(c)
        PROVE  (x = "host" /\ c \in Kept) \/ (x \in Holders /\ c \in Held(x))
    BY DEF Places, Kept
  <2>2. ASSUME NEW x \in Holders, c \in Held(x) PROVE c \in Everyone /\ c \notin Kept
    <3>1. c \in Everyone
      BY <1>2, <2>2 DEF Holders, Everyone
    <3> QED
      BY <1>1, <3>1 DEF PlacedBut, AccountedBut
  <2>3. CASE c \in Kept
    BY <2>1, <2>2, <2>3
  <2>4. CASE c \notin Kept
    <3>1. h \in Holders /\ c \in Held(h) /\ k \in Holders /\ c \in Held(k)
      BY <2>1, <2>4
    <3> QED
      BY <1>1, <1>2, <3>1 DEF PlacedBut, Apart, Holders
  <2> QED
    BY <2>3, <2>4
<1>5. CASE Live(c)
  <2>1. PICK h : h \in Places(c)
    BY <1>1, <1>3, <1>5 DEF PlacedBut, AccountedBut
  <2>2. Places(c) = {h}
    BY <1>4, <2>1
  <2> QED
    BY <1>5, <2>2, FS_Singleton
<1>6. CASE ~Live(c)
  <2>1. Places(c) = {}
    BY <1>1, <1>3, <1>6 DEF PlacedBut, AccountedBut
  <2> QED
    BY <1>6, <2>1, FS_EmptySet
<1> QED
  BY <1>5, <1>6

\* Type correctness: whatever the host calls, settles, drains and reloads, and in
\* whatever order, the session's state is well typed.
THEOREM SessionTypeCorrect == SessionSpec => []SessionTypeOK
<1>1. SessionInv => SessionTypeOK
  BY DEF SessionInv, TypesInv
<1> QED
  BY <1>1, SessionInvariant, PTL

\* As long as main does not park in a call, the host finds the session whole
\* whenever it has the thread, and the dispatch loop never runs without a frame.
THEOREM SessionSurvivesAlways == SessionSpec => []SessionSurvives
<1>1. SessionInv => SessionSurvives
  <2> SUFFICES ASSUME SessionInv, ~strayed PROVE (pc = "host" => Whole) /\ pc # "panicked"
    BY DEF SessionSurvives
  <2>1. ControlTypes /\ CallInv
    BY TypesParts DEF SessionInv
  <2> QED
    BY <2>1 DEF ControlTypes, CallInv, InDrain
<1> QED
  BY <1>1, SessionInvariant, PTL

\* Nor is a coroutine lost or run twice, across any number of drains and reloads,
\* and whoever is parked waits for something that can still come.
THEOREM EveryoneAccountedForAlways == SessionSpec => []EveryoneAccountedFor
<1>1. SessionInv => EveryoneAccountedFor
  <2> SUFFICES ASSUME SessionInv, ~strayed
               PROVE  /\ NoDuplicates
                      /\ \A c \in Coroutine : Cardinality(Places(c)) = IF Live(c) THEN 1 ELSE 0
                      /\ NobodyStranded
                      /\ ~forsaken
    BY DEF EveryoneAccountedFor
  <2>1. NoDuplicates
    BY DEF SessionInv, Sound, PlacedBut, Unique, NoRepeat, UniqueIn, NoDuplicates
  <2>2. NobodyStranded
    BY DEF SessionInv, JoinsLive, JoinsOpen, CallsReturn, NobodyStranded
  <2> QED
    BY <2>1, <2>2, OnePlaceEach DEF SessionInv
<1> QED
  BY <1>1, SessionInvariant, PTL

\* And the coroutines of a session may rely on what those of an actor of its own
\* do (Awaiting): a wait ends with what it is for or by a cancellation heard of
\* once, whether the host, a frame or a worker brings it about, and no answer of
\* the old program reaches the one that a reload begins.  Only a coroutine that
\* ends inside a call of the host ends unheard.
THEOREM KeepsPromisesAlways == SessionSpec => KeepsPromises
<1>1. SessionInit => Promise!Init
  BY StartIsSeen DEF SessionInit
<1> QED
  BY <1>1, SessionInvariant, SessionStepIsPromised, PTL DEF SessionSpec, KeepsPromises

-----------------------------------------------------------------------------
(* The order of the run-queue. *)

\* First come, first served from one reload to the next: neither the host's
\* settling nor a frame's wakes, nor who is picked while main is aside, let one
\* coroutine overtake another.
NobodyIsOvertakenInFrames == [][Reload \/ InOrder]_allVars

\* The steps that are not the actor's own change the queue as those do.
LEMMA SessionInOrder ==
  ASSUME SessionInv, SessionNext, ~Reload
  PROVE  InOrder
<1>1. SchedTypeOK /\ mailbox \in [Jobs -> Outcomes \cup {None}]
  BY DEF SessionInv, TypesInv, SessionTypeOK
<1>2. ASSUME Next PROVE InOrder
  BY <1>1, <1>2, QueueSteps, StepInOrder
<1>3. ASSUME queue' = queue PROVE InOrder
  BY <1>1, <1>3, SameGrows, StepInOrder
<1>4. CASE HostStep
  <2>1. CASE BeginDrain
    <3>1. Threads(Due(now')) \subseteq Coroutine
      BY <1>1 DEF Due, Threads, SchedTypeOK
    <3>2. Grows
      BY <1>1, <2>1, <3>1, WakeGrows DEF BeginDrain, WakeTimers, MakeReady
    <3> QED
      BY <1>1, <3>2, StepInOrder
  <2>2. CASE DrainReady
    <3>1. CASE WakeIo(mailbox)
      <4>1. Threads({p \in io_blocked : mailbox[p.job_id] # None}) \subseteq Coroutine
        BY <1>1 DEF Threads, SchedTypeOK
      <4>2. Grows
        BY <1>1, <3>1, <4>1, WakeGrows DEF WakeIo, MakeReady
      <4> QED
        BY <1>1, <4>2, StepInOrder
    <3> QED
      BY <1>3, <2>2, <3>1 DEF DrainReady, PollIoCompletions
  <2>3. ASSUME NEW d \in Deferreds, NEW o, HostSettle(d, o) PROVE InOrder
    <3>1. Awaiters(d) \subseteq Coroutine
      BY <1>1 DEF Awaiters, Threads, SchedTypeOK
    <3>2. Grows
      BY <1>1, <2>3, <3>1, WakeGrows DEF HostSettle, WakeDeferred, MakeReady
    <3> QED
      BY <1>1, <3>2, StepInOrder
  <2> QED
    BY <1>3, <1>4, <2>1, <2>2, <2>3 DEF HostStep, CallIn, EndDrain, CallOut, schedVars
<1>5. CASE Operation
  BY <1>2, <1>3, <1>5 DEF Operation, Next, LeaveOp, WaitInDrain, RaiseCancelled, schedVars
<1>6. CASE Poll \/ FireTimers \/ Unwinding \/ Picking \/ \E j \in Jobs : Post(j)
  BY <1>2, <1>3, <1>6
  DEF Unwinding, Picking, PollInDrain, NobodyInDrain, Next, Unwind, Pick, schedVars
<1>7. CASE StrangerReturns \/ StrangerFails \/ (Broken /\ UNCHANGED allVars)
  BY <1>3, <1>7 DEF StrangerReturns, StrangerFails, allVars, vars, schedVars
<1> QED
  BY <1>4, <1>5, <1>6, <1>7 DEF SessionNext

\* Between two reloads whoever wakes goes behind all who are ready, and only the
\* first of them is given the thread, whoever drives the actor.
THEOREM NobodyIsOvertakenInFramesEver == SessionSpec => NobodyIsOvertakenInFrames
<1>1. SessionInv /\ [SessionNext]_allVars => [Reload \/ InOrder]_allVars
  BY SessionInOrder
<1> QED
  BY <1>1, SessionInvariant, PTL DEF SessionSpec, NobodyIsOvertakenInFrames

===============================================================================
