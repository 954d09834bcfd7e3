------------------------------- MODULE Session -------------------------------
(***************************************************************************)
(* A host that embeds tigr (src/src/embed.rs): the actor of GreenThreads   *)
(* driven from outside.                                                    *)
(*                                                                         *)
(* The host owns the thread.  It loads programs and calls their functions, *)
(* which run as the main coroutine; once per frame it calls drain_ready,   *)
(* which puts main aside and runs the other coroutines until each has      *)
(* finished or parked; it settles deferreds; and it reloads the program.   *)
(* The coroutines' operations are those of GreenThreads, but only the      *)
(* host moves the clock (now is Vm::frame_now, and BlockingTimersOk is     *)
(* FALSE) and no park may block the thread during a drain.                 *)
(*                                                                         *)
(* pc has three values more: "host", the host has the thread; "frame",     *)
(* drain_ready has woken the timers; "panicked", the dispatch loop runs    *)
(* without a frame.  "ended" is where the dispatch loop hands back to the  *)
(* host's call.                                                            *)
(***************************************************************************)
EXTENDS GreenThreads

ASSUME HostAssumption == BlockingTimersOk = FALSE

VARIABLES
  host,        \* the host's call in progress: "none", "call", "load", "drain"
  installed,   \* the Vm's frames are main's, with the persistent frame 0
  aside,       \* Vm::drain_main is set
  strayed,     \* main has parked in a call of the host and is not back yet
  forsaken     \* a reload left a live handle without a coroutine

hostVars == <<host, installed, aside, forsaken>>
allVars  == <<vars, hostVars, strayed>>

InDrain == host = "drain"

\* The first load.
SessionInit ==
  /\ Init
  /\ host = "load"
  /\ installed = TRUE
  /\ aside = FALSE
  /\ strayed = FALSE
  /\ forsaken = FALSE

SessionTypeOK ==
  /\ SchedTypeOK
  /\ pc \in {"poll", "timers", "exec", "raise", "pick", "ended", "host", "frame", "panicked"}
  /\ host \in {"none", "call", "load", "drain"}
  /\ pc = "host" <=> host = "none"
  /\ aside <=> InDrain /\ pc # "frame"
  /\ aside => current_id # Main \/ pc = "pick"
  /\ strayed \in BOOLEAN
  /\ result \in [Green -> Outcomes \cup {None}]
  /\ mailbox \in [Jobs -> Outcomes \cup {None}]
  /\ now \in Time

-----------------------------------------------------------------------------
(* What the host does between two calls.  What it does with a session that is *)
(* no longer whole is not modelled.                                           *)

\* The Vm holds main with its persistent frame.
Whole == installed /\ current_id = Main

\* call_function: the callee's frame goes on top of the persistent one, and the
\* loop ends when the frames are down to that one again.  load does the same
\* with frame 0 itself.
CallIn(kind) ==
  /\ pc = "host" /\ Whole
  /\ pc' = "poll"
  /\ in_flight' = None
  /\ host' = kind
  /\ UNCHANGED <<schedVars, handleVars, site, jobVars, now, installed, aside, strayed, forsaken>>

\* resolve_deferred, reject_deferred.
HostSettle(d, outcome) ==
  /\ pc = "host" /\ Whole
  /\ settled[d] = None
  /\ settled' = [settled EXCEPT ![d] = outcome]
  /\ WakeDeferred(d, outcome)
  /\ UNCHANGED <<blocked, io_blocked, timer_blocked, next_id, current_id, pc, in_flight,
                 result, cancel_requested, site, jobVars, now, hostVars, strayed>>

\* Wrong: those that await a deferred are overlooked.
ParkedButAwaiters == Queued \cup Threads(blocked) \cup Threads(io_blocked) \cup Threads(timer_blocked)

\* Scheduler::queued: everyone but the running coroutine.
Parked == Queued \cup Threads(blocked) \cup Threads(io_blocked) \cup Threads(timer_blocked)
                 \cup Threads(deferred_blocked)

\* Wrong: the calls of the new program are numbered from the first again.
JobsStartAgain == next_job_id' = 0 /\ UNCHANGED <<running_jobs, mailbox>>

\* A reload leaves the pool alone: calls in flight return, and ids go on.
JobsGoOn == UNCHANGED jobVars

\* reload, the new source compiled: every parked coroutine's handle is settled
\* as cancelled, the scheduler starts afresh, ids included, and the new top
\* level runs.  The handles of the old program are not named again.
Reload ==
  LET ended(g) == result[g] # None \/ g \in Parked
  IN  /\ pc = "host" /\ Whole
      /\ forsaken' = (forsaken \/ \E g \in 1..(next_id - 1) : ~ended(g))
      /\ queue' = <<>>
      /\ blocked' = {} /\ io_blocked' = {} /\ timer_blocked' = {} /\ deferred_blocked' = {}
      /\ next_id' = 1
      /\ current_id' = Main
      /\ parked_resume' = [c \in Coroutine |-> None]
      /\ result' = [g \in Green |-> None]
      /\ cancel_requested' = [g \in Green |-> FALSE]
      /\ site' = [c \in Coroutine |-> Nothing]
      /\ pc' = "poll"
      /\ in_flight' = None
      /\ host' = "load"
      /\ installed' = TRUE
      /\ aside' = FALSE
      /\ JobsGoOn
      /\ UNCHANGED <<settled, now, strayed>>

-----------------------------------------------------------------------------
(* drain_ready *)

\* The host's clock stands still or goes on; the timers that are due are woken.
BeginDrain ==
  /\ pc = "host" /\ Whole
  /\ now' \in {now, now + 1} \cap Time
  /\ WakeTimers(now')
  /\ pc' = "frame"
  /\ host' = "drain"
  /\ UNCHANGED <<blocked, io_blocked, deferred_blocked, next_id, current_id, in_flight,
                 handleVars, site, jobVars, installed, aside, strayed, forsaken>>

\* Wrong: main is put aside and not restored in a frame with nobody ready.
DrainReadyIdle ==
  /\ pc = "frame"
  /\ IF io_blocked # {}
       THEN PollIoCompletions
       ELSE UNCHANGED <<queue, parked_resume, io_blocked, mailbox>>
  /\ pc' = IF queue' = <<>> THEN "host" ELSE "pick"
  /\ host' = IF queue' = <<>> THEN "none" ELSE "drain"
  /\ installed' = TRUE
  /\ aside' = TRUE
  /\ in_flight' = HostYield
  /\ UNCHANGED <<blocked, timer_blocked, deferred_blocked, next_id, current_id, handleVars, site,
                 next_job_id, running_jobs, now, strayed, forsaken>>

\* The completions are delivered.  With nobody ready the frame is over, else main
\* is put aside and the first of them is picked.
DrainReady ==
  /\ pc = "frame"
  /\ IF io_blocked # {}
       THEN PollIoCompletions
       ELSE UNCHANGED <<queue, parked_resume, io_blocked, mailbox>>
  /\ pc' = IF queue' = <<>> THEN "host" ELSE "pick"
  /\ host' = IF queue' = <<>> THEN "none" ELSE "drain"
  /\ installed' = (queue' = <<>>)
  /\ aside' = (queue' # <<>>)
  /\ in_flight' = HostYield
  /\ UNCHANGED <<blocked, timer_blocked, deferred_blocked, next_id, current_id, handleVars, site,
                 next_job_id, running_jobs, now, strayed, forsaken>>

\* coop_wait in a drain: until frame_now is later by `secs`, or, in wait_frame,
\* until the next drain.
WaitInDrain ==
  /\ pc = "exec"
  /\ InDrain
  /\ \/ RaiseCancelled
     \/ /\ ~SelfCancelled
        /\ \E wake \in {0} \cup ({now + s : s \in Delays} \cap Time) : ParkTimer(wake)
        /\ Park(Nothing)
        /\ UNCHANGED <<queue, blocked, io_blocked, deferred_blocked, next_id,
                       current_id, parked_resume, handleVars, jobVars, now>>

\* pick_next in a drain looks once at the mailbox and never sleeps.
Arrived == \E p \in io_blocked : mailbox[p.job_id] # None
PollInDrain == Arrived /\ PumpIo
NobodyInDrain ==
  /\ pc = "pick"
  /\ queue = <<>>
  /\ ~Arrived
  /\ mailbox' = IF io_blocked # {} THEN EmptyMailbox ELSE mailbox
  /\ pc' = "ended"
  /\ in_flight' = IF in_flight.kind = "value" THEN HostYield ELSE in_flight
  /\ UNCHANGED <<schedVars, handleVars, site, next_job_id, running_jobs, now>>

\* Wrong: an error of a coroutine is returned before main is restored.
EndDrainEarly ==
  /\ pc = "ended"
  /\ InDrain
  /\ queue = <<>>
  /\ pc' = "host"
  /\ host' = "none"
  /\ current_id' = IF in_flight = HostYield THEN Main ELSE current_id
  /\ installed' = (in_flight = HostYield)
  /\ aside' = FALSE
  /\ UNCHANGED <<queue, parkVars, next_id, parked_resume, in_flight, handleVars, site, jobVars, now, strayed, forsaken>>

\* Nobody is left to run.  Main is restored, and the host gets the error, if one
\* has come this far.
EndDrain ==
  /\ pc = "ended"
  /\ InDrain
  /\ queue = <<>>
  /\ pc' = "host"
  /\ host' = "none"
  /\ current_id' = Main
  /\ installed' = TRUE
  /\ aside' = FALSE
  /\ UNCHANGED <<queue, parkVars, next_id, parked_resume, in_flight, handleVars, site, jobVars, now, strayed, forsaken>>

-----------------------------------------------------------------------------
(* A call runs in a loop of its own, which ends at the depth of the frame     *)
(* below it.  A coroutine that gets into it counts its own frames against     *)
(* that depth; how many it has is not modelled, so it may have too few, or    *)
(* enough for a function it is in to return as if the coroutine did           *)
(* (ReturnGreen) or to have a handler (Caught).                               *)

Stranger == host = "call" /\ current_id # Main

\* With too few its return takes the last frame there is, and the loop goes on.
StrangerReturns ==
  /\ pc = "exec"
  /\ Stranger
  /\ pc' = "panicked"
  /\ UNCHANGED <<schedVars, in_flight, handleVars, site, jobVars, now, hostVars, strayed>>

\* Its error, for which there is no handler above that depth, goes to the host.
StrangerFails ==
  /\ pc = "raise"
  /\ Stranger
  /\ pc' = "ended"
  /\ UNCHANGED <<schedVars, in_flight, handleVars, site, jobVars, now, hostVars, strayed>>

\* The loop is over.  It left main's frames in place if it was main that ended it.
CallOut ==
  /\ pc = "ended"
  /\ host \in {"call", "load"}
  /\ pc' = "host"
  /\ host' = "none"
  /\ installed' = (current_id = Main /\ in_flight # HostYield)
  /\ strayed' = (strayed /\ ~installed')
  /\ UNCHANGED <<schedVars, in_flight, handleVars, site, jobVars, now, aside, forsaken>>

-----------------------------------------------------------------------------
HostStep ==
  \/ \E kind \in {"call", "load"} : CallIn(kind)
  \/ \E d \in Deferreds, o \in {Value("settled"), Raise("raised")} : HostSettle(d, o)
  \/ Reload
  \/ BeginDrain
  \/ DrainReady
  \/ EndDrain
  \/ CallOut

\* Outside a drain `wait` raises.
Operation ==
  /\ \/ StayOp
     \/ YieldToNext
     \/ BlockingOffload
     \/ ReturnGreen
     \/ ReturnMain
     \/ \E g \in Green : JoinLive(g)
     \/ \E d \in Deferreds : JoinUnsettled(d)
     \/ ~InDrain /\ \E s \in Delays : Wait(s)
     \/ WaitInDrain
  /\ strayed' = (strayed \/ (current_id = Main /\ pc' = "pick"))
  /\ UNCHANGED hostVars

Unwinding == Caught \/ (~Stranger /\ (FailGreen \/ FailMain))

Picking ==
  \/ PickReady
  \/ ~InDrain /\ (PumpIo \/ PickNone)
  \/ InDrain /\ (PollInDrain \/ NobodyInDrain)

Broken == pc = "panicked" \/ (pc = "host" /\ ~Whole)

SessionNext ==
  \/ HostStep
  \/ StrangerReturns
  \/ StrangerFails
  \/ Operation
  \/ /\ Poll \/ FireTimers \/ Unwinding \/ Picking \/ \E j \in Jobs : Post(j)
     /\ UNCHANGED <<hostVars, strayed>>
  \/ Broken /\ UNCHANGED allVars

SessionSpec == SessionInit /\ [][SessionNext]_allVars

-----------------------------------------------------------------------------
(* Between two calls of the host the session is whole - main is the running  *)
(* coroutine and the Vm's frames are its own - whatever the coroutines did   *)
(* in the frames before, failures and reloads included, unless main itself   *)
(* parked in a call and has not come back.                                   *)
SessionSurvives == ~strayed => (pc = "host" => Whole) /\ pc # "panicked"

\* Where a coroutine is.  Main is with the host's call, aside in a drain.
MainIsKept == aside \/ pc = "frame" \/ (pc \in {"host", "ended"} /\ Whole /\ ~InDrain)
Places(c) == {h \in Holders : c \in Held(h)} \cup (IF c = Main /\ MainIsKept THEN {"host"} ELSE {})

(* A handle is live as long as its coroutine is somewhere, and that is in    *)
(* one place, across drains that set main aside and reloads that discard     *)
(* coroutines and hand out their ids again; and whoever is parked waits for  *)
(* something that can still come.                                            *)
EveryoneAccountedFor ==
  ~strayed =>
    /\ NoDuplicates
    /\ \A c \in Coroutine : Cardinality(Places(c)) = IF Live(c) THEN 1 ELSE 0
    /\ NobodyStranded
    /\ ~forsaken

\* What coroutines may rely on (Awaiting) holds of them in a session too: a wait
\* ends only with what it is for or by a cancellation heard of once, whether the
\* host settles the deferred, a frame fires the timer or looks into the mailbox;
\* and after a reload nothing of the old program, a late answer least of all,
\* reaches a coroutine of the new one, though its ids are given out again.  Only a
\* coroutine that ends inside a call of the host (see below) ends unheard.
KeepsPromises ==
  /\ Promise!Init
  /\ [][StrangerReturns \/ StrangerFails \/ Promise!HostedNext]_(Promise!vars)

-----------------------------------------------------------------------------
(* What the documentation says and the code does not do. *)

\* embed.rs, call: an uncaught raise of the callee surfaces with the persistent
\* frame left intact, and a later call still works.
CallsLeaveTheSessionIntact == [][host = "call" /\ host' = "none" => Whole']_allVars

=============================================================================
