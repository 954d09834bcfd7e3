------------------------------- MODULE Awaiting -------------------------------
(***************************************************************************)
(* What the coroutines of one actor may rely on, whoever schedules them.   *)
(* A coroutine runs until it gives the thread away.  One that waits waits  *)
(* for one thing - another coroutine, a deferred, a blocking call or a     *)
(* time - and its wait ends in one of three ways: the thing has happened   *)
(* and every coroutine that waits for it is told how, all at once; the     *)
(* time has come; or it is torn out of the wait by a request to cancel it, *)
(* which it then hears of, once, instead.                                  *)
(*                                                                         *)
(* Nothing is said of collections, of the order of the ready ones, of the  *)
(* dispatch loop, of mailboxes or of when anybody looks at a clock.        *)
(*                                                                         *)
(* Next is an actor by itself, HostedNext one that a host drives.          *)
(***************************************************************************)
EXTENDS Integers

CONSTANTS
  Coroutine, Green, Main,        \* all of them; those that `go` creates; the first
  Deferreds, Jobs, Time,
  OnGreen(_), OnDeferred(_), OnJob(_), OnTime(_),   \* what can be waited for
  None, Null,                    \* nothing; what a wait without a result gives
  Done, Torn, Cancelled,         \* how a coroutine ends: returned, or cancelled;
                                 \* and the error that cancels it
  Errors,                        \* the errors a program raises itself
  Settlements, JobOutcomes       \* how a deferred is settled, a call returns

VARIABLES
  started,     \* the coroutines there are, or were
  running,     \* the one that runs, or none
  ready,       \* those that could run
  waits,       \* the waits in force, [thread, on]
  told,        \* what a ready coroutine will be given (None: it is yet to begin)
  raising,     \* the error that unwinds the running coroutine, or None
  requested,   \* whom a request to cancel has not reached yet
  ended,       \* how a coroutine ended, or None
  settled,     \* how a deferred was settled, or None
  calls,       \* the blocking calls that have not returned
  answer,      \* what one that returned brought, until somebody looks
  now

vars == <<started, running, ready, waits, told, raising, requested, ended, settled,
          calls, answer, now>>

Threads(W) == {w.thread : w \in W}

Init ==
  /\ started = {Main} /\ running = {Main} /\ ready = {} /\ waits = {}
  /\ told = [c \in Coroutine |-> None] /\ raising = None
  /\ requested = [g \in Green |-> FALSE]
  /\ ended = [g \in Green |-> None]
  /\ settled = [d \in Deferreds |-> None]
  /\ calls = {} /\ answer = [j \in Jobs |-> None]
  /\ now = 0

\* The running coroutine, which no error unwinds.
Runs(c) == running = {c} /\ raising = None

\* The waits W are over, and nobody but those who waited is told anything.
Wake(W) ==
  /\ waits' = waits \ W
  /\ ready' = ready \cup Threads(W)
  /\ DOMAIN told' = Coroutine
  /\ \A c \in Coroutine \ Threads(W) : told'[c] = told[c]

Tell(W, o) == Wake(W) /\ \A w \in W : told'[w.thread] = o

WaitsOn(x) == {w \in waits : w.on = x}

-----------------------------------------------------------------------------
(* What the running coroutine does. *)

Go(g) ==
  /\ \E c \in Coroutine : Runs(c)
  /\ g \notin started
  /\ started' = started \cup {g}
  /\ ready' = ready \cup {g}
  /\ UNCHANGED <<running, waits, told, raising, requested, ended, settled, calls, answer, now>>

Yield(c) ==
  /\ Runs(c)
  /\ running' = {}
  /\ ready' = ready \cup {c}
  /\ told' = [told EXCEPT ![c] = Null]
  /\ UNCHANGED <<started, waits, raising, requested, ended, settled, calls, answer, now>>

\* One begins to wait only for what has not happened, and not with a request
\* to cancel it unheard.
BeginWait(c, x) ==
  /\ Runs(c)
  /\ c \in Green => ~requested[c]
  /\ running' = {}
  /\ waits' = waits \cup {[thread |-> c, on |-> x]}
  /\ UNCHANGED <<started, ready, told, raising, requested, ended, settled, answer, now>>

Join(c, g)  == g \in started /\ ended[g] = None /\ BeginWait(c, OnGreen(g)) /\ UNCHANGED calls
Await(c, d) == settled[d] = None /\ BeginWait(c, OnDeferred(d)) /\ UNCHANGED calls
Sleep(c, t) == t >= now /\ BeginWait(c, OnTime(t)) /\ UNCHANGED calls

Call(c, j) ==
  /\ j \notin calls /\ answer[j] = None /\ WaitsOn(OnJob(j)) = {}
  /\ calls' = calls \cup {j}
  /\ BeginWait(c, OnJob(j))

\* A request reaches the running coroutine where it was about to wait.
HearCancel(g) ==
  /\ Runs(g) /\ requested[g]
  /\ requested' = [requested EXCEPT ![g] = FALSE]
  /\ raising' = Cancelled
  /\ UNCHANGED <<started, running, ready, waits, told, ended, settled, calls, answer, now>>

Fail ==
  /\ \E c \in Coroutine : Runs(c)
  /\ raising' \in Errors
  /\ UNCHANGED <<started, running, ready, waits, told, requested, ended, settled, calls, answer, now>>

Catch ==
  /\ raising # None
  /\ raising' = None
  /\ UNCHANGED <<started, running, ready, waits, told, requested, ended, settled, calls, answer, now>>

\* A coroutine that has not ended is asked to stop, and waits no longer.
Cancel(g) ==
  /\ \E c \in Coroutine : Runs(c)
  /\ g \in started /\ ended[g] = None
  /\ requested' = [requested EXCEPT ![g] = TRUE]
  /\ Tell({w \in waits : w.thread = g}, Null)
  /\ UNCHANGED <<started, running, raising, ended, settled, calls, answer, now>>

\* A deferred is settled once, and all who await it are told how.
SettleOnce(d) ==
  /\ settled[d] = None
  /\ \E o \in Settlements :
       settled' = [settled EXCEPT ![d] = o] /\ Tell(WaitsOn(OnDeferred(d)), o)
  /\ UNCHANGED <<started, running, raising, requested, ended, calls, answer, now>>

Settle(d) == (\E c \in Coroutine : Runs(c)) /\ SettleOnce(d)

\* A coroutine returns, or an error nobody caught ends it.
Ending == CASE raising = None      -> Done
            [] raising = Cancelled -> Torn
            [] OTHER               -> raising

End(g) ==
  /\ running = {g} /\ ended[g] = None
  /\ running' = {} /\ raising' = None
  /\ ended' = [ended EXCEPT ![g] = Ending]
  /\ Tell(WaitsOn(OnGreen(g)), Ending)
  /\ UNCHANGED <<started, requested, settled, calls, answer, now>>

\* Main's end is the program's.
EndMain ==
  /\ running = {Main}
  /\ running' = {} /\ raising' = None
  /\ UNCHANGED <<started, ready, waits, told, requested, ended, settled, calls, answer, now>>

-----------------------------------------------------------------------------
(* What happens to them. *)

\* A ready coroutine gets the thread and hears of the request to cancel it, if
\* there is one and it has run before; else what it was told.
Resume(c) ==
  /\ running = {} /\ c \in ready
  /\ running' = {c} /\ ready' = ready \ {c}
  /\ told' = [told EXCEPT ![c] = None]
  /\ IF c \in Green /\ requested[c] /\ told[c] # None
       THEN requested' = [requested EXCEPT ![c] = FALSE] /\ raising' = Cancelled
       ELSE /\ UNCHANGED requested
            /\ raising' = IF told[c] \in Errors THEN told[c] ELSE None
  /\ UNCHANGED <<started, waits, ended, settled, calls, answer, now>>

Return(j) ==
  /\ j \in calls
  /\ calls' = calls \ {j}
  /\ \E o \in JobOutcomes : answer' = [answer EXCEPT ![j] = o]
  /\ UNCHANGED <<started, running, ready, waits, told, raising, requested, ended, settled, now>>

\* Every coroutine whose call has returned is told what it brought.  What
\* nobody waits for any more is dropped, and nothing else is.
Collect ==
  LET W == {w \in waits : \E j \in Jobs : w.on = OnJob(j) /\ answer[j] # None}
  IN  /\ Wake(W)
      /\ \A w \in W, j \in Jobs : w.on = OnJob(j) => told'[w.thread] = answer[j]
      /\ answer' = [j \in Jobs |-> None]
      /\ UNCHANGED <<started, running, raising, requested, ended, settled, calls, now>>

\* No sleep ends before its time.
Expire ==
  /\ Tell({w \in waits : \E t \in Time : w.on = OnTime(t) /\ t <= now}, Null)
  /\ UNCHANGED <<started, running, raising, requested, ended, settled, calls, answer, now>>

Tick ==
  /\ now' \in Time /\ now' > now
  /\ UNCHANGED <<started, running, ready, waits, told, raising, requested, ended, settled, calls, answer>>

-----------------------------------------------------------------------------
Next ==
  \/ \E g \in Green : Go(g) \/ HearCancel(g) \/ Cancel(g) \/ End(g)
  \/ \E c \in Coroutine :
       \/ Yield(c) \/ Resume(c)
       \/ \E g \in Green : Join(c, g)
       \/ \E d \in Deferreds : Await(c, d)
       \/ \E j \in Jobs : Call(c, j)
       \/ \E t \in Time : Sleep(c, t)
  \/ \E d \in Deferreds : Settle(d)
  \/ \E j \in Jobs : Return(j)
  \/ Fail \/ Catch \/ EndMain
  \/ Collect \/ Expire \/ Tick

Spec == Init /\ [][Next]_vars

-----------------------------------------------------------------------------
(* A host.  It has the thread when nobody runs and main is neither ready nor *)
(* waiting; then it may give main the thread, settle deferreds, let a frame  *)
(* begin, and start the program afresh.                                      *)

Hosting == running = {} /\ Main \notin ready \cup Threads(waits)

Enter ==
  /\ Hosting
  /\ running' = {Main}
  /\ UNCHANGED <<started, ready, waits, told, raising, requested, ended, settled, calls, answer, now>>

HostSettle(d) == Hosting /\ SettleOnce(d)

\* The host's clock moves in its frames, and what is due by then is due.
Frame ==
  /\ Hosting
  /\ now' \in Time /\ now' >= now
  /\ Tell({w \in waits : \E t \in Time : w.on = OnTime(t) /\ t <= now'}, Null)
  /\ UNCHANGED <<started, running, raising, requested, ended, settled, calls, answer>>

\* To wait for the next frame is to wait for a time that has come already.
AwaitFrame(c) == BeginWait(c, OnTime(0)) /\ UNCHANGED calls

\* The program starts afresh, and so do its coroutines.  The calls of the old
\* one still return, to nobody.
Restart ==
  /\ Hosting
  /\ started' = {Main} /\ running' = {Main} /\ ready' = {} /\ waits' = {}
  /\ told' = [c \in Coroutine |-> None] /\ raising' = None
  /\ requested' = [g \in Green |-> FALSE]
  /\ ended' = [g \in Green |-> None]
  /\ UNCHANGED <<settled, calls, answer, now>>

HostedNext ==
  \/ Next
  \/ Enter \/ Frame \/ Restart
  \/ \E d \in Deferreds : HostSettle(d)
  \/ \E c \in Coroutine : AwaitFrame(c)

===============================================================================
