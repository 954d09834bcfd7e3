------------------------------- MODULE Channel -------------------------------
(***************************************************************************)
(* Channels between actors (src/src/vm/channel.rs): a mutex-guarded queue  *)
(* with two condition variables, an atomic `closed` flag that is written   *)
(* without the mutex, and the process-wide parker of `select`.             *)
(*                                                                         *)
(* A thread is an actor's OS thread or a pool worker inside one of the     *)
(* calls.  A step is a critical section, or the part of one between two    *)
(* points where another thread could interfere: reading `closed`, going to *)
(* sleep, each notification.  Memory is sequentially consistent.           *)
(*                                                                         *)
(* Messages are counted and not told apart: the queue is a VecDeque pushed *)
(* at the back and popped at the front, always under the mutex.            *)
(***************************************************************************)
EXTENDS Integers, FiniteSets

CONSTANTS
  Chans,       \* the channels
  Bounded,     \* those created with a capacity
  Cap,         \* the capacity of every bounded channel
  MaxLen,      \* bound: messages buffered in an unbounded channel
  Senders, Receivers, Selectors, Closers,   \* the threads, by what they call
  NoOne        \* a mutex nobody holds

Threads == Senders \cup Receivers \cup Selectors \cup Closers

ASSUME ChannelAssumption ==
  /\ Chans # {}
  /\ Bounded \subseteq Chans
  /\ Cap \in Nat \ {0}
  /\ MaxLen \in Nat \ {0}
  /\ NoOne \notin Threads
  /\ IsFiniteSet(Threads)

VARIABLES
  len,          \* messages in the queue of each channel
  closed,       \* ChannelInner::closed
  holder,       \* who holds the queue's mutex
  park_holder,  \* who holds SelectPark::lock
  selectors,    \* SelectPark::selectors
  pc,           \* where each thread is
  chan,         \* the channel it works on
  left,         \* select: channels this scan has still to try
  all_closed,   \* select: every channel tried so far was closed and drained
  has_else,     \* select: the call has an else arm
  answer,       \* select: what the call came to
  told          \* some receive on the channel has returned Closed

chanVars   == <<len, closed, holder, told>>
parkVars   == <<park_holder, selectors>>
selectVars == <<left, all_closed, has_else, answer>>
vars == <<chanVars, parkVars, pc, chan, selectVars>>

Labels == {"idle", "s_lock", "s_push", "s_wait", "s_asleep", "s_notify",
           "r_lock", "r_wait", "r_asleep", "r_notify", "c_empty", "c_full",
           "w_load", "w_lock", "w_notify",
           "x_lock", "x_scan", "x_notify", "x_asleep", "x_unlock", "x_leave"}

TypeOK ==
  /\ len \in [Chans -> Nat]
  /\ closed \in [Chans -> BOOLEAN]
  /\ holder \in [Chans -> Threads \cup {NoOne}]
  /\ told \in [Chans -> BOOLEAN]
  /\ park_holder \in Threads \cup {NoOne}
  /\ selectors \in 0..Cardinality(Threads)
  /\ pc \in [Threads -> Labels]
  /\ chan \in [Threads -> Chans]
  /\ left \in [Selectors -> SUBSET Chans]
  /\ all_closed \in [Selectors -> BOOLEAN]
  /\ has_else \in [Selectors -> BOOLEAN]
  /\ answer \in [Selectors -> {"none", "fired", "else", "all_closed"}]

Init ==
  /\ len = [c \in Chans |-> 0]
  /\ closed = [c \in Chans |-> FALSE]
  /\ holder = [c \in Chans |-> NoOne]
  /\ told = [c \in Chans |-> FALSE]
  /\ park_holder = NoOne
  /\ selectors = 0
  /\ pc = [t \in Threads |-> "idle"]
  /\ chan \in [Threads -> {CHOOSE c \in Chans : TRUE}]
  /\ left = [t \in Selectors |-> {}]
  /\ all_closed = [t \in Selectors |-> TRUE]
  /\ has_else = [t \in Selectors |-> FALSE]
  /\ answer = [t \in Selectors |-> "none"]

-----------------------------------------------------------------------------
At(t, label) == pc[t] = label
Goto(t, label) == pc' = [pc EXCEPT ![t] = label]

Lock(t, c)   == holder[c] = NoOne /\ holder' = [holder EXCEPT ![c] = t]
Unlock(c)    == holder' = [holder EXCEPT ![c] = NoOne]

Full(c) == c \in Bounded /\ len[c] >= Cap
AtBound(c) == c \notin Bounded /\ ~closed[c] /\ len[c] >= MaxLen

\* Condvar::notify_one / notify_all on one channel: a sleeper goes back to
\* take the mutex; `next` is where the notifying thread goes on.
Asleep(label, c) == {t \in Threads : pc[t] = label /\ chan[t] = c}

NotifyOne(t, asleep, awake, next) ==
  IF Asleep(asleep, chan[t]) = {}
    THEN Goto(t, next)
    ELSE \E u \in Asleep(asleep, chan[t]) :
           pc' = [pc EXCEPT ![u] = awake, ![t] = next]

NotifyAll(t, asleep, awake, next) ==
  pc' = [u \in Threads |-> IF u \in Asleep(asleep, chan[t]) THEN awake
                           ELSE IF u = t THEN next ELSE pc[u]]

-----------------------------------------------------------------------------
(* send *)

SendCall(t, c) ==
  /\ At(t, "idle")
  /\ Goto(t, "s_lock")
  /\ chan' = [chan EXCEPT ![t] = c]
  /\ UNCHANGED <<chanVars, parkVars, selectVars>>

\* Wrong: `closed` is not looked at again under the mutex.
SendEnterUnchecked(t) ==
  LET c == chan[t] IN
  /\ At(t, "s_lock")
  /\ ~AtBound(c)
  /\ Lock(t, c)
  /\ Goto(t, IF Full(c) THEN "s_wait" ELSE "s_push")
  /\ UNCHANGED <<len, closed, told, parkVars, chan, selectVars>>

\* Take the mutex (also on waking from not_full) and look: a full open channel
\* makes the sender wait, a closed one makes it fail, else it will push.
SendEnter(t) ==
  LET c == chan[t] IN
  /\ At(t, "s_lock")
  /\ ~AtBound(c)
  /\ IF closed[c]
       THEN /\ holder[c] = NoOne
            /\ Goto(t, "idle")
            /\ UNCHANGED holder
       ELSE /\ Lock(t, c)
            /\ Goto(t, IF Full(c) THEN "s_wait" ELSE "s_push")
  /\ UNCHANGED <<len, closed, told, parkVars, chan, selectVars>>

\* not_full.wait: release the mutex and sleep, in one step.
SendSleep(t) ==
  /\ At(t, "s_wait")
  /\ Unlock(chan[t])
  /\ Goto(t, "s_asleep")
  /\ UNCHANGED <<len, closed, told, parkVars, chan, selectVars>>

\* Wrong: the mutex is not dropped before the parker is woken.
SendPushHolding(t) ==
  /\ At(t, "s_push")
  /\ len' = [len EXCEPT ![chan[t]] = @ + 1]
  /\ Goto(t, "s_notify")
  /\ UNCHANGED <<closed, holder, told, parkVars, chan, selectVars>>

SendPush(t) ==
  /\ At(t, "s_push")
  /\ len' = [len EXCEPT ![chan[t]] = @ + 1]
  /\ Unlock(chan[t])
  /\ Goto(t, "s_notify")
  /\ UNCHANGED <<closed, told, parkVars, chan, selectVars>>

SendNotify(t) ==
  /\ At(t, "s_notify")
  /\ NotifyOne(t, "r_asleep", "r_lock", "w_load")
  /\ UNCHANGED <<chanVars, parkVars, chan, selectVars>>

-----------------------------------------------------------------------------
(* recv and try_recv *)

RecvCall(t, c) ==
  /\ At(t, "idle")
  /\ Goto(t, "r_lock")
  /\ chan' = [chan EXCEPT ![t] = c]
  /\ UNCHANGED <<chanVars, parkVars, selectVars>>

\* Under the mutex: pop a message, or report Closed, or go to wait.
RecvEnter(t) ==
  LET c == chan[t] IN
  /\ At(t, "r_lock")
  /\ holder[c] = NoOne
  /\ \/ /\ len[c] > 0
        /\ len' = [len EXCEPT ![c] = @ - 1]
        /\ Goto(t, "r_notify")
        /\ UNCHANGED <<holder, told>>
     \/ /\ len[c] = 0 /\ closed[c]
        /\ told' = [told EXCEPT ![c] = TRUE]
        /\ Goto(t, "idle")
        /\ UNCHANGED <<len, holder>>
     \/ /\ len[c] = 0 /\ ~closed[c]
        /\ Lock(t, c)
        /\ Goto(t, "r_wait")
        /\ UNCHANGED <<len, told>>
  /\ UNCHANGED <<closed, parkVars, chan, selectVars>>

RecvSleep(t) ==
  /\ At(t, "r_wait")
  /\ Unlock(chan[t])
  /\ Goto(t, "r_asleep")
  /\ UNCHANGED <<len, closed, told, parkVars, chan, selectVars>>

RecvNotify(t) ==
  /\ At(t, "r_notify")
  /\ NotifyOne(t, "s_asleep", "s_lock", "idle")
  /\ UNCHANGED <<chanVars, parkVars, chan, selectVars>>

\* Wrong: the slot a try_recv frees is not announced.
TryRecvSilent(t, c) ==
  /\ At(t, "idle")
  /\ holder[c] = NoOne
  /\ len[c] > 0
  /\ len' = [len EXCEPT ![c] = @ - 1]
  /\ UNCHANGED <<closed, holder, told, parkVars, pc, chan, selectVars>>

TryRecv(t, c) ==
  /\ At(t, "idle")
  /\ holder[c] = NoOne
  /\ IF len[c] > 0
       THEN /\ len' = [len EXCEPT ![c] = @ - 1]
            /\ Goto(t, "r_notify")
            /\ UNCHANGED told
       ELSE /\ told' = [told EXCEPT ![c] = told[c] \/ closed[c]]
            /\ UNCHANGED <<len, pc>>
  /\ chan' = [chan EXCEPT ![t] = c]
  /\ UNCHANGED <<closed, holder, parkVars, selectVars>>

-----------------------------------------------------------------------------
(* close: the flag is stored without the queue's mutex *)

CloseCall(t, c) ==
  /\ At(t, "idle")
  /\ closed' = [closed EXCEPT ![c] = TRUE]
  /\ Goto(t, "c_empty")
  /\ chan' = [chan EXCEPT ![t] = c]
  /\ UNCHANGED <<len, holder, told, parkVars, selectVars>>

CloseNotifyEmpty(t) ==
  /\ At(t, "c_empty")
  /\ NotifyAll(t, "r_asleep", "r_lock", "c_full")
  /\ UNCHANGED <<chanVars, parkVars, chan, selectVars>>

\* Wrong: close does not wake the selectors.
CloseSkipsSelectors(t) ==
  /\ At(t, "c_full")
  /\ NotifyAll(t, "s_asleep", "s_lock", "idle")
  /\ UNCHANGED <<chanVars, parkVars, chan, selectVars>>

CloseNotifyFull(t) ==
  /\ At(t, "c_full")
  /\ NotifyAll(t, "s_asleep", "s_lock", "w_load")
  /\ UNCHANGED <<chanVars, parkVars, chan, selectVars>>

-----------------------------------------------------------------------------
(* wake_selectors, the tail of send and close *)

WakeLoad(t) ==
  /\ At(t, "w_load")
  /\ Goto(t, IF selectors = 0 THEN "idle" ELSE "w_lock")
  /\ UNCHANGED <<chanVars, parkVars, chan, selectVars>>

WakeLock(t) ==
  /\ At(t, "w_lock")
  /\ park_holder = NoOne
  /\ park_holder' = t
  /\ Goto(t, "w_notify")
  /\ UNCHANGED <<chanVars, selectors, chan, selectVars>>

WakeNotify(t) ==
  /\ At(t, "w_notify")
  /\ pc' = [u \in Threads |-> IF pc[u] = "x_asleep" THEN "x_lock"
                              ELSE IF u = t THEN "idle" ELSE pc[u]]
  /\ park_holder' = NoOne
  /\ UNCHANGED <<chanVars, selectors, chan, selectVars>>

-----------------------------------------------------------------------------
(* select over all the channels; the order of its argument is left open *)

SelectCall(t, else) ==
  /\ At(t, "idle")
  /\ selectors' = selectors + 1
  /\ has_else' = [has_else EXCEPT ![t] = else]
  /\ Goto(t, "x_lock")
  /\ UNCHANGED <<chanVars, park_holder, chan, left, all_closed, answer>>

\* Take the parker's lock, at the start or on waking, and begin a scan.
SelectLock(t) ==
  /\ At(t, "x_lock")
  /\ park_holder = NoOne
  /\ park_holder' = t
  /\ left' = [left EXCEPT ![t] = Chans]
  /\ all_closed' = [all_closed EXCEPT ![t] = TRUE]
  /\ Goto(t, "x_scan")
  /\ UNCHANGED <<chanVars, selectors, chan, has_else, answer>>

\* Wrong: only the channel tried last counts.
LastIsClosed(t, c) == closed[c]

SoFarClosed(t, c) == all_closed[t] /\ closed[c]

\* try_recv on one channel of the scan.
SelectTry(t, c) ==
  /\ At(t, "x_scan")
  /\ c \in left[t]
  /\ holder[c] = NoOne
  /\ IF len[c] > 0
       THEN /\ len' = [len EXCEPT ![c] = @ - 1]
            /\ chan' = [chan EXCEPT ![t] = c]
            /\ answer' = [answer EXCEPT ![t] = "fired"]
            /\ Goto(t, "x_notify")
            /\ UNCHANGED <<told, left, all_closed>>
       ELSE /\ told' = [told EXCEPT ![c] = told[c] \/ closed[c]]
            /\ all_closed' = [all_closed EXCEPT ![t] = SoFarClosed(t, c)]
            /\ left' = [left EXCEPT ![t] = @ \ {c}]
            /\ UNCHANGED <<len, chan, answer, pc>>
  /\ UNCHANGED <<closed, holder, parkVars, has_else>>

SelectNotify(t) ==
  /\ At(t, "x_notify")
  /\ NotifyOne(t, "s_asleep", "s_lock", "x_unlock")
  /\ UNCHANGED <<chanVars, parkVars, chan, selectVars>>

\* Nothing was ready: all closed, or the else arm, or sleep and release the
\* parker's lock in one step.
SelectNoHit(t) ==
  /\ At(t, "x_scan")
  /\ left[t] = {}
  /\ IF all_closed[t] \/ has_else[t]
       THEN /\ answer' = [answer EXCEPT ![t] =
                            IF all_closed[t] THEN "all_closed" ELSE "else"]
            /\ Goto(t, "x_unlock")
            /\ UNCHANGED park_holder
       ELSE /\ park_holder' = NoOne
            /\ Goto(t, "x_asleep")
            /\ UNCHANGED answer
  /\ UNCHANGED <<chanVars, selectors, chan, left, all_closed, has_else>>

SelectUnlock(t) ==
  /\ At(t, "x_unlock")
  /\ park_holder' = NoOne
  /\ Goto(t, "x_leave")
  /\ UNCHANGED <<chanVars, selectors, chan, selectVars>>

\* The call returns, and its locals are gone.
SelectLeave(t) ==
  /\ At(t, "x_leave")
  /\ selectors' = selectors - 1
  /\ Goto(t, "idle")
  /\ left' = [left EXCEPT ![t] = {}]
  /\ all_closed' = [all_closed EXCEPT ![t] = TRUE]
  /\ has_else' = [has_else EXCEPT ![t] = FALSE]
  /\ answer' = [answer EXCEPT ![t] = "none"]
  /\ UNCHANGED <<chanVars, park_holder, chan>>

-----------------------------------------------------------------------------
\* Condition variables may wake a thread without a notification.
Awake == [s_asleep |-> "s_lock", r_asleep |-> "r_lock", x_asleep |-> "x_lock"]

SpuriousWake(t) ==
  /\ pc[t] \in DOMAIN Awake
  /\ Goto(t, Awake[pc[t]])
  /\ UNCHANGED <<chanVars, parkVars, chan, selectVars>>

Call ==
  \/ \E t \in Senders, c \in Chans : SendCall(t, c)
  \/ \E t \in Receivers, c \in Chans : RecvCall(t, c) \/ TryRecv(t, c)
  \/ \E t \in Closers, c \in Chans : CloseCall(t, c)
  \/ \E t \in Selectors, else \in BOOLEAN : SelectCall(t, else)

\* A thread inside a call goes on with it.
Step(t) ==
  \/ SendEnter(t) \/ SendSleep(t) \/ SendPush(t) \/ SendNotify(t)
  \/ RecvEnter(t) \/ RecvSleep(t) \/ RecvNotify(t)
  \/ CloseNotifyEmpty(t) \/ CloseNotifyFull(t)
  \/ WakeLoad(t) \/ WakeLock(t) \/ WakeNotify(t)
  \/ SelectLock(t) \/ SelectNotify(t) \/ SelectNoHit(t)
  \/ SelectUnlock(t) \/ SelectLeave(t)
  \/ \E c \in Chans : SelectTry(t, c)

Next ==
  \/ Call
  \/ \E t \in Threads : SpuriousWake(t) \/ Step(t)

Spec == Init /\ [][Next]_vars

\* Every thread that can go on inside a call does, and a selector that tries a
\* channel gets its mutex in the end, though others (a receiver that wakes
\* spuriously, say) may take it again and again.
FairSpec ==
  /\ Spec
  /\ \A t \in Threads : WF_vars(Step(t))
  /\ \A t \in Selectors : SF_vars(\E c \in Chans : SelectTry(t, c))

-----------------------------------------------------------------------------
(* Safety. *)

On(label, c) == Cardinality(Asleep(label, c))

\* `closed` is final: once any receive has reported a channel closed and
\* drained, no message appears on it again, although close does not take the
\* mutex and a send may already have found the channel open.
ClosedIsFinal ==
  \A c \in Chans : told[c] => closed[c] /\ len[c] = 0

\* No wake-up is lost by notify_one: while a receiver sleeps, every buffered
\* message has a sender about to notify or a receiver already woken for it.
EveryMessageWakesAReceiver ==
  \A c \in Chans :
    Asleep("r_asleep", c) # {} => len[c] <= On("s_notify", c) + On("r_lock", c)

\* The same for backpressure: while a sender sleeps on an open channel, every
\* free slot has been taken from someone about to notify or has a woken sender.
EverySlotWakesASender ==
  \A c \in Bounded :
    Asleep("s_asleep", c) # {} /\ ~closed[c] =>
      Cap - len[c] <= On("r_notify", c) + On("x_notify", c)
                        + On("s_lock", c) + On("s_push", c)

\* send, recv and select each notify one thread, after they have dropped the
\* mutex: whoever takes the message or the slot meanwhile, no notification is
\* spent on a thread that does not need it while one that does sleeps on.
NoWakeUpIsLost == EveryMessageWakesAReceiver /\ EverySlotWakesASender

\* A select never sleeps on what it could return: while one is parked with a
\* message buffered, or with every channel closed, some sender or closer is on
\* its way to wake it, though it skips the parker when no selector is counted.
SelectorsAreNotForgotten ==
  (\E t \in Selectors : pc[t] = "x_asleep")
    /\ ((\E c \in Chans : len[c] > 0) \/ (\A c \in Chans : closed[c]))
  => \E u \in Threads :
       pc[u] \in {"s_notify", "c_empty", "c_full", "w_load", "w_lock", "w_notify"}

\* A select that finds every channel closed is right, and nothing it could have
\* received appears before it returns: it has seen each of them closed and drained,
\* one after another, while senders and closers went on with the others.
SelectFindsTheEnd ==
  \A t \in Selectors : answer[t] = "all_closed" =>
    \A c \in Chans : told[c] /\ closed[c] /\ len[c] = 0

\* A sender held back only by MaxLen does not count.
InsideACall(t) == /\ pc[t] \notin {"idle", "s_asleep", "r_asleep", "x_asleep"}
                  /\ At(t, "s_lock") => ~AtBound(chan[t])

\* The lock a thread's next step takes is free: its channel's mutex, the parker's
\* lock or, in a scan, the mutex of a channel still to try.  For a thread inside a
\* call this is ENABLED Step(t), written without ENABLED so as to be proved about.
CanGo(t) ==
  /\ pc[t] \in {"s_lock", "r_lock"} => holder[chan[t]] = NoOne
  /\ pc[t] \in {"w_lock", "x_lock"} => park_holder = NoOne
  /\ At(t, "x_scan") => left[t] = {} \/ \E c \in left[t] : holder[c] = NoOne

\* No lock cycle: a select keeps the parker's lock while it takes one channel
\* mutex after another, senders and closers take the parker's lock in turn, yet
\* while a thread is inside a call and not asleep some such thread can go on.
CallsNeverDeadlock ==
  (\E t \in Threads : InsideACall(t)) => \E t \in Threads : InsideACall(t) /\ CanGo(t)

-----------------------------------------------------------------------------
(* What the documentation says and the code does not do. *)

\* docs/stdlib/channel.md: close wakes every blocked sender and receiver.
CloseWakesEveryone ==
  \A t \in Threads :
    (pc[t] \in {"r_asleep", "s_asleep"} /\ closed[chan[t]])
      ~> pc[t] \notin {"r_asleep", "s_asleep"}

=============================================================================
