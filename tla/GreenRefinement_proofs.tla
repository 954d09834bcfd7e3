------------------------- MODULE GreenRefinement_proofs -------------------------
(***************************************************************************)
(* Machine-checked proof that GreenThreads keeps what Awaiting promises,   *)
(* for any number of coroutines, jobs, deferreds and clock ticks:          *)
(*   AwaitingIsImplemented  Spec => ImplementsAwaiting                     *)
(* Every step of the scheduler is a step of Awaiting or changes nothing    *)
(* that Awaiting sees.  The mapping reads the waits off the four parking   *)
(* collections.  That it maps steps to steps rests on ViewInv, which the   *)
(* invariants of GreenOutcomes_proofs give, and in Session_proofs those of *)
(* a session.                                                              *)
(***************************************************************************)
EXTENDS GreenOutcomes_proofs

-----------------------------------------------------------------------------
(* The waits. *)

\* Things of different kinds, and different things of one kind, are told apart.
LEMMA ThingsDiffer ==
  /\ \A g, h : OnGreen(g) = OnGreen(h) => g = h
  /\ \A d, e : OnDeferred(d) = OnDeferred(e) => d = e
  /\ \A j, k : OnJob(j) = OnJob(k) => j = k
  /\ \A t, u : OnTime(t) = OnTime(u) => t = u
  /\ \A g, d : OnGreen(g) # OnDeferred(d)
  /\ \A g, j : OnGreen(g) # OnJob(j)
  /\ \A g, t : OnGreen(g) # OnTime(t)
  /\ \A d, j : OnDeferred(d) # OnJob(j)
  /\ \A d, t : OnDeferred(d) # OnTime(t)
  /\ \A j, t : OnJob(j) # OnTime(t)
BY DEF OnGreen, OnDeferred, OnJob, OnTime

JoinWaits  == {[thread |-> p.thread, on |-> OnGreen(p.awaiting)] : p \in blocked}
IoWaits    == {[thread |-> p.thread, on |-> OnJob(p.job_id)] : p \in io_blocked}
TimerWaits == {[thread |-> p.thread, on |-> OnTime(p.wake_time)] : p \in timer_blocked}
DeferWaits == {[thread |-> p.thread, on |-> OnDeferred(p.deferred)] : p \in deferred_blocked}

\* The waits are those of the four collections, and only a step that edits one
\* of them changes them.
LEMMA WaitsAre ==
  /\ Waits = JoinWaits \cup IoWaits \cup TimerWaits \cup DeferWaits
  /\ Waits' = JoinWaits' \cup IoWaits' \cup TimerWaits' \cup DeferWaits'
BY DEF Waits, JoinWaits, IoWaits, TimerWaits, DeferWaits

LEMMA WaitsKept ==
  /\ blocked' = blocked => JoinWaits' = JoinWaits
  /\ io_blocked' = io_blocked => IoWaits' = IoWaits
  /\ timer_blocked' = timer_blocked => TimerWaits' = TimerWaits
  /\ deferred_blocked' = deferred_blocked => DeferWaits' = DeferWaits
BY DEF JoinWaits, IoWaits, TimerWaits, DeferWaits

\* The coroutines of a set of waits.
LEMMA ThreadsOfWaits ==
  /\ Promise!Threads(JoinWaits) = InJoin /\ Promise!Threads(IoWaits) = InIo
  /\ Promise!Threads(TimerWaits) = InTimer /\ Promise!Threads(DeferWaits) = InDefer
<1>1. Promise!Threads(JoinWaits) = InJoin
  <2>1. \A p \in blocked : /\ [thread |-> p.thread, on |-> OnGreen(p.awaiting)] \in JoinWaits
                        /\ [thread |-> p.thread, on |-> OnGreen(p.awaiting)].thread = p.thread
    BY DEF JoinWaits
  <2>2. \A w \in JoinWaits : \E p \in blocked : w.thread = p.thread
    BY DEF JoinWaits
  <2>3. ASSUME NEW x PROVE x \in Promise!Threads(JoinWaits) <=> x \in InJoin
    <3>1. x \in Promise!Threads(JoinWaits) <=> \E w \in JoinWaits : w.thread = x
      BY DEF Promise!Threads
    <3>2. x \in InJoin <=> \E p \in blocked : p.thread = x
      BY DEF Threads, InJoin
    <3> QED
      BY <2>1, <2>2, <3>1, <3>2
  <2> QED
    BY <2>3
<1>2. Promise!Threads(IoWaits) = InIo
  <2>1. \A p \in io_blocked : /\ [thread |-> p.thread, on |-> OnJob(p.job_id)] \in IoWaits
                        /\ [thread |-> p.thread, on |-> OnJob(p.job_id)].thread = p.thread
    BY DEF IoWaits
  <2>2. \A w \in IoWaits : \E p \in io_blocked : w.thread = p.thread
    BY DEF IoWaits
  <2>3. ASSUME NEW x PROVE x \in Promise!Threads(IoWaits) <=> x \in InIo
    <3>1. x \in Promise!Threads(IoWaits) <=> \E w \in IoWaits : w.thread = x
      BY DEF Promise!Threads
    <3>2. x \in InIo <=> \E p \in io_blocked : p.thread = x
      BY DEF Threads, InIo
    <3> QED
      BY <2>1, <2>2, <3>1, <3>2
  <2> QED
    BY <2>3
<1>3. Promise!Threads(TimerWaits) = InTimer
  <2>1. \A p \in timer_blocked : /\ [thread |-> p.thread, on |-> OnTime(p.wake_time)] \in TimerWaits
                        /\ [thread |-> p.thread, on |-> OnTime(p.wake_time)].thread = p.thread
    BY DEF TimerWaits
  <2>2. \A w \in TimerWaits : \E p \in timer_blocked : w.thread = p.thread
    BY DEF TimerWaits
  <2>3. ASSUME NEW x PROVE x \in Promise!Threads(TimerWaits) <=> x \in InTimer
    <3>1. x \in Promise!Threads(TimerWaits) <=> \E w \in TimerWaits : w.thread = x
      BY DEF Promise!Threads
    <3>2. x \in InTimer <=> \E p \in timer_blocked : p.thread = x
      BY DEF Threads, InTimer
    <3> QED
      BY <2>1, <2>2, <3>1, <3>2
  <2> QED
    BY <2>3
<1>4. Promise!Threads(DeferWaits) = InDefer
  <2>1. \A p \in deferred_blocked : /\ [thread |-> p.thread, on |-> OnDeferred(p.deferred)] \in DeferWaits
                        /\ [thread |-> p.thread, on |-> OnDeferred(p.deferred)].thread = p.thread
    BY DEF DeferWaits
  <2>2. \A w \in DeferWaits : \E p \in deferred_blocked : w.thread = p.thread
    BY DEF DeferWaits
  <2>3. ASSUME NEW x PROVE x \in Promise!Threads(DeferWaits) <=> x \in InDefer
    <3>1. x \in Promise!Threads(DeferWaits) <=> \E w \in DeferWaits : w.thread = x
      BY DEF Promise!Threads
    <3>2. x \in InDefer <=> \E p \in deferred_blocked : p.thread = x
      BY DEF Threads, InDefer
    <3> QED
      BY <2>1, <2>2, <3>1, <3>2
  <2> QED
    BY <2>3
<1> QED
  BY <1>1, <1>2, <1>3, <1>4

\* The woken coroutines join the run-queue, whatever their order.
LEMMA ReadyMoves ==
  ASSUME SchedTypeOK, Unique, NEW S, S \subseteq Coroutine, Queued \cap S = {},
         \E w \in Orders(S) : queue' = queue \o w
  PROVE  Queued' = Queued \cup S
<1> DEFINE X == {[thread |-> c] : c \in S}
<1>1. Threads(X) = S /\ X \ {} = X
  <2>1. \A c \in S : [thread |-> c] \in X /\ [thread |-> c].thread = c
    OBVIOUS
  <2>2. \A x \in X : x.thread \in S
    OBVIOUS
  <2> QED
    BY <2>1, <2>2 DEF Threads
<1>2. UniqueIn(X) /\ NoRepeat /\ {} \subseteq X
  BY DEF UniqueIn, Unique
<1> HIDE DEF X
<1>3. /\ NoRepeat /\ Threads(X) \subseteq Coroutine /\ Queued \cap Threads(X) = {}
      /\ \E w \in Orders(Threads(X \ {})) : queue' = queue \o w
  BY <1>1, <1>2
<1>4. Queued' = Queued \cup Threads(X \ {})
  BY <1>2, <1>3, WakeMoves
<1> QED
  BY <1>1, <1>4

\* Those who wait are coroutines, and none of them is ready.
LEMMA WaitersAside ==
  ASSUME SchedTypeOK, Apart, NEW W, W \subseteq Waits
  PROVE  Promise!Threads(W) \subseteq Coroutine /\ Queued \cap Promise!Threads(W) = {}
<1>1. Promise!Threads(W) \subseteq InJoin \cup InIo \cup InTimer \cup InDefer
  <2>1. Promise!Threads(W) \subseteq Promise!Threads(Waits)
    BY DEF Promise!Threads
  <2>2. Promise!Threads(Waits) = Promise!Threads(JoinWaits) \cup Promise!Threads(IoWaits)
          \cup Promise!Threads(TimerWaits) \cup Promise!Threads(DeferWaits)
    BY WaitsAre DEF Promise!Threads
  <2> QED
    BY <2>1, <2>2, ThreadsOfWaits
<1> QED
  BY <1>1, ParkedAreCoroutines DEF Apart, InJoin, InIo, InTimer, InDefer

\* So a set of waits that ends because of what they are for is a wake of Awaiting.
LEMMA WakeKept ==
  ASSUME SchedTypeOK, Unique, Apart, NEW W, W \subseteq Waits, Waits' = Waits \ W,
         \E w \in Orders(Promise!Threads(W)) : queue' = queue \o w,
         DOMAIN parked_resume' = Coroutine,
         \A c \in Coroutine \ Promise!Threads(W) : parked_resume'[c] = parked_resume[c]
  PROVE  Promise!Wake(W)
<1> DEFINE S == Promise!Threads(W)
<1>1. S \subseteq Coroutine /\ Queued \cap S = {}
  BY WaitersAside
<1>2. Queued' = Queued \cup S
  BY <1>1, ReadyMoves
<1> QED
  BY <1>2 DEF Promise!Wake

\* And one in which all are told the same.
LEMMA TellKept ==
  ASSUME SchedTypeOK, Unique, Apart, NEW W, W \subseteq Waits, Waits' = Waits \ W, NEW o,
         \E w \in Orders(Promise!Threads(W)) : queue' = queue \o w,
         parked_resume' = [c \in Coroutine |-> IF c \in Promise!Threads(W) THEN o
                                               ELSE parked_resume[c]]
  PROVE  Promise!Tell(W, o)
<1>1. Promise!Threads(W) \subseteq Coroutine
  BY WaitersAside
<1>2. Promise!Wake(W)
  BY WakeKept
<1>3. \A w \in W : w.thread \in Promise!Threads(W)
  BY DEF Promise!Threads
<1> QED
  BY <1>1, <1>2, <1>3 DEF Promise!Tell

-----------------------------------------------------------------------------
(* The operations of the scheduler, as Awaiting sees them. *)

\* A coroutine has ended: everybody who joins it, and nobody else, is told how.
LEMMA JoinersAreTold ==
  ASSUME SchedTypeOK, Unique, Apart, NEW g, NEW o, WakeJoiners(g, o),
         UNCHANGED <<io_blocked, timer_blocked, deferred_blocked>>
  PROVE  Promise!Tell(Promise!WaitsOn(OnGreen(g)), o)
<1> DEFINE Entry(p) == [thread |-> p.thread, on |-> OnGreen(p.awaiting)]
           W == Promise!WaitsOn(OnGreen(g))
<1>0. /\ \A p \in blocked : Entry(p) \in W <=> p.awaiting = g
      /\ \A w \in W : w \in JoinWaits
  <2>1. \A p \in blocked : Entry(p) \in Waits
    BY WaitsAre DEF JoinWaits
  <2>2. \A w \in IoWaits \cup TimerWaits \cup DeferWaits : w.on # OnGreen(g)
    BY ThingsDiffer DEF IoWaits, TimerWaits, DeferWaits
  <2> QED
    BY <2>1, <2>2, WaitsAre, ThingsDiffer DEF Promise!WaitsOn
<1>1. \A w : w \in JoinWaits <=> \E p \in blocked : w = Entry(p)
  BY DEF JoinWaits
<1>2. \A w : w \in JoinWaits' <=> \E p \in blocked : p.awaiting # g /\ w = Entry(p)
  BY DEF JoinWaits, WakeJoiners
<1>3. (\A p : Entry(p).thread = p.thread) /\ W \subseteq Waits
  BY DEF Promise!WaitsOn
<1> HIDE DEF Entry, W
<1>4. Waits' = Waits \ W
  <2>1. JoinWaits' = JoinWaits \ W /\ W \subseteq JoinWaits
    BY <1>0, <1>1, <1>2
  <2>2. (IoWaits \cup TimerWaits \cup DeferWaits) \cap JoinWaits = {}
    BY ThingsDiffer DEF JoinWaits, IoWaits, TimerWaits, DeferWaits
  <2> QED
    BY <2>1, <2>2, WaitsAre, WaitsKept
<1>5. Promise!Threads(W) = Joiners(g)
  <2>1. ASSUME NEW c PROVE c \in Promise!Threads(W) <=> c \in Joiners(g)
    <3>1. c \in Promise!Threads(W) <=> \E w \in W : w.thread = c
      BY DEF Promise!Threads
    <3>2. c \in Joiners(g) <=> \E p \in blocked : p.awaiting = g /\ p.thread = c
      BY DEF Joiners, Threads
    <3> QED
      BY <1>0, <1>1, <1>3, <3>1, <3>2
  <2> QED
    BY <2>1
<1>6. /\ \E w \in Orders(Promise!Threads(W)) : queue' = queue \o w
      /\ parked_resume' = [c \in Coroutine |-> IF c \in Promise!Threads(W) THEN o
                                               ELSE parked_resume[c]]
  BY <1>5 DEF WakeJoiners, MakeReady
<1>7. Promise!Tell(W, o)
  BY <1>3, <1>4, <1>6, TellKept
<1> QED
  BY <1>7 DEF W

\* A deferred is settled: everybody who awaits it, and nobody else, is told how.
LEMMA AwaitersAreTold ==
  ASSUME SchedTypeOK, Unique, Apart, NEW d, NEW o, WakeDeferred(d, o),
         UNCHANGED <<blocked, io_blocked, timer_blocked>>
  PROVE  Promise!Tell(Promise!WaitsOn(OnDeferred(d)), o)
<1> DEFINE Entry(p) == [thread |-> p.thread, on |-> OnDeferred(p.deferred)]
           W == Promise!WaitsOn(OnDeferred(d))
<1>0. /\ \A p \in deferred_blocked : Entry(p) \in W <=> p.deferred = d
      /\ \A w \in W : w \in DeferWaits
  <2>1. \A p \in deferred_blocked : Entry(p) \in Waits
    BY WaitsAre DEF DeferWaits
  <2>2. \A w \in JoinWaits \cup IoWaits \cup TimerWaits : w.on # OnDeferred(d)
    BY ThingsDiffer DEF JoinWaits, IoWaits, TimerWaits
  <2> QED
    BY <2>1, <2>2, WaitsAre, ThingsDiffer DEF Promise!WaitsOn
<1>1. \A w : w \in DeferWaits <=> \E p \in deferred_blocked : w = Entry(p)
  BY DEF DeferWaits
<1>2. \A w : w \in DeferWaits' <=> \E p \in deferred_blocked : p.deferred # d /\ w = Entry(p)
  BY DEF DeferWaits, WakeDeferred
<1>3. (\A p : Entry(p).thread = p.thread) /\ W \subseteq Waits
  BY DEF Promise!WaitsOn
<1> HIDE DEF Entry, W
<1>4. Waits' = Waits \ W
  <2>1. DeferWaits' = DeferWaits \ W /\ W \subseteq DeferWaits
    BY <1>0, <1>1, <1>2
  <2>2. (JoinWaits \cup IoWaits \cup TimerWaits) \cap DeferWaits = {}
    BY ThingsDiffer DEF JoinWaits, IoWaits, TimerWaits, DeferWaits
  <2> QED
    BY <2>1, <2>2, WaitsAre, WaitsKept
<1>5. Promise!Threads(W) = Awaiters(d)
  <2>1. ASSUME NEW c PROVE c \in Promise!Threads(W) <=> c \in Awaiters(d)
    <3>1. c \in Promise!Threads(W) <=> \E w \in W : w.thread = c
      BY DEF Promise!Threads
    <3>2. c \in Awaiters(d) <=> \E p \in deferred_blocked : p.deferred = d /\ p.thread = c
      BY DEF Awaiters, Threads
    <3> QED
      BY <1>0, <1>1, <1>3, <3>1, <3>2
  <2> QED
    BY <2>1
<1>6. /\ \E w \in Orders(Promise!Threads(W)) : queue' = queue \o w
      /\ parked_resume' = [c \in Coroutine |-> IF c \in Promise!Threads(W) THEN o
                                               ELSE parked_resume[c]]
  BY <1>5 DEF WakeDeferred, MakeReady
<1>7. Promise!Tell(W, o)
  BY <1>3, <1>4, <1>6, TellKept
<1> QED
  BY <1>7 DEF W

\* The sleeps whose time has come by `clock`.
DueBy(clock) == {w \in Waits : \E t \in Time : w.on = OnTime(t) /\ t <= clock}

\* The clock has moved on: every sleeper that is due, and no other, is woken.
LEMMA SleepersAreWoken ==
  ASSUME SchedTypeOK, Unique, Apart, NEW clock, WakeTimers(clock),
         UNCHANGED <<blocked, io_blocked, deferred_blocked>>
  PROVE  Promise!Tell(DueBy(clock), Value("null"))
<1> DEFINE DueWaits == DueBy(clock)
<1> DEFINE Sleep(p) == [thread |-> p.thread, on |-> OnTime(p.wake_time)]
<1>0. /\ \A p \in timer_blocked : Sleep(p) \in DueWaits <=> p \in Due(clock)
      /\ \A w \in DueWaits : w \in TimerWaits
  <2>1. \A p \in timer_blocked : p.wake_time \in Time /\ Sleep(p) \in Waits
    BY WaitsAre DEF TimerWaits, SchedTypeOK
  <2>2. \A p \in timer_blocked : Sleep(p) \in DueWaits <=> p \in Due(clock)
    BY <2>1, ThingsDiffer DEF DueBy, Due
  <2>3. \A w \in JoinWaits \cup IoWaits \cup DeferWaits, t \in Time : w.on # OnTime(t)
    BY ThingsDiffer DEF JoinWaits, IoWaits, DeferWaits
  <2> QED
    BY <2>2, <2>3, WaitsAre DEF DueBy
<1>1. \A w : w \in TimerWaits <=> \E p \in timer_blocked : w = Sleep(p)
  BY DEF TimerWaits
<1>2. timer_blocked' = timer_blocked \ Due(clock)
  BY DEF WakeTimers
<1>3. \A w : w \in TimerWaits' <=> \E p \in timer_blocked \ Due(clock) : w = Sleep(p)
  BY <1>2 DEF TimerWaits
<1>w. DueWaits = DueBy(clock)
  OBVIOUS
<1> HIDE DEF Sleep, DueWaits
<1>4. Waits' = Waits \ DueWaits /\ DueWaits \subseteq Waits
  <2>1. TimerWaits' = TimerWaits \ DueWaits
    BY <1>0, <1>1, <1>3
  <2>2. DueWaits \subseteq TimerWaits /\ DueWaits \subseteq Waits
    BY <1>w, <1>0 DEF DueBy
  <2>3. (JoinWaits \cup IoWaits \cup DeferWaits) \cap TimerWaits = {}
    BY ThingsDiffer DEF JoinWaits, IoWaits, DeferWaits, TimerWaits
  <2>4. Waits' = JoinWaits \cup IoWaits \cup TimerWaits' \cup DeferWaits
    BY WaitsAre, WaitsKept
  <2> QED
    BY <2>1, <2>2, <2>3, <2>4, WaitsAre
<1>5. Promise!Threads(DueWaits) = Threads(Due(clock))
  <2>1. ASSUME NEW x PROVE x \in Promise!Threads(DueWaits) <=> x \in Threads(Due(clock))
    <3>1. x \in Promise!Threads(DueWaits) <=> \E w \in DueWaits : w.thread = x
      BY DEF Promise!Threads
    <3>2. x \in Threads(Due(clock)) <=> \E p \in Due(clock) : p.thread = x
      BY DEF Threads
    <3>3. \A p : Sleep(p).thread = p.thread
      BY DEF Sleep
    <3>4. Due(clock) \subseteq timer_blocked
      BY DEF Due
    <3> QED
      BY <1>0, <1>1, <3>1, <3>2, <3>3, <3>4
  <2> QED
    BY <2>1
<1>6. /\ \E w \in Orders(Promise!Threads(DueWaits)) : queue' = queue \o w
      /\ parked_resume' = [c \in Coroutine |-> IF c \in Promise!Threads(DueWaits)
                                               THEN Value("null") ELSE parked_resume[c]]
  BY <1>5 DEF WakeTimers, MakeReady
<1> QED
  BY <1>w, <1>4, <1>6, TellKept
\* The waits whose call has come back.
ServedWaits == {w \in Waits : \E j \in Jobs : w.on = OnJob(j) /\ mailbox[j] # None}

\* The mailbox is drained: every coroutine whose call has come back, and no
\* other, is told what its own call brought.
LEMMA ServedAreTold ==
  ASSUME SchedTypeOK, Unique, Apart, WakeIo(mailbox),
         UNCHANGED <<blocked, timer_blocked, deferred_blocked>>
  PROVE  /\ Promise!Wake(ServedWaits)
         /\ \A w \in ServedWaits, j \in Jobs :
              w.on = OnJob(j) => parked_resume'[w.thread] = mailbox[j]
<1> DEFINE arrived == {p \in io_blocked : mailbox[p.job_id] # None}
           Entry(p) == [thread |-> p.thread, on |-> OnJob(p.job_id)]
<1>0. /\ \A p \in io_blocked : Entry(p) \in ServedWaits <=> p \in arrived
      /\ \A w \in ServedWaits : w \in IoWaits
  <2>1. \A p \in io_blocked : p.job_id \in Jobs /\ Entry(p) \in Waits
    BY WaitsAre DEF IoWaits, SchedTypeOK
  <2>2. \A p \in io_blocked : Entry(p) \in ServedWaits <=> p \in arrived
    BY <2>1, ThingsDiffer DEF ServedWaits
  <2>3. \A w \in JoinWaits \cup TimerWaits \cup DeferWaits, j \in Jobs : w.on # OnJob(j)
    BY ThingsDiffer DEF JoinWaits, TimerWaits, DeferWaits
  <2> QED
    BY <2>2, <2>3, WaitsAre DEF ServedWaits
<1>1. \A w : w \in IoWaits <=> \E p \in io_blocked : w = Entry(p)
  BY DEF IoWaits
<1>2. io_blocked' = io_blocked \ arrived
  BY DEF WakeIo
<1>3. \A w : w \in IoWaits' <=> \E p \in io_blocked \ arrived : w = Entry(p)
  BY <1>2 DEF IoWaits
<1>4. \A p : Entry(p).thread = p.thread /\ Entry(p).on = OnJob(p.job_id)
  OBVIOUS
<1> HIDE DEF Entry
<1>5. Waits' = Waits \ ServedWaits /\ ServedWaits \subseteq Waits
  <2>1. IoWaits' = IoWaits \ ServedWaits
    BY <1>0, <1>1, <1>3
  <2>2. ServedWaits \subseteq IoWaits /\ ServedWaits \subseteq Waits
    BY <1>0 DEF ServedWaits
  <2>3. (JoinWaits \cup TimerWaits \cup DeferWaits) \cap IoWaits = {}
    BY ThingsDiffer DEF JoinWaits, IoWaits, DeferWaits, TimerWaits
  <2>4. Waits' = JoinWaits \cup IoWaits' \cup TimerWaits \cup DeferWaits
    BY WaitsAre, WaitsKept
  <2> QED
    BY <2>1, <2>2, <2>3, <2>4, WaitsAre
<1>6. Promise!Threads(ServedWaits) = Served
  <2>1. ASSUME NEW c PROVE c \in Promise!Threads(ServedWaits) <=> c \in Served
    <3>1. c \in Promise!Threads(ServedWaits) <=> \E w \in ServedWaits : w.thread = c
      BY DEF Promise!Threads
    <3>2. c \in Served <=> \E p \in arrived : p.thread = c
      BY DEF Threads, Served
    <3> QED
      BY <1>0, <1>1, <1>4, <3>1, <3>2
  <2> QED
    BY <2>1
<1>7. Promise!Wake(ServedWaits)
  <2>1. /\ \E w \in Orders(Promise!Threads(ServedWaits)) : queue' = queue \o w
        /\ DOMAIN parked_resume' = Coroutine
    BY <1>6 DEF WakeIo, MakeReady, Served
  <2>2. \A c \in Coroutine \ Promise!Threads(ServedWaits) : parked_resume'[c] = parked_resume[c]
    BY <1>6, IoResumes
  <2> QED
    BY <1>5, <2>1, <2>2, WakeKept
<1>8. ASSUME NEW w \in ServedWaits, NEW j \in Jobs, w.on = OnJob(j)
      PROVE  parked_resume'[w.thread] = mailbox[j]
  <2>1. PICK p \in io_blocked : w = Entry(p)
    BY <1>0, <1>1
  <2>2. p.job_id = j /\ p.thread = w.thread /\ w.thread \in Served
    <3>1. p \in arrived
      BY <1>0, <2>1
    <3> QED
      BY <1>4, <1>8, <2>1, <3>1, ThingsDiffer DEF Served, Threads
  <2>3. PICK q \in io_blocked : q.thread = w.thread /\ parked_resume'[w.thread] = mailbox[q.job_id]
    BY <2>2, IoResumes
  <2>4. q = p
    BY <2>2, <2>3 DEF Unique, UniqueIn
  <2> QED
    BY <2>2, <2>3, <2>4
<1> QED
  BY <1>7, <1>8

\* What one coroutine waits for: nothing, or one thing.
WaitsOf(c) == {w \in Waits : w.thread = c}

\* A coroutine is asked to stop: its wait ends, and it will hear of the request.
LEMMA CancelledIsTornOut ==
  ASSUME SchedTypeOK, Unique, Apart, NEW g \in Coroutine, CancelUnpark(g),
         DOMAIN parked_resume = Coroutine
  PROVE  Promise!Tell(WaitsOf(g), Value("null"))
<1> DEFINE parked == g \in InJoin \cup InIo \cup InTimer \cup InDefer
<1>1. /\ \A w : w \in JoinWaits' <=> w \in JoinWaits /\ w.thread # g
      /\ \A w : w \in IoWaits' <=> w \in IoWaits /\ w.thread # g
      /\ \A w : w \in TimerWaits' <=> w \in TimerWaits /\ w.thread # g
      /\ \A w : w \in DeferWaits' <=> w \in DeferWaits /\ w.thread # g
  <2>1. blocked' = Without(blocked, g) /\ io_blocked' = Without(io_blocked, g)
    <3>1. g \in InJoin => g \notin InIo
      BY DEF Apart
    <3>2. g \notin InIo => Without(io_blocked, g) = io_blocked
      BY DEF Without, InIo, Threads
    <3> QED
      BY <3>1, <3>2 DEF CancelUnpark, InJoin
  <2>2. timer_blocked' = Without(timer_blocked, g)
    <3>1. g \in InJoin \/ g \in InIo => g \notin InTimer
      BY DEF Apart
    <3>2. g \notin InTimer => Without(timer_blocked, g) = timer_blocked
      BY DEF Without, InTimer, Threads
    <3> QED
      BY <3>1, <3>2 DEF CancelUnpark, InJoin, InIo
  <2>3. deferred_blocked' = Without(deferred_blocked, g)
    <3>1. g \in InJoin \/ g \in InIo \/ g \in InTimer => g \notin InDefer
      BY DEF Apart
    <3>2. g \notin InDefer => Without(deferred_blocked, g) = deferred_blocked
      BY DEF Without, InDefer, Threads
    <3> QED
      BY <3>1, <3>2 DEF CancelUnpark, InJoin, InIo, InTimer
  <2>4. \A w : w \in JoinWaits' <=> w \in JoinWaits /\ w.thread # g
    BY <2>1 DEF JoinWaits, Without
  <2>5. \A w : w \in IoWaits' <=> w \in IoWaits /\ w.thread # g
    BY <2>1 DEF IoWaits, Without
  <2>6. \A w : w \in TimerWaits' <=> w \in TimerWaits /\ w.thread # g
    BY <2>2 DEF TimerWaits, Without
  <2>7. \A w : w \in DeferWaits' <=> w \in DeferWaits /\ w.thread # g
    BY <2>3 DEF DeferWaits, Without
  <2> QED
    BY <2>4, <2>5, <2>6, <2>7
<1>2. Waits' = Waits \ WaitsOf(g)
  BY <1>1, WaitsAre DEF WaitsOf
<1>3. parked <=> \E w \in Waits : w.thread = g
  <2>1. \A c : /\ c \in InJoin <=> \E w \in JoinWaits : w.thread = c
               /\ c \in InIo <=> \E w \in IoWaits : w.thread = c
               /\ c \in InTimer <=> \E w \in TimerWaits : w.thread = c
               /\ c \in InDefer <=> \E w \in DeferWaits : w.thread = c
    BY ThreadsOfWaits DEF Promise!Threads
  <2> QED
    BY <2>1, WaitsAre
<1>4. Promise!Threads(WaitsOf(g)) = IF parked THEN {g} ELSE {}
  <2>1. \A w \in WaitsOf(g) : w.thread = g
    BY DEF WaitsOf
  <2>2. parked <=> WaitsOf(g) # {}
    BY <1>3 DEF WaitsOf
  <2> HIDE DEF parked
  <2> QED
    BY <2>1, <2>2 DEF Promise!Threads
<1>5. Queued' = Queued \cup Promise!Threads(WaitsOf(g))
  BY <1>4, CancelUnparkMoves
<1>6. parked_resume' = IF parked THEN [parked_resume EXCEPT ![g] = Value("null")] ELSE parked_resume
  BY DEF CancelUnpark, InJoin, InIo, InTimer, InDefer
<1>7. /\ DOMAIN parked_resume' = Coroutine
      /\ \A c \in Coroutine \ Promise!Threads(WaitsOf(g)) : parked_resume'[c] = parked_resume[c]
      /\ \A w \in WaitsOf(g) : parked_resume'[w.thread] = Value("null")
  <2>1. \A w \in WaitsOf(g) : w.thread = g /\ parked
    BY <1>3 DEF WaitsOf
  <2> HIDE DEF parked
  <2> QED
    BY <1>4, <1>6, <2>1
<1> QED
  BY <1>2, <1>5, <1>7 DEF Promise!Tell, Promise!Wake
-----------------------------------------------------------------------------
(* What a step leaves as Awaiting sees it. *)

\* A step that leaves the scheduler's collections alone leaves the view of them.
LEMMA ViewKept ==
  /\ next_id' = next_id => Started' = Started
  /\ UNCHANGED parkVars => Waits' = Waits
  /\ queue' = queue => Queued' = Queued
<1>1. UNCHANGED parkVars => Waits' = Waits
  BY WaitsAre, WaitsKept DEF parkVars
<1> QED
  BY <1>1 DEF Started, Queued

\* Who runs, and what unwinds it, before and after a step.
LEMMA PcViews ==
  /\ pc \in {"poll", "timers", "exec"} => Running = {current_id} /\ Raising = None
  /\ pc = "raise" => Running = {current_id} /\ Raising = in_flight
  /\ pc \in {"pick", "ended"} => Running = {} /\ Raising = None
  /\ pc' \in {"poll", "timers", "exec"} => Running' = {current_id'} /\ Raising' = None
  /\ pc' = "raise" => Running' = {current_id'} /\ Raising' = in_flight'
  /\ pc' \in {"pick", "ended"} => Running' = {} /\ Raising' = None
BY DEF Running, Raising, HasThread

\* Ids of blocking calls are handed out in order: no call that is still to begin
\* is in flight, has an answer or is waited for.
CallsKnown ==
  /\ \A j \in running_jobs : j < next_job_id
  /\ \A j \in Jobs : mailbox[j] # None => j < next_job_id
  /\ \A p \in io_blocked : p.job_id < next_job_id

\* What the view needs of a state: of an actor's, and of a session's while the
\* actor in it acts.
ViewInv ==
  /\ TypeOK
  /\ OutcomeInv
  /\ pc # "ended" => Unique /\ Apart
  /\ HasThread /\ current_id # Main => result[current_id] = None
  /\ CallsKnown

LEMMA ActorView == OutcomeInvs => ViewInv
<1> SUFFICES ASSUME OutcomeInvs PROVE ViewInv
  OBVIOUS
<1>1. TypeOK /\ SchedTypeOK /\ OutcomeInv /\ (pc # "ended" => Unique /\ Apart)
  BY DEF OutcomeInvs, PlaceInv, Placed, TypeOK
<1>2. HasThread /\ current_id # Main => result[current_id] = None
  BY RunningIsAlone DEF OutcomeInvs, Live
<1>3. CallsKnown
  <2>1. \A p \in io_blocked : p.job_id \in Jobs /\ p.thread \in Coroutine
                              /\ site[p.thread] = OnJob(p.job_id)
    BY <1>1 DEF OutcomeInvs, SiteInv, SchedTypeOK
  <2> QED
    BY <2>1 DEF OutcomeInvs, JobInv, CallsKnown
<1> QED
  BY <1>1, <1>2, <1>3 DEF ViewInv

\* The coroutine that executes an operation runs, and no error unwinds it.
LEMMA ExecRuns ==
  ASSUME TypeOK, pc = "exec"
  PROVE  current_id \in Coroutine /\ Promise!Runs(current_id)
BY PcViews DEF TypeOK, SchedTypeOK, Promise!Runs

\* An operation that raises is a failure of the program, one that goes on no step.
LEMMA FailIsSeen ==
  ASSUME TypeOK, pc = "exec",
         pc' = "raise" /\ in_flight' \in {Raise("raised"), Raise("deadlock")},
         UNCHANGED <<schedVars, handleVars, jobVars, now>>
  PROVE  Promise!Fail
<1>1. UNCHANGED <<Started, Queued, Waits>>
  BY ViewKept DEF schedVars, parkVars
<1>2. Running' = Running /\ Raising' = in_flight'
  BY PcViews DEF schedVars
<1> QED
  BY <1>1, <1>2, ExecRuns DEF Promise!Fail, schedVars, handleVars, jobVars

LEMMA ContinueIsUnseen ==
  ASSUME pc = "exec", Continue, UNCHANGED <<schedVars, handleVars, jobVars, now>>
  PROVE  UNCHANGED Promise!vars
<1>1. UNCHANGED <<Started, Queued, Waits>>
  BY ViewKept DEF schedVars, parkVars
<1>2. Running' = Running /\ Raising' = Raising
  BY PcViews DEF schedVars, Continue
<1> QED
  BY <1>1, <1>2 DEF Promise!vars, schedVars, handleVars, jobVars

LEMMA DeliverIsSeen ==
  ASSUME TypeOK, pc = "exec", NEW o \in Ends \cup Settlements \cup JobOutcomes, Deliver(o),
         UNCHANGED <<schedVars, handleVars, jobVars, now>>
  PROVE  Promise!Fail \/ UNCHANGED Promise!vars
<1>1. CASE o.kind = "raise"
  <2>1. o \in {Raise("raised"), Raise("deadlock")}
    BY <1>1 DEF Ends, Settlements, JobOutcomes, Value, Raise
  <2> QED
    BY <1>1, <2>1, FailIsSeen DEF Deliver, RaiseErr
<1>2. CASE o.kind # "raise"
  BY <1>2, ContinueIsUnseen DEF Deliver
<1> QED
  BY <1>1, <1>2

\* A request to cancel that reaches the coroutine that made or met it.
LEMMA RaiseCancelledIsSeen ==
  ASSUME TypeOK, pc = "exec", RaiseCancelled
  PROVE  current_id \in Green /\ Promise!HearCancel(current_id)
<1>1. current_id \in Green /\ cancel_requested[current_id]
  BY DEF RaiseCancelled, SelfCancelled, TypeOK, SchedTypeOK, Coroutine, Green, Main
<1>2. UNCHANGED <<Started, Queued, Waits>>
  BY ViewKept DEF RaiseCancelled, schedVars, parkVars
<1>3. Running' = Running /\ Raising' = Raise("cancelled")
  BY PcViews DEF RaiseCancelled, RaiseErr, schedVars
<1> QED
  BY <1>1, <1>2, <1>3, ExecRuns DEF Promise!HearCancel, RaiseCancelled, schedVars, jobVars

-----------------------------------------------------------------------------
(* The steps. *)

\* Operations that leave the running coroutine running.
LEMMA StayIsPromised ==
  ASSUME ViewInv, StayOp
  PROVE  Promise!Next \/ UNCHANGED Promise!vars
<1>0. /\ TypeOK /\ SchedTypeOK /\ OutcomeInv /\ (pc = "exec" => Unique /\ Apart)
      /\ parked_resume \in [Coroutine -> Outcomes \cup {None}] /\ Green \subseteq Coroutine
  BY BoundsAssumption DEF ViewInv, TypeOK, SchedTypeOK, Green, Coroutine
<1>1. CASE Go
  <2>1. /\ pc = "exec" /\ next_id \in Green /\ queue' = Append(queue, next_id)
        /\ next_id' = next_id + 1 /\ pc' = "poll"
        /\ UNCHANGED <<parkVars, current_id, parked_resume, handleVars, jobVars, now>>
    BY <1>1 DEF Go, EnqueueFresh, Continue
  <2>2. next_id \notin Started /\ Started' = Started \cup {next_id}
    BY <2>1, BoundsAssumption DEF Started, Green
  <2>3. Queued' = Queued \cup {next_id}
    BY <1>0, <2>1, AppendMoves
  <2>4. Waits' = Waits /\ Running' = Running /\ Raising' = Raising
    BY <2>1, ViewKept, PcViews
  <2>5. Promise!Go(next_id)
    BY <1>0, <2>1, <2>2, <2>3, <2>4, ExecRuns DEF Promise!Go, handleVars, jobVars
  <2> QED
    BY <2>1, <2>5 DEF Promise!Next
<1>2. CASE YieldAlone
  BY <1>2, ContinueIsUnseen DEF YieldAlone
<1>3. CASE BlockingInline
  BY <1>0, <1>3, DeliverIsSeen DEF BlockingInline, Promise!Next
<1>4. CASE RaiseOp
  BY <1>0, <1>4, FailIsSeen DEF RaiseOp, RaiseErr, Promise!Next
<1>5. ASSUME NEW g \in Green, JoinFinished(g) PROVE Promise!Next \/ UNCHANGED Promise!vars
  <2>1. result[g] \in Ends
    BY <1>0, <1>5 DEF JoinFinished, OutcomeInv
  <2> QED
    BY <1>0, <1>5, <2>1, DeliverIsSeen DEF JoinFinished, Promise!Next
<1>6. ASSUME NEW d \in Deferreds, JoinSettled(d) PROVE Promise!Next \/ UNCHANGED Promise!vars
  <2>1. settled[d] \in Settlements
    BY <1>0, <1>6 DEF JoinSettled, OutcomeInv
  <2> QED
    BY <1>0, <1>6, <2>1, DeliverIsSeen DEF JoinSettled, Promise!Next
<1>7. ASSUME NEW g \in Green, Cancel(g) PROVE Promise!Next \/ UNCHANGED Promise!vars
  <2>0. /\ pc = "exec" /\ Continue /\ pc' = "poll"
        /\ UNCHANGED <<next_id, current_id, result, settled, jobVars, now>>
    BY <1>7 DEF Cancel, Continue
  <2>1. CASE result[g] # None
    BY <1>7, <2>0, <2>1, ContinueIsUnseen DEF Cancel, schedVars, parkVars, handleVars
  <2>2. CASE result[g] = None
    <3>1. /\ g \in Started
          /\ cancel_requested' = [cancel_requested EXCEPT ![g] = TRUE] /\ CancelUnpark(g)
      BY <1>0, <1>7, <2>2 DEF Cancel, Started, Green, SchedTypeOK
    <3>2. Promise!Tell(WaitsOf(g), Value("null"))
      BY <1>0, <2>0, <3>1, CancelledIsTornOut
    <3>3. Started' = Started /\ Running' = Running /\ Raising' = Raising
      BY <2>0, ViewKept, PcViews
    <3>4. Promise!Cancel(g)
      BY <1>0, <2>0, <2>2, <3>1, <3>2, <3>3, ExecRuns DEF Promise!Cancel, WaitsOf, jobVars
    <3> QED
      BY <3>4 DEF Promise!Next
  <2> QED
    BY <2>1, <2>2
<1>8. ASSUME NEW d \in Deferreds, NEW o \in Settlements, Settle(d, o)
      PROVE  Promise!Next \/ UNCHANGED Promise!vars
  <2>0. /\ pc = "exec" /\ Continue /\ pc' = "poll"
        /\ UNCHANGED <<blocked, io_blocked, timer_blocked, next_id, current_id,
                       result, cancel_requested, jobVars, now>>
    BY <1>8 DEF Settle, Continue
  <2>1. CASE settled[d] # None
    BY <1>8, <2>0, <2>1, ContinueIsUnseen DEF Settle, schedVars, handleVars
  <2>2. CASE settled[d] = None
    <3>1. settled' = [settled EXCEPT ![d] = o] /\ WakeDeferred(d, o)
      BY <1>8, <2>2 DEF Settle
    <3>2. Promise!Tell(Promise!WaitsOn(OnDeferred(d)), o)
      BY <1>0, <2>0, <3>1, AwaitersAreTold
    <3>3. Started' = Started /\ Running' = Running /\ Raising' = Raising
      BY <2>0, ViewKept, PcViews
    <3>4. Promise!Settle(d)
      BY <1>0, <2>0, <2>2, <3>1, <3>2, <3>3, ExecRuns
        DEF Promise!Settle, Promise!SettleOnce, Settlements, jobVars
    <3> QED
      BY <3>4 DEF Promise!Next
  <2> QED
    BY <2>1, <2>2
<1>9. CASE \E d \in Deferreds : Resolve(d) \/ Reject(d)
  BY <1>8, <1>9 DEF Resolve, Reject, Settlements
<1> QED
  BY <1>1, <1>2, <1>3, <1>4, <1>5, <1>6, <1>7, <1>9 DEF StayOp
\* The running coroutine ends: its handle records how and its joiners are told.
LEMMA FinishIsSeen ==
  ASSUME ViewInv, HasThread, current_id # Main, pc' = "pick",
         NEW o, o = Promise!Ending, Finish(o)
  PROVE  current_id \in Green /\ Promise!End(current_id)
<1>0. SchedTypeOK /\ Unique /\ Apart
  BY DEF ViewInv, TypeOK, HasThread
<1>1. /\ current_id \in Green /\ result[current_id] = None /\ Running = {current_id}
  BY <1>0 DEF ViewInv, SchedTypeOK, Running, Coroutine, Green, Main
<1>2. /\ result' = [result EXCEPT ![current_id] = o]
      /\ WakeJoiners(current_id, o)
      /\ UNCHANGED <<io_blocked, timer_blocked, deferred_blocked, next_id,
                     cancel_requested, settled, jobVars, now>>
  BY DEF Finish
<1>3. Promise!Tell(Promise!WaitsOn(OnGreen(current_id)), o)
  BY <1>0, <1>2, JoinersAreTold
<1>4. Started' = Started /\ Running' = {} /\ Raising' = None
  BY <1>2, ViewKept, PcViews
<1> QED
  BY <1>1, <1>2, <1>3, <1>4 DEF Promise!End, jobVars
\* A coroutine that parks adds one wait to those of its collection.
LEMMA ParkAddsAWait ==
  /\ \A g : Block(g) => JoinWaits' = JoinWaits \cup {[thread |-> current_id, on |-> OnGreen(g)]}
  /\ \A j : ParkIo(j) => IoWaits' = IoWaits \cup {[thread |-> current_id, on |-> OnJob(j)]}
  /\ \A t : ParkTimer(t) => TimerWaits' = TimerWaits \cup {[thread |-> current_id, on |-> OnTime(t)]}
  /\ \A d : ParkDeferred(d) =>
       DeferWaits' = DeferWaits \cup {[thread |-> current_id, on |-> OnDeferred(d)]}
<1>1. ASSUME NEW g, Block(g)
      PROVE  JoinWaits' = JoinWaits \cup {[thread |-> current_id, on |-> OnGreen(g)]}
  <2> DEFINE Entry(p) == [thread |-> p.thread, on |-> OnGreen(p.awaiting)]
             new == [awaiting |-> g, thread |-> current_id]
  <2>1. \A w : w \in JoinWaits <=> \E p \in blocked : w = Entry(p)
    BY DEF JoinWaits
  <2>2. \A w : w \in JoinWaits' <=> \E p \in blocked \cup {new} : w = Entry(p)
    BY <1>1 DEF JoinWaits, Block
  <2>3. Entry(new) = [thread |-> current_id, on |-> OnGreen(g)]
    OBVIOUS
  <2> HIDE DEF Entry, new
  <2> QED
    BY <2>1, <2>2, <2>3
<1>2. ASSUME NEW j, ParkIo(j)
      PROVE  IoWaits' = IoWaits \cup {[thread |-> current_id, on |-> OnJob(j)]}
  <2> DEFINE Entry(p) == [thread |-> p.thread, on |-> OnJob(p.job_id)]
             new == [job_id |-> j, thread |-> current_id]
  <2>1. \A w : w \in IoWaits <=> \E p \in io_blocked : w = Entry(p)
    BY DEF IoWaits
  <2>2. \A w : w \in IoWaits' <=> \E p \in io_blocked \cup {new} : w = Entry(p)
    BY <1>2 DEF IoWaits, ParkIo
  <2>3. Entry(new) = [thread |-> current_id, on |-> OnJob(j)]
    OBVIOUS
  <2> HIDE DEF Entry, new
  <2> QED
    BY <2>1, <2>2, <2>3
<1>3. ASSUME NEW t, ParkTimer(t)
      PROVE  TimerWaits' = TimerWaits \cup {[thread |-> current_id, on |-> OnTime(t)]}
  <2> DEFINE Entry(p) == [thread |-> p.thread, on |-> OnTime(p.wake_time)]
             new == [wake_time |-> t, thread |-> current_id]
  <2>1. \A w : w \in TimerWaits <=> \E p \in timer_blocked : w = Entry(p)
    BY DEF TimerWaits
  <2>2. \A w : w \in TimerWaits' <=> \E p \in timer_blocked \cup {new} : w = Entry(p)
    BY <1>3 DEF TimerWaits, ParkTimer
  <2>3. Entry(new) = [thread |-> current_id, on |-> OnTime(t)]
    OBVIOUS
  <2> HIDE DEF Entry, new
  <2> QED
    BY <2>1, <2>2, <2>3
<1>4. ASSUME NEW d, ParkDeferred(d)
      PROVE  DeferWaits' = DeferWaits \cup {[thread |-> current_id, on |-> OnDeferred(d)]}
  <2> DEFINE Entry(p) == [thread |-> p.thread, on |-> OnDeferred(p.deferred)]
             new == [deferred |-> d, thread |-> current_id]
  <2>1. \A w : w \in DeferWaits <=> \E p \in deferred_blocked : w = Entry(p)
    BY DEF DeferWaits
  <2>2. \A w : w \in DeferWaits' <=> \E p \in deferred_blocked \cup {new} : w = Entry(p)
    BY <1>4 DEF DeferWaits, ParkDeferred
  <2>3. Entry(new) = [thread |-> current_id, on |-> OnDeferred(d)]
    OBVIOUS
  <2> HIDE DEF Entry, new
  <2> QED
    BY <2>1, <2>2, <2>3
<1> QED
  BY <1>1, <1>2, <1>3, <1>4

\* The running coroutine begins to wait: Awaiting sees it go from the thread to
\* the waits, on the thing its collection keeps it under.
LEMMA ParkIsSeen ==
  ASSUME ViewInv, pc = "exec", ~SelfCancelled, NEW x, Park(x),
         NEW on, Waits' = Waits \cup {[thread |-> current_id, on |-> on]},
         UNCHANGED <<queue, next_id, current_id, parked_resume, handleVars, mailbox, now>>
  PROVE  Promise!BeginWait(current_id, on) /\ current_id \in Coroutine
<1>0. TypeOK
  BY DEF ViewInv
<1>1. Started' = Started /\ Queued' = Queued
  BY ViewKept
<1>2. Running' = {} /\ Raising' = None /\ Raising = None
  BY PcViews DEF Park, SwitchAway
<1>3. current_id \in Green => ~cancel_requested[current_id]
  BY DEF SelfCancelled, Green, Main
<1> QED
  BY <1>0, <1>1, <1>2, <1>3, ExecRuns DEF Promise!BeginWait, handleVars

\* Operations that take the running coroutine off the thread.
LEMMA LeaveIsPromised ==
  ASSUME ViewInv, LeaveOp
  PROVE  Promise!Next \/ UNCHANGED Promise!vars
<1>0. TypeOK /\ SchedTypeOK /\ CallsKnown /\ current_id \in Coroutine
  BY DEF ViewInv, TypeOK, SchedTypeOK
<1>1. CASE YieldToNext
  <2>1. /\ pc = "exec" /\ pc' = "pick" /\ queue' = Append(queue, current_id)
        /\ parked_resume' = [parked_resume EXCEPT ![current_id] = Value("null")]
        /\ UNCHANGED <<parkVars, next_id, handleVars, jobVars, now>>
    BY <1>1 DEF YieldToNext, EnqueueCurrent, SwitchAway
  <2>2. Queued' = Queued \cup {current_id}
    BY <1>0, <2>1, AppendMoves
  <2>3. Started' = Started /\ Waits' = Waits /\ Running' = {} /\ Raising' = None /\ Raising = None
    BY <2>1, ViewKept, PcViews
  <2>4. Promise!Yield(current_id)
    BY <1>0, <2>1, <2>2, <2>3, ExecRuns DEF Promise!Yield, handleVars, jobVars
  <2> QED
    BY <1>0, <2>4 DEF Promise!Next
<1>2. ASSUME RaiseCancelled, pc = "exec" PROVE Promise!Next
  BY <1>0, <1>2, RaiseCancelledIsSeen DEF Promise!Next
<1>3. CASE BlockingOffload
  <2> SUFFICES ASSUME ~RaiseCancelled PROVE Promise!Next
    BY <1>2, <1>3 DEF BlockingOffload
  <2> DEFINE j == next_job_id
  <2>1. /\ pc = "exec" /\ ~SelfCancelled /\ j \in Jobs
        /\ running_jobs' = running_jobs \cup {j}
        /\ ParkIo(j) /\ Park(OnJob(j))
        /\ UNCHANGED <<queue, blocked, timer_blocked, deferred_blocked, next_id,
                       current_id, parked_resume, handleVars, mailbox, now>>
    BY <1>3 DEF BlockingOffload
  <2>2. j \notin running_jobs /\ mailbox[j] = None
    <3>1. ~(j < j)
      BY <2>1, BoundsAssumption DEF Jobs
    <3> QED
      BY <1>0, <2>1, <3>1 DEF CallsKnown
  <2>3. Promise!WaitsOn(OnJob(j)) = {}
    <3>1. ASSUME NEW w \in Waits, w.on = OnJob(j) PROVE FALSE
      <4>1. w \in IoWaits
        BY <3>1, WaitsAre, ThingsDiffer DEF JoinWaits, TimerWaits, DeferWaits
      <4>2. PICK p \in io_blocked : w.thread = p.thread /\ w.on = OnJob(p.job_id)
        BY <4>1 DEF IoWaits
      <4>3. p.job_id = j
        BY <3>1, <4>2, ThingsDiffer
      <4>4. j < j
        BY <1>0, <4>2, <4>3 DEF CallsKnown
      <4> QED
        BY <2>1, <4>4, BoundsAssumption DEF Jobs
    <3> QED
      BY <3>1 DEF Promise!WaitsOn
  <2>4. Waits' = Waits \cup {[thread |-> current_id, on |-> OnJob(j)]}
    <3>1. IoWaits' = IoWaits \cup {[thread |-> current_id, on |-> OnJob(j)]}
      BY <2>1, ParkAddsAWait
    <3> QED
      BY <2>1, <3>1, WaitsAre, WaitsKept
  <2>5. Promise!BeginWait(current_id, OnJob(j))
    BY <2>1, <2>4, ParkIsSeen
  <2>6. Promise!Call(current_id, j)
    BY <2>1, <2>2, <2>3, <2>5 DEF Promise!Call
  <2> QED
    BY <1>0, <2>1, <2>6 DEF Promise!Next
<1>4. ASSUME NEW g \in Green, JoinLive(g) PROVE Promise!Next
  <2>0. pc = "exec" /\ g \in Started /\ result[g] = None
    BY <1>0, <1>4 DEF JoinLive, Started, Green, SchedTypeOK
  <2>1. CASE RaiseErr(Raise("deadlock")) /\ UNCHANGED <<schedVars, handleVars, site, jobVars, now>>
    BY <1>0, <2>0, <2>1, FailIsSeen DEF RaiseErr, Promise!Next
  <2>2. CASE RaiseCancelled
    BY <1>2, <2>0, <2>2
  <2>3. CASE /\ ~SelfCancelled /\ Block(g) /\ Park(OnGreen(g))
             /\ UNCHANGED <<queue, io_blocked, timer_blocked, deferred_blocked, next_id,
                            current_id, parked_resume, handleVars, jobVars, now>>
    <3>1. Waits' = Waits \cup {[thread |-> current_id, on |-> OnGreen(g)]}
      <4>1. JoinWaits' = JoinWaits \cup {[thread |-> current_id, on |-> OnGreen(g)]}
        BY <2>3, ParkAddsAWait
      <4> QED
        BY <2>3, <4>1, WaitsAre, WaitsKept
    <3>2. Promise!BeginWait(current_id, OnGreen(g))
      BY <2>0, <2>3, <3>1, ParkIsSeen DEF jobVars
    <3>3. Promise!Join(current_id, g)
      BY <2>0, <2>3, <3>2 DEF Promise!Join, jobVars
    <3> QED
      BY <1>0, <3>3 DEF Promise!Next
  <2> QED
    BY <1>4, <2>1, <2>2, <2>3 DEF JoinLive
<1>5. ASSUME NEW d \in Deferreds, JoinUnsettled(d) PROVE Promise!Next
  <2>0. pc = "exec" /\ settled[d] = None
    BY <1>5 DEF JoinUnsettled
  <2>1. CASE RaiseErr(Raise("deadlock")) /\ UNCHANGED <<schedVars, handleVars, site, jobVars, now>>
    BY <1>0, <2>0, <2>1, FailIsSeen DEF RaiseErr, Promise!Next
  <2>2. CASE RaiseCancelled
    BY <1>2, <2>0, <2>2
  <2>3. CASE /\ ~SelfCancelled /\ ParkDeferred(d) /\ Park(OnDeferred(d))
             /\ UNCHANGED <<queue, blocked, io_blocked, timer_blocked, next_id,
                            current_id, parked_resume, handleVars, jobVars, now>>
    <3>1. Waits' = Waits \cup {[thread |-> current_id, on |-> OnDeferred(d)]}
      <4>1. DeferWaits' = DeferWaits \cup {[thread |-> current_id, on |-> OnDeferred(d)]}
        BY <2>3, ParkAddsAWait
      <4> QED
        BY <2>3, <4>1, WaitsAre, WaitsKept
    <3>2. Promise!BeginWait(current_id, OnDeferred(d))
      BY <2>0, <2>3, <3>1, ParkIsSeen DEF jobVars
    <3>3. Promise!Await(current_id, d)
      BY <2>0, <2>3, <3>2 DEF Promise!Await, jobVars
    <3> QED
      BY <1>0, <3>3 DEF Promise!Next
  <2> QED
    BY <1>5, <2>1, <2>2, <2>3 DEF JoinUnsettled
<1>6. ASSUME NEW s \in Delays, Wait(s) PROVE Promise!Next
  <2>0. pc = "exec" /\ now + s \in Time /\ now + s >= now
    BY <1>0, <1>6, DelaysAssumption DEF Wait, TypeOK, Time
  <2>1. CASE RaiseErr(Raise("raised")) /\ UNCHANGED <<schedVars, handleVars, site, jobVars, now>>
    BY <1>0, <2>0, <2>1, FailIsSeen DEF RaiseErr, Promise!Next
  <2>2. CASE RaiseCancelled
    BY <1>2, <2>0, <2>2
  <2>3. CASE /\ ~SelfCancelled /\ ParkTimer(now + s) /\ Park(Nothing)
             /\ UNCHANGED <<queue, blocked, io_blocked, deferred_blocked, next_id,
                            current_id, parked_resume, handleVars, jobVars, now>>
    <3>1. Waits' = Waits \cup {[thread |-> current_id, on |-> OnTime(now + s)]}
      <4>1. TimerWaits' = TimerWaits \cup {[thread |-> current_id, on |-> OnTime(now + s)]}
        BY <2>3, ParkAddsAWait
      <4> QED
        BY <2>3, <4>1, WaitsAre, WaitsKept
    <3>2. Promise!BeginWait(current_id, OnTime(now + s))
      BY <2>0, <2>3, <3>1, ParkIsSeen DEF jobVars
    <3>3. Promise!Sleep(current_id, now + s)
      BY <2>0, <2>3, <3>2 DEF Promise!Sleep, jobVars
    <3> QED
      BY <1>0, <2>0, <3>3 DEF Promise!Next
  <2> QED
    BY <1>6, <2>1, <2>2, <2>3 DEF Wait
<1>7. CASE ReturnGreen
  <2>1. /\ HasThread /\ Raising = None /\ pc' = "pick" /\ Finish(Value("done")) /\ current_id # Main
    BY <1>7, PcViews DEF ReturnGreen, SwitchAway, HasThread
  <2>2. Value("done") = Promise!Ending
    BY <2>1 DEF Promise!Ending, Raise, None
  <2>3. current_id \in Green /\ Promise!End(current_id)
    BY <2>1, <2>2, FinishIsSeen
  <2> QED
    BY <2>3 DEF Promise!Next
<1>8. CASE ReturnMain
  <2>1. /\ pc = "exec" /\ current_id = Main /\ pc' = "ended"
        /\ UNCHANGED <<schedVars, handleVars, jobVars, now>>
    BY <1>8 DEF ReturnMain
  <2>2. UNCHANGED <<Started, Queued, Waits>> /\ Running = {Main} /\ Running' = {} /\ Raising' = None
    BY <2>1, ViewKept, PcViews DEF schedVars, parkVars
  <2>3. Promise!EndMain
    BY <2>1, <2>2 DEF Promise!EndMain, schedVars, handleVars, jobVars
  <2> QED
    BY <2>3 DEF Promise!Next
<1> QED
  BY <1>1, <1>3, <1>4, <1>5, <1>6, <1>7, <1>8 DEF LeaveOp
\* An error is caught, or ends the coroutine it unwinds.
LEMMA UnwindIsPromised ==
  ASSUME ViewInv, Unwind
  PROVE  Promise!Next \/ UNCHANGED Promise!vars
<1>0. /\ TypeOK /\ pc = "raise" /\ in_flight # None
      /\ Running = {current_id} /\ Raising = in_flight
  BY PcViews DEF ViewInv, OutcomeInv, ErrorsSeen, Raise, None, Unwind, Caught, FailGreen, FailMain
<1>1. CASE Caught
  <2>1. pc' = "poll" /\ UNCHANGED <<schedVars, handleVars, jobVars, now>>
    BY <1>1 DEF Caught, Continue
  <2>2. UNCHANGED <<Started, Queued, Waits, Running>> /\ Raising' = None
    BY <1>0, <2>1, ViewKept, PcViews DEF schedVars, parkVars
  <2>3. Promise!Catch
    BY <1>0, <2>1, <2>2 DEF Promise!Catch, schedVars, handleVars, jobVars
  <2> QED
    BY <2>3 DEF Promise!Next
<1>2. CASE FailGreen
  <2> DEFINE o == IF in_flight = Raise("cancelled") THEN Value("cancelled") ELSE in_flight
  <2>1. HasThread /\ current_id # Main /\ pc' = "pick" /\ Finish(o)
    BY <1>0, <1>2 DEF FailGreen, SwitchAway, HasThread
  <2>2. o = Promise!Ending
    BY <1>0 DEF Promise!Ending
  <2>3. current_id \in Green /\ Promise!End(current_id)
    BY <2>1, <2>2, FinishIsSeen
  <2> QED
    BY <2>3 DEF Promise!Next
<1>3. CASE FailMain
  <2>1. current_id = Main /\ pc' = "ended" /\ UNCHANGED <<schedVars, handleVars, jobVars, now>>
    BY <1>3 DEF FailMain
  <2>2. UNCHANGED <<Started, Queued, Waits>> /\ Running' = {} /\ Raising' = None
    BY <2>1, ViewKept, PcViews DEF schedVars, parkVars
  <2>3. Promise!EndMain
    BY <1>0, <2>1, <2>2 DEF Promise!EndMain, schedVars, handleVars, jobVars
  <2> QED
    BY <2>3 DEF Promise!Next
<1> QED
  BY <1>1, <1>2, <1>3 DEF Unwind

\* The mailbox is looked into, at the safepoint or while nobody can run.
LEMMA DrainIsSeen ==
  ASSUME SchedTypeOK, Unique, Apart, PollIoCompletions, Running' = Running, Raising' = Raising,
         UNCHANGED <<blocked, timer_blocked, deferred_blocked, next_id, handleVars,
                     running_jobs, now>>
  PROVE  Promise!Collect
<1>1. WakeIo(mailbox) /\ mailbox' = [j \in Jobs |-> None]
  BY DEF PollIoCompletions, EmptyMailbox
<1>2. /\ Promise!Wake(ServedWaits)
      /\ \A w \in ServedWaits, j \in Jobs :
           w.on = OnJob(j) => parked_resume'[w.thread] = mailbox[j]
  BY <1>1, ServedAreTold
<1>3. Started' = Started
  BY ViewKept
<1> QED
  BY <1>1, <1>2, <1>3 DEF Promise!Collect, ServedWaits, handleVars

\* Timers fire, at the safepoint or while nobody can run.
LEMMA TimersAreSeen ==
  ASSUME SchedTypeOK, Unique, Apart, WakeTimers(now), Running' = Running, Raising' = Raising,
         UNCHANGED <<blocked, io_blocked, deferred_blocked, next_id, handleVars, jobVars, now>>
  PROVE  Promise!Expire
<1>1. Promise!Tell(DueBy(now), Value("null"))
  BY SleepersAreWoken
<1>2. Started' = Started
  BY ViewKept
<1> QED
  BY <1>1, <1>2 DEF Promise!Expire, DueBy, handleVars, jobVars

\* The safepoint.
LEMMA SafepointIsPromised ==
  ASSUME ViewInv, Poll \/ FireTimers
  PROVE  Promise!Next \/ UNCHANGED Promise!vars
<1>0. /\ pc # "ended" /\ Running' = Running /\ Raising' = Raising
      /\ UNCHANGED <<blocked, deferred_blocked, next_id, handleVars, running_jobs, now>>
      /\ SchedTypeOK /\ Unique /\ Apart
  BY PcViews DEF ViewInv, TypeOK, Poll, FireTimers, jobVars
<1>1. CASE Poll /\ io_blocked # {}
  BY <1>0, <1>1, DrainIsSeen DEF Poll, Promise!Next
<1>2. CASE FireTimers /\ BlockingTimersOk /\ timer_blocked # {}
  BY <1>0, <1>2, TimersAreSeen DEF FireTimers, Promise!Next
<1>3. CASE UNCHANGED <<queue, parked_resume, parkVars, mailbox>>
  <2>1. UNCHANGED <<Started, Queued, Waits>>
    BY <1>0, <1>3, ViewKept
  <2> QED
    BY <1>0, <1>3, <2>1 DEF Promise!vars, handleVars
<1> QED
  BY <1>1, <1>2, <1>3 DEF Poll, FireTimers, parkVars, jobVars

\* The next coroutine is picked, or waited for.
LEMMA PickIsPromised ==
  ASSUME ViewInv, Pick
  PROVE  Promise!Next \/ UNCHANGED Promise!vars
<1>0. /\ TypeOK /\ SchedTypeOK /\ OutcomeInv /\ pc = "pick" /\ Unique /\ Apart /\ NoRepeat
      /\ Running = {} /\ Raising = None
  BY PcViews DEF ViewInv, TypeOK, Unique, Pick, PickReady, PumpIo,
                 SleepToNextTimer, PickNone
<1>1. CASE PickReady
  <2> DEFINE c == Head(queue)
  <2>1. /\ queue # <<>> /\ queue' = Tail(queue) /\ current_id' = c
        /\ parked_resume' = [parked_resume EXCEPT ![c] = None]
        /\ UNCHANGED <<parkVars, next_id, result, settled, jobVars, now>>
    BY <1>1 DEF PickReady
  <2>2. Queued' = Queued \ {c} /\ c \in Queued /\ c \in Coroutine
    BY <1>0, <2>1, TailMoves, ParkedAreCoroutines
  <2>3. Started' = Started /\ Waits' = Waits
    BY <2>1, ViewKept
  <2>4. /\ parked_resume[c] \in Resumes
        /\ CancelledOnResume(c) <=> c \in Green /\ cancel_requested[c] /\ parked_resume[c] # None
    BY <1>0, <2>2 DEF OutcomeInv, CancelledOnResume, Coroutine, Green, Main
  <2>5. /\ Running' = {c}
        /\ IF CancelledOnResume(c)
             THEN /\ cancel_requested' = [cancel_requested EXCEPT ![c] = FALSE]
                  /\ Raising' = Raise("cancelled")
             ELSE /\ UNCHANGED cancel_requested
                  /\ Raising' = IF parked_resume[c] \in {Raise("raised"), Raise("deadlock")}
                                  THEN parked_resume[c] ELSE None
    <3>1. CASE CancelledOnResume(c)
      BY <1>1, <2>1, <3>1, PcViews DEF PickReady, RaiseErr
    <3>2. CASE ~CancelledOnResume(c) /\ parked_resume[c].kind = "raise"
      <4>1. parked_resume[c] \in {Raise("raised"), Raise("deadlock")}
        BY <2>4, <3>2 DEF Resumes, Ends, Settlements, JobOutcomes, Value, Raise, None
      <4> QED
        BY <1>1, <2>1, <3>2, <4>1, PcViews DEF PickReady, RaiseErr
    <3>3. CASE ~CancelledOnResume(c) /\ parked_resume[c].kind # "raise"
      <4>1. parked_resume[c] \notin {Raise("raised"), Raise("deadlock")}
        BY <3>3 DEF Raise
      <4> QED
        BY <1>1, <2>1, <3>3, <4>1, PcViews DEF PickReady, Continue
    <3> QED
      BY <3>1, <3>2, <3>3
  <2> HIDE DEF c
  <2>6. Promise!Resume(c)
    BY <1>0, <2>1, <2>2, <2>3, <2>4, <2>5 DEF Promise!Resume, jobVars
  <2> QED
    BY <2>2, <2>6 DEF Promise!Next
<1>2. CASE PumpIo
  <2>1. /\ PollIoCompletions /\ pc' = pc
        /\ UNCHANGED <<blocked, timer_blocked, deferred_blocked, next_id, handleVars,
                       running_jobs, now>>
    BY <1>2 DEF PumpIo
  <2>2. Running' = Running /\ Raising' = Raising
    BY <1>0, <2>1, PcViews
  <2> QED
    BY <1>0, <2>1, <2>2, DrainIsSeen DEF Promise!Next
<1>3. CASE SleepToNextTimer
  <2>1. /\ WakeTimers(now) /\ pc' = pc
        /\ UNCHANGED <<blocked, io_blocked, deferred_blocked, next_id, handleVars, jobVars, now>>
    BY <1>3 DEF SleepToNextTimer
  <2>2. Running' = Running /\ Raising' = Raising
    BY <1>0, <2>1, PcViews
  <2> QED
    BY <1>0, <2>1, <2>2, TimersAreSeen DEF Promise!Next
<1>4. CASE PickNone
  <2>1. pc' = "ended" /\ UNCHANGED <<schedVars, handleVars, jobVars, now>>
    BY <1>4 DEF PickNone
  <2>2. UNCHANGED <<Started, Queued, Waits, Running, Raising>>
    BY <1>0, <2>1, ViewKept, PcViews DEF schedVars, parkVars
  <2> QED
    BY <2>1, <2>2 DEF Promise!vars, schedVars, handleVars, jobVars
<1> QED
  BY <1>1, <1>2, <1>3, <1>4 DEF Pick

\* A call returns.
LEMMA ReturnIsSeen ==
  ASSUME NEW j \in Jobs, Post(j)
  PROVE  Promise!Return(j)
<1>1. /\ j \in running_jobs /\ running_jobs' = running_jobs \ {j}
      /\ \E o \in JobOutcomes : mailbox' = [mailbox EXCEPT ![j] = o]
      /\ UNCHANGED <<schedVars, pc, in_flight, handleVars, now>>
  BY DEF Post
<1>2. UNCHANGED <<Started, Queued, Waits, Running, Raising>>
  BY <1>1, ViewKept DEF schedVars, parkVars, Running, Raising, HasThread
<1> QED
  BY <1>1, <1>2 DEF Promise!Return, schedVars, handleVars

\* A call returns, time passes, or nothing is left to happen.
LEMMA WorldIsPromised ==
  ASSUME ViewInv, (\E j \in Jobs : Post(j)) \/ Tick \/ UNCHANGED vars
  PROVE  Promise!Next \/ UNCHANGED Promise!vars
<1>1. CASE \E j \in Jobs : Post(j)
  BY <1>1, ReturnIsSeen DEF Promise!Next
<1>2. CASE Tick
  <2>1. /\ now' = now + 1 /\ now < MaxTime
        /\ UNCHANGED <<schedVars, pc, in_flight, handleVars, jobVars>>
    BY <1>2 DEF Tick
  <2>2. now' \in Time /\ now' > now
    BY <2>1, BoundsAssumption DEF ViewInv, TypeOK, Time
  <2>3. UNCHANGED <<Started, Queued, Waits, Running, Raising>>
    BY <2>1, ViewKept DEF schedVars, parkVars, Running, Raising, HasThread
  <2>4. Promise!Tick
    BY <2>1, <2>2, <2>3 DEF Promise!Tick, schedVars, handleVars, jobVars
  <2> QED
    BY <2>4 DEF Promise!Next
<1>3. CASE UNCHANGED vars
  <2>1. UNCHANGED <<schedVars, pc, in_flight, handleVars, jobVars, now>>
    BY <1>3 DEF vars, vmVars
  <2>2. UNCHANGED <<Started, Queued, Waits, Running, Raising>>
    BY <2>1, ViewKept DEF schedVars, parkVars, Running, Raising, HasThread
  <2> QED
    BY <2>1, <2>2 DEF Promise!vars, schedVars, handleVars, jobVars
<1> QED
  BY <1>1, <1>2, <1>3

-----------------------------------------------------------------------------
\* Every step of the scheduler is one that Awaiting allows, or is not seen.
LEMMA StepIsPromised == ViewInv /\ [Next]_vars => [Promise!Next]_(Promise!vars)
<1> SUFFICES ASSUME ViewInv, [Next]_vars PROVE Promise!Next \/ UNCHANGED Promise!vars
  OBVIOUS
<1> QED
  BY StayIsPromised, LeaveIsPromised, UnwindIsPromised, SafepointIsPromised, PickIsPromised,
     WorldIsPromised DEF Next, Terminated

\* Both begin with main on the thread and nothing else.
LEMMA StartIsSeen == Init => Promise!Init
<1> SUFFICES ASSUME Init PROVE Promise!Init
  OBVIOUS
<1>1. Started = {Main} /\ Running = {Main} /\ Queued = {} /\ Waits = {} /\ Raising = None
  BY DEF Init, SchedInit, Started, Running, Raising, HasThread, Queued, Waits, Main
<1> QED
  BY <1>1 DEF Init, SchedInit, Promise!Init

\* The scheduler keeps what Awaiting promises, whatever the program, the clock
\* and the workers do and however many coroutines, jobs and deferreds there
\* are: a wait ends only with the outcome of what it is for, when its time has
\* come, or by a request to cancel it that its coroutine then hears of, once;
\* everybody who waits for one thing is woken together; and no completion is
\* dropped that somebody awaits.
THEOREM AwaitingIsImplemented == Spec => ImplementsAwaiting
<1>1. Spec => []OutcomeInvs
  BY OutcomeInvariants
<1> QED
  BY <1>1, StartIsSeen, ActorView, StepIsPromised, PTL DEF Spec, ImplementsAwaiting, Promise!Spec

=============================================================================
