----------------------------- MODULE Reactor_proofs -----------------------------
(***************************************************************************)
(* Machine-checked proofs about the control of Reactor - the reactor's     *)
(* loop, its table, the two executors and the close - for any number of    *)
(* actors, calls, bytes and plans, whoever works on the socket at once:    *)
(*   TypeCorrect                      Spec => []TypeOK                     *)
(*   SafetyOfJobService               Spec => ImplementsJobService         *)
(*   NoOpIsForgottenAlways            Spec => []NoOpIsForgotten            *)
(*   CloseLeavesNobodyWaitingAlways   Spec => []CloseLeavesNobodyWaiting   *)
(***************************************************************************)
EXTENDS Reactor, TLAPS, FiniteSetTheorems, SequenceTheorems

-----------------------------------------------------------------------------
(* The invariants. *)

\* The reactor drives one call at a time, fresh from the channel or from the
\* table; besides it only calls on their actors' threads move.
CursorInv ==
  /\ at = "drive" <=> cur # None
  /\ cur # None => stage[cur] \in {"driven", "table"}
  /\ \A j \in Jobs : stage[j] = "driven" => cur = j
  /\ \A j \in Jobs : phase[j] # "idle" <=> Inline(j) \/ cur = j

\* The calls that are queued are those in the channel, each once.
QueueInv ==
  /\ \A i \in 1..Len(msgs) : msgs[i] # None => stage[msgs[i]] = "queued"
  /\ \A i, k \in 1..Len(msgs) : msgs[i] # None /\ msgs[i] = msgs[k] => i = k
  /\ \A j \in Jobs : stage[j] = "queued" => \E i \in 1..Len(msgs) : msgs[i] = j

\* A handle is registered for a call of the table, and armed only then.
TableInv ==
  /\ \A h \in Handles : reg[h] # None => stage[reg[h]] = "table" /\ HandleOf(reg[h]) = h
  /\ \A h \in armed : reg[h] # None
  /\ at = "wait" => batch = {}

\* How far a call is and what its coroutine does go together.
FateInv ==
  \A j \in Jobs : /\ fate[j] = "new" <=> stage[j] = "new"
                  /\ fate[j] = "inline" <=> Inline(j)
                  /\ fate[j] = "waiting" => InReactor(j)
                  /\ InReactor(j) => fate[j] \in {"waiting", "abandoned"}

\* Where a call is before it tests `closed`, and after.
Before == {"handle", "mode", "switch", "again", "store", "check"}
After  == {"buffer", "call", "asleep", "held", "push", "rest", "park"}

\* The reactor has a call that is past the test.
Past == (cur # None /\ phase[cur] \in After) \/ \E j \in Jobs : stage[j] = "table"

\* Once a socket is closed no call gets past the test of the flag, and those
\* that were past it are swept out by a Cancel still in the channel.
CloseInv ==
  /\ closed <=> closing # "no"
  /\ closing = "done" /\ Past => \E i \in 1..Len(msgs) : msgs[i] = None

\* Only a framed read puts bytes back or takes what is left.
PlaceInv == \A j \in Jobs : phase[j] \in {"push", "rest"} => op[j].name = "until"

\* The channel is emptied on every round, and whoever fills it later notifies.
Draining == at = "drain" \/ (at = "drive" /\ stage[cur] = "driven")
NewsInv  == msgs # <<>> => owed > 0 \/ notified \/ Draining

\* An exact read never has more than it asked for, and calls suit their socket.
SizeInv == \A j \in Jobs : /\ op[j].name = "exact" => Len(got[j]) <= op[j].n
                           /\ Suits(op[j], kind)

IInv == /\ TypeOK /\ SizeInv /\ CursorInv /\ PlaceInv /\ QueueInv /\ TableInv /\ FateInv
        /\ CloseInv /\ NewsInv /\ NoOpIsForgotten

-----------------------------------------------------------------------------
(* What a step does to the control. *)

Whats == {"ok", "closed", "eof", "io", "timeout"}

control == <<kind, op, stage, phase, fate, msgVars, loopVars, closed, closing>>

others == <<kind, op, msgVars, closed, closing>>

\* The reactor's calls go past the test only while the socket is open.
Allowed(j, to) == /\ to \in After => Inline(j) \/ phase[j] \in After \/ ~closed
                  /\ to \in {"push", "rest"} => op[j].name = "until"

Goes(j) ==
  /\ phase[j] # "idle"
  /\ \E to \in Before \cup After : phase' = [phase EXCEPT ![j] = to] /\ Allowed(j, to)
  /\ UNCHANGED <<stage, fate, loopVars, others>>

Ends(j) == phase[j] # "idle" /\ (\E what \in Whats : Done(j, what)) /\ UNCHANGED others

\* A new call enters the table.
Parks(j) ==
  /\ at = "drive" /\ cur = j /\ stage[j] = "driven" /\ phase[j] \in After
  /\ reg[HandleOf(j)] = None
  /\ reg' = [reg EXCEPT ![HandleOf(j)] = j]
  /\ armed' = armed \cup {HandleOf(j)}
  /\ stage' = [stage EXCEPT ![j] = "table"]
  /\ phase' = [phase EXCEPT ![j] = "idle"]
  /\ at' = "drain" /\ cur' = None
  /\ UNCHANGED <<fate, batch, others>>

Moves(j) == Goes(j) \/ Ends(j) \/ Parks(j) \/ CallInline(j) \/ Submit(j) \/ Abandon(j)

Turns == \/ Wait \/ DrainSubmit \/ DrainCancel \/ DrainEnd \/ Rearm \/ TakeEvent
         \/ EventsEnd \/ Notify \/ Close \/ UNCHANGED control

\* What a step of a call comes to: it goes on or it is over.
Outcome(j) ==
  \/ \E what \in Whats : Done(j, what)
  \/ \E to \in Before \cup After : GoOn(j, to) /\ Allowed(j, to)

\* A call that would block sleeps, waits for its handle, or gives up.
LEMMA WouldBlockOutcome ==
  ASSUME NEW j \in Jobs, phase[j] \in After, WouldBlock(j)
  PROVE  Outcome(j)
<1>1. CASE kind = "listener" /\ Inline(j)
  BY <1>1 DEF WouldBlock, Outcome, Allowed, Before, After
<1>2. CASE ~(kind = "listener" /\ Inline(j)) /\ phase[j] # "asleep" /\ ~nonblock
  BY <1>2 DEF WouldBlock, Outcome, Allowed, After
<1>3. CASE ~(kind = "listener" /\ Inline(j)) /\ ~(phase[j] # "asleep" /\ ~nonblock)
  BY <1>3 DEF WouldBlock, Outcome, Allowed, After, Whats
<1> QED
  BY <1>1, <1>2, <1>3

\* So does every step under a lock or in a system call.
LEMMA IoOutcome ==
  ASSUME NEW j \in Jobs, Io(j)
  PROVE  phase[j] \in After /\ Outcome(j)
<1>w. \A what \in {"ok", "closed", "eof"} : what \in Whats
  BY DEF Whats
<1>b. {"buffer", "call", "asleep", "held", "push", "rest"} \subseteq After /\ "check" \in Before
  BY DEF After, Before
\* A step past the test of `closed` may go anywhere but back to idleness.
<1>g. ASSUME NEW to \in Before \cup After, phase[j] \in After, GoOn(j, to),
             to \in {"push", "rest"} => op[j].name = "until"
      PROVE  Outcome(j)
  BY <1>g DEF Outcome, Allowed
<1>d. ASSUME NEW what \in Whats, Done(j, what) PROVE Outcome(j)
  BY <1>d DEF Outcome
<1>1. CASE LookInBuffer(j)
  <2>1. phase[j] \in After
    BY <1>1, <1>b DEF LookInBuffer
  <2>2. CASE ~FromBuffer(j)
    BY <1>1, <1>b, <1>g, <2>1, <2>2 DEF LookInBuffer
  <2>3. CASE FromBuffer(j)
    <3>1. AfterBuffer(j)
      BY <1>1, <2>3 DEF LookInBuffer
    <3>2. Done(j, "ok") \/ GoOn(j, "call") \/ GoOn(j, "check") \/ GoOn(j, "buffer")
      BY <3>1 DEF AfterBuffer, NextRound
    <3> QED
      BY <1>b, <1>w, <1>g, <1>d, <2>1, <3>2
  <2> QED
    BY <2>1, <2>2, <2>3
<1>2. CASE Push(j)
  BY <1>2, <1>b, <1>g DEF Push
<1>3. CASE TakeRest(j)
  BY <1>3, <1>b, <1>w, <1>d DEF TakeRest
<1>4. CASE Read(j)
  <2>1. phase[j] \in After
    BY <1>4, <1>b DEF Read, InCall
  <2>2. CASE ReadBytes(j)
    <3>1. Done(j, "ok") \/ (GoOn(j, "push") /\ op[j].name = "until") \/ GoOn(j, "check") \/ GoOn(j, "buffer")
      BY <2>2 DEF ReadBytes, NextRound
    <3> QED
      BY <1>b, <1>w, <1>g, <1>d, <2>1, <3>1
  <2>3. CASE ReadEnd(j)
    <3>1. Done(j, "ok") \/ Done(j, "eof") \/ (GoOn(j, "rest") /\ op[j].name = "until")
      BY <2>3 DEF ReadEnd
    <3> QED
      BY <1>b, <1>w, <1>g, <1>d, <2>1, <3>1
  <2>4. CASE ReadBroken(j)
    BY <1>w, <1>d, <2>1, <2>4 DEF ReadBroken
  <2>5. CASE ReadWaits(j)
    BY <2>1, <2>5, WouldBlockOutcome DEF ReadWaits
  <2> QED
    BY <1>4, <2>1, <2>2, <2>3, <2>4, <2>5 DEF Read
<1>5. CASE Write(j)
  <2>1. phase[j] \in After
    BY <1>5, <1>b DEF Write, InCall
  <2>2. CASE WriteBytes(j)
    <3>1. GoOn(j, "asleep") \/ GoOn(j, "held") \/ GoOn(j, "call")
      BY <2>2 DEF WriteBytes
    <3> QED
      BY <1>b, <1>g, <2>1, <3>1
  <2>3. CASE WriteEnd(j) \/ WriteBroken(j)
    BY <1>w, <1>d, <2>1, <2>3 DEF WriteEnd, WriteBroken
  <2>4. CASE WriteWaits(j)
    BY <2>1, <2>4, WouldBlockOutcome DEF WriteWaits
  <2> QED
    BY <1>5, <2>1, <2>2, <2>3, <2>4 DEF Write
<1>6. CASE TakeItem(j)
  <2>1. phase[j] \in After
    BY <1>6, <1>b DEF TakeItem
  <2>2. Done(j, "ok") \/ WouldBlock(j)
    BY <1>6 DEF TakeItem
  <2> QED
    BY <1>w, <1>d, <2>1, <2>2, WouldBlockOutcome
<1> QED
  BY <1>1, <1>2, <1>3, <1>4, <1>5, <1>6 DEF Io

\* The two executors' steps: the call goes on or is over, and nothing else of the
\* control changes.
LEMMA CallStepIs ==
  ASSUME NEW j \in Jobs, CallStep(j) \/ TimeOut(j)
  PROVE  Goes(j) \/ Ends(j)
<1>1. phase[j] # "idle" /\ UNCHANGED others
  <2>1. CASE Io(j)
    BY <2>1, IoOutcome DEF Io, others, After
  <2>2. CASE TestFlag(j) \/ SwitchMode(j) \/ StoreFlag(j) \/ CheckClosed(j) \/ TimeOut(j)
    BY <2>2 DEF TestFlag, SwitchMode, StoreFlag, CheckClosed, TimeOut, others, sockVars
  <2> QED
    BY <2>1, <2>2 DEF CallStep
<1>2. Outcome(j)
  <2>1. CASE TestFlag(j)
    BY <2>1 DEF TestFlag, Outcome, Allowed, Before, After
  <2>2. CASE SwitchMode(j)
    BY <2>2 DEF SwitchMode, Outcome, Allowed, Before, After
  <2>3. CASE StoreFlag(j)
    BY <2>3 DEF StoreFlag, Outcome, Allowed, Before, After
  <2>4. CASE CheckClosed(j)
    BY <2>4 DEF CheckClosed, Outcome, Allowed, Whats, After
  <2>5. CASE TimeOut(j)
    BY <2>5 DEF TimeOut, Outcome, Allowed, Whats, After
  <2>6. CASE Io(j)
    BY <2>6, IoOutcome
  <2> QED
    BY <2>1, <2>2, <2>3, <2>4, <2>5, <2>6 DEF CallStep
<1>3. CASE \E what \in Whats : Done(j, what)
  BY <1>1, <1>3 DEF Ends
<1>4. CASE \E to \in Before \cup After : GoOn(j, to) /\ Allowed(j, to)
  BY <1>1, <1>4 DEF Goes, GoOn
<1> QED
  BY <1>2, <1>3, <1>4 DEF Outcome

\* Every step moves one call or is a turn of the loop, the channel or the close: the
\* invariants of the control are proved by these cases, not by the actions.
LEMMA StepIs ==
  ASSUME TypeOK, CursorInv, [Next]_vars
  PROVE  (\E j \in Jobs : Moves(j)) \/ Turns
<1>1. CASE Loop
  <2>1. CASE Register
    <3>1. cur \in Jobs /\ at = "drive" /\ stage[cur] = "driven" /\ phase[cur] = "park"
          /\ UNCHANGED others
      BY <2>1 DEF Register, CursorInv, TypeOK, others, sockVars
    <3>2. CASE reg[HandleOf(cur)] # None
      <4>1. Ends(cur)
        BY <2>1, <3>1, <3>2 DEF Register, Ends, Whats
      <4> QED
        BY <3>1, <4>1 DEF Moves
    <3>3. CASE reg[HandleOf(cur)] = None
      <4>1. Parks(cur)
        BY <2>1, <3>1, <3>3 DEF Register, Parks, Leave, After
      <4> QED
        BY <3>1, <4>1 DEF Moves
    <3> QED
      BY <3>2, <3>3
  <2>2. ASSUME NEW j \in Jobs, InReactor(j) /\ CallStep(j) PROVE Moves(j)
    BY <2>2, CallStepIs DEF Moves
  <2> QED
    BY <1>1, <2>1, <2>2 DEF Loop, Turns
<1>2. CASE Notify \/ Close
  BY <1>2 DEF Turns
<1>3. CASE Peer \/ Quiet \/ UNCHANGED vars
  BY <1>3 DEF Peer, PeerSends, PeerEnds, PeerReceives, Quiet, Turns, control, vars, callVars, sockVars
<1>4. ASSUME NEW j \in Jobs, Submit(j) \/ CallInline(j) \/ InlineStep(j) \/ TimeOut(j) \/ Abandon(j)
      PROVE  Moves(j)
  BY <1>4, CallStepIs DEF Moves, InlineStep
<1> QED
  BY <1>1, <1>2, <1>3, <1>4 DEF Next

-----------------------------------------------------------------------------
(* Types *)

Fates == {"new", "inline", "waiting", "answered", "resumed", "abandoned"}
Labels == {"wait", "drain", "drive", "events"}

\* The handle of a call is one of its socket's, and the control has its types.
LEMMA HandleType ==
  ASSUME TypeOK, NEW j \in Jobs
  PROVE  HandleOf(j) \in Handles
  BY DEF HandleOf, Half, Handles

\* The handle a call waits for does not change.
LEMMA HandleStays ==
  ASSUME UNCHANGED <<kind, op>>, NEW j
  PROVE  HandleOf(j)' = HandleOf(j)
  BY DEF HandleOf, Half

ControlOK ==
  /\ stage \in [Jobs -> Stages] /\ phase \in [Jobs -> Phases] /\ fate \in [Jobs -> Fates]
  /\ msgs \in Seq(Jobs \cup {None}) /\ owed \in Nat /\ notified \in BOOLEAN
  /\ at \in Labels /\ cur \in Jobs \cup {None} /\ batch \subseteq Jobs
  /\ reg \in [Handles -> Jobs \cup {None}] /\ armed \subseteq Handles
  /\ closed \in BOOLEAN /\ closing \in {"no", "stored", "shut", "done"}

\* The control's share of the type invariant.
LEMMA TypeHasControl == TypeOK => ControlOK
  BY DEF TypeOK, ControlOK, Fates, Labels

\* Deregistering keeps the types of the registrations.
LEMMA DeregisterTypes ==
  ASSUME TypeOK, NEW js, Deregister(js)
  PROVE  reg' \in [Handles -> Jobs \cup {None}] /\ armed' \subseteq Handles
  BY DEF TypeOK, Deregister

\* What becomes of the coroutine whose call is over.
Told(f) == IF f = "inline" THEN "resumed" ELSE IF f = "waiting" THEN "answered" ELSE f

\* A call that is over leaves the table and the loop goes on; one on its actor's
\* thread touches nothing of the loop.
LEMMA EndsMoves ==
  ASSUME TypeOK, CursorInv, NEW j \in Jobs, Ends(j)
  PROVE  /\ stage' = [stage EXCEPT ![j] = "done"]
         /\ phase' = [phase EXCEPT ![j] = "idle"]
         /\ fate' = [fate EXCEPT ![j] = Told(fate[j])]
         /\ Inline(j) => UNCHANGED loopVars
         /\ ~Inline(j) => /\ cur = j /\ at = "drive" /\ stage[j] \in {"driven", "table"}
                          /\ Deregister({j}) /\ cur' = None /\ batch' = batch
                          /\ at' = IF stage[j] = "table" THEN "events" ELSE "drain"
<1>1. PICK what \in Whats : Done(j, what)
  BY DEF Ends
<1>2. Answer(j, what)
  BY <1>1 DEF Done
<1>3. fate' = [fate EXCEPT ![j] = Told(fate[j])]
  BY <1>2 DEF Answer, Told, TypeOK
<1>4. CASE Inline(j)
  BY <1>1, <1>2, <1>3, <1>4 DEF Done, Answer
<1>5. CASE ~Inline(j)
  <2>1. cur = j /\ j # None
    BY <1>5, ReactorAssumption DEF Ends, CursorInv
  <2> QED
    BY <1>1, <1>2, <1>3, <1>5, <2>1 DEF Done, Answer, Leave, CursorInv
<1> QED
  BY <1>4, <1>5

\* Every step keeps the types of the control.
LEMMA ControlStep ==
  ASSUME TypeOK, CursorInv, TableInv, [Next]_vars
  PROVE  ControlOK'
<1> USE DEF ControlOK
<1>c. ControlOK
  BY TypeHasControl
<1>1. ASSUME NEW j \in Jobs, Ends(j) PROVE ControlOK'
  <2>1. fate' \in [Jobs -> Fates] /\ stage' \in [Jobs -> Stages] /\ phase' \in [Jobs -> Phases]
    BY <1>c, <1>1, EndsMoves DEF Fates, Stages, Phases, Told
  <2>2. UNCHANGED <<msgVars, closed, closing>>
    BY <1>1 DEF Ends, others
  <2>3. CASE Inline(j)
    BY <1>c, <1>1, <2>1, <2>2, <2>3, EndsMoves DEF msgVars, loopVars
  <2>4. CASE ~Inline(j)
    <3>1. reg' \in [Handles -> Jobs \cup {None}] /\ armed' \subseteq Handles
      BY <1>1, <2>4, EndsMoves, DeregisterTypes
    <3>2. at' \in Labels /\ cur' = None /\ batch' = batch
      BY <1>1, <2>4, EndsMoves DEF Labels
    <3> QED
      BY <1>c, <2>1, <2>2, <3>1, <3>2 DEF msgVars
  <2> QED
    BY <2>3, <2>4
<1>2. ASSUME NEW j \in Jobs, Goes(j) PROVE ControlOK'
  <2>1. phase' \in [Jobs -> Phases]
    BY <1>c, <1>2 DEF Goes, Before, After, Phases
  <2> QED
    BY <1>c, <1>2, <2>1 DEF Goes, others, msgVars, loopVars
<1>3. ASSUME NEW j \in Jobs, Parks(j) PROVE ControlOK'
  <2>1. /\ stage' \in [Jobs -> Stages] /\ phase' \in [Jobs -> Phases]
        /\ reg' \in [Handles -> Jobs \cup {None}] /\ armed' \subseteq Handles
    BY <1>c, <1>3, HandleType DEF Parks, Stages, Phases
  <2> QED
    BY <1>c, <1>3, <2>1 DEF Parks, others, msgVars, Labels
<1>5. ASSUME NEW j \in Jobs, CallInline(j) \/ Submit(j) \/ Abandon(j) PROVE ControlOK'
  <2>1. stage' \in [Jobs -> Stages] /\ phase' \in [Jobs -> Phases] /\ fate' \in [Jobs -> Fates]
    BY <1>c, <1>5 DEF CallInline, Submit, Abandon, Stages, Phases, Fates
  <2>2. msgs' \in Seq(Jobs \cup {None}) /\ owed' \in Nat /\ notified' = notified
    <3>1. CASE Submit(j)
      <4>1. Append(msgs, j) \in Seq(Jobs \cup {None})
        BY <1>c
      <4> QED
        BY <1>c, <3>1, <4>1 DEF Submit
    <3>2. CASE CallInline(j) \/ Abandon(j)
      BY <1>c, <3>2 DEF CallInline, Abandon, msgVars
    <3> QED
      BY <1>5, <3>1, <3>2
  <2>3. UNCHANGED <<loopVars, sockVars>>
    BY <1>5 DEF CallInline, Submit, Abandon
  <2> QED
    BY <1>c, <2>1, <2>2, <2>3 DEF loopVars, sockVars
<1>6. CASE UNCHANGED control
  BY <1>c, <1>6 DEF control, msgVars, loopVars
<1>7. CASE Wait
  <2>1. PICK hs \in SUBSET {h \in armed : Ready(h)} :
          batch' = {reg[h] : h \in hs} /\ armed' = armed \ hs
    BY <1>7 DEF Wait
  <2>2. batch' \subseteq Jobs /\ armed' \subseteq Handles
    BY <1>c, <2>1 DEF TableInv
  <2>3. UNCHANGED <<stage, phase, fate, msgs, owed, cur, reg, sockVars>> /\ at' = "drain"
        /\ notified' = FALSE
    BY <1>7 DEF Wait, Goto, callVars
  <2> QED
    BY <1>c, <2>2, <2>3 DEF sockVars, Labels
<1>8. CASE DrainSubmit
  <2>1. Head(msgs) \in Jobs /\ Tail(msgs) \in Seq(Jobs \cup {None})
    BY <1>c, <1>8 DEF DrainSubmit
  <2> QED
    BY <1>c, <1>8, <2>1 DEF DrainSubmit, Goto, Stages, Phases, Labels, sockVars
<1>9. CASE DrainCancel
  <2>1. reg' \in [Handles -> Jobs \cup {None}] /\ armed' \subseteq Handles
    BY <1>9, DeregisterTypes DEF DrainCancel
  <2>2. Tail(msgs) \in Seq(Jobs \cup {None})
    BY <1>c, <1>9 DEF DrainCancel
  <2>3. stage' \in [Jobs -> Stages] /\ fate' \in [Jobs -> Fates]
    BY <1>c, <1>9 DEF DrainCancel, Stages, Fates
  <2> QED
    BY <1>c, <1>9, <2>1, <2>2, <2>3 DEF DrainCancel, sockVars
<1>10. CASE DrainEnd \/ EventsEnd
  BY <1>c, <1>10 DEF DrainEnd, EventsEnd, Goto, Labels, callVars, msgVars, sockVars
<1>11. CASE TakeEvent
  <2>1. PICK j \in batch :
          /\ batch' = batch \ {j}
          /\ \/ cur' = j /\ at' = "drive" /\ phase' = [phase EXCEPT ![j] = "check"]
             \/ UNCHANGED <<cur, at, phase>>
    BY <1>11 DEF TakeEvent, Goto
  <2>2. phase' \in [Jobs -> Phases] /\ cur' \in Jobs \cup {None} /\ at' \in Labels
        /\ batch' \subseteq Jobs
    BY <1>c, <2>1 DEF Phases, Labels
  <2>3. UNCHANGED <<stage, fate, msgVars, reg, armed, sockVars>>
    BY <1>11 DEF TakeEvent
  <2> QED
    BY <1>c, <2>2, <2>3 DEF msgVars, sockVars
<1>12. CASE Rearm
  <2>1. cur \in Jobs
    BY <1>c, <1>12 DEF Rearm, CursorInv
  <2>2. armed' \subseteq Handles /\ phase' \in [Jobs -> Phases] /\ at' \in Labels /\ cur' = None
    BY <1>c, <1>12, <2>1, HandleType DEF Rearm, Leave, Labels, Phases
  <2> QED
    BY <1>c, <1>12, <2>2 DEF Rearm, msgVars, sockVars
<1>13. CASE Notify
  BY <1>c, <1>13 DEF Notify, callVars, loopVars, sockVars
<1>14. CASE Close
  <2>1. msgs' \in Seq(Jobs \cup {None}) /\ owed' \in Nat /\ notified' = notified
    <3>1. Append(msgs, None) \in Seq(Jobs \cup {None})
      BY <1>c
    <3>2. \/ UNCHANGED <<msgs, owed, notified>>
          \/ msgs' = Append(msgs, None) /\ owed' = owed + 1 /\ notified' = notified
      <4>1. CASE UNCHANGED msgVars
        BY <4>1 DEF msgVars
      <4>2. CASE UNCHANGED notified /\ CloseStep("shut", "done")
        BY <1>14, <4>2 DEF Close, CloseStep, msgVars
      <4> QED
        BY <1>14, <4>1, <4>2 DEF Close
    <3>3. msgs' \in Seq(Jobs \cup {None})
      BY <1>c, <3>1, <3>2, Zenon
    <3>4. owed' \in Nat /\ notified' = notified
      BY <1>c, <3>2
    <3> QED
      BY <3>3, <3>4
  <2>2. closed' \in BOOLEAN /\ closing' \in {"no", "stored", "shut", "done"}
    BY <1>c, <1>14 DEF Close, CloseStep
  <2>3. UNCHANGED <<stage, phase, fate, loopVars>>
    BY <1>14 DEF Close, callVars
  <2> QED
    BY <1>c, <2>1, <2>2, <2>3 DEF loopVars
<1> HIDE DEF ControlOK
<1> QED
  BY <1>1, <1>2, <1>3, <1>5, <1>6, <1>7, <1>8, <1>9, <1>10, <1>11, <1>12, <1>13, <1>14, StepIs
  DEF Moves, Turns

-----------------------------------------------------------------------------
(* Numbers and bytes *)

Numbers == /\ came \in 0..MaxCame /\ taken \in 0..came /\ handed \in 0..taken
           /\ room \in 0..MaxRoom /\ unsent \in 0..TlsRoom

\* A nonempty set of naturals has a smallest member.
LEMMA SmallestMember ==
  ASSUME NEW S \in SUBSET Nat, S # {}
  PROVE  \E n \in S : \A m \in S : n <= m
<1> DEFINE R == OpToRel(<, Nat)
<1>1. IsWellFoundedOn(R, Nat)
  BY NatLessThanWellFounded
<1>2. \A m, n \in Nat : m < n => <<m, n>> \in R
  BY DEF OpToRel
<1> HIDE DEF R
<1>3. PICK n \in S : \A m \in S : ~(<<m, n>> \in R)
  BY <1>1, WFMin
<1>4. ASSUME NEW m \in S PROVE n <= m
  <2>1. ~(m < n)
    BY <1>2, <1>3
  <2> QED
    BY <2>1
<1> QED
  BY <1>4

\* The place of the first delimiter of the buffer, where there is one.
LEMMA FirstDelimIsFirst ==
  ASSUME TypeOK, HasDelim
  PROVE  /\ FirstDelim \in 1..Len(buf) /\ buf[FirstDelim] \in Delims
         /\ \A k \in 1..(FirstDelim - 1) : buf[k] \notin Delims
<1> DEFINE S == {i \in 1..Len(buf) : buf[i] \in Delims}
<1>1. Len(buf) \in Nat /\ DOMAIN buf = 1..Len(buf)
  BY DEF TypeOK
<1>2. S \in SUBSET Nat /\ S # {}
  BY <1>1 DEF HasDelim
<1> HIDE DEF S
<1>3. PICK n \in S : \A m \in S : n <= m
  BY <1>2, SmallestMember
<1> USE DEF S
<1>4. n \in DOMAIN buf /\ buf[n] \in Delims
  BY <1>1, <1>3
<1>5. \A k \in 1..(n - 1) : buf[k] \notin Delims
  <2> SUFFICES ASSUME NEW k \in 1..(n - 1), buf[k] \in Delims PROVE FALSE
    OBVIOUS
  <2>1. k \in S /\ n \in Nat
    BY <1>1, <1>3
  <2>2. n <= k
    BY <1>3, <2>1
  <2> QED
    BY <2>1, <2>2
<1> QED
  BY <1>1, <1>4, <1>5 DEF FirstDelim

\* A reader never asks for less than nothing: an exact read does not have too much.
LEMMA WantedIsNat ==
  ASSUME TypeOK, SizeInv, NEW j \in Jobs
  PROVE  Wanted(j) \in Nat
<1>1. op[j].n \in Nat /\ Len(got[j]) \in Nat /\ MaxCame \in Nat
  BY ReactorAssumption DEF TypeOK, SocketOp
<1>2. CASE op[j].name = "chunk"
  BY <1>1, <1>2 DEF Wanted
<1>3. CASE op[j].name = "exact"
  <2>1. Len(got[j]) <= op[j].n
    BY <1>3 DEF SizeInv
  <2> QED
    BY <1>1, <1>3, <2>1 DEF Wanted
<1>4. CASE op[j].name \notin {"chunk", "exact"}
  BY <1>1, <1>4 DEF Wanted
<1> QED
  BY <1>2, <1>3, <1>4

\* The kernel's counters as the type invariant bounds them.
LEMMA TypeHasNumbers ==
  ASSUME TypeOK
  PROVE  Numbers /\ MaxCame \in Nat /\ MaxRoom \in Nat /\ TlsRoom \in Nat
  BY ReactorAssumption DEF TypeOK, Numbers

\* What a read hands over is there.
LEMMA NextHandedBounds ==
  ASSUME TypeOK, NEW n \in Nat
  PROVE  /\ NextHanded(n) \in handed..came /\ NextHanded(n) - handed <= n
         /\ kind = "tls" /\ handed < taken => NextHanded(n) <= taken
  BY TypeHasNumbers DEF NextHanded, Lesser, Numbers

\* Receiving keeps the kernel's counters in order, records decrypted ahead included.
LEMMA ReceiveNumbers ==
  ASSUME TypeOK, NEW n \in Nat, NeedsFlush => unsent <= room, Receive(n)
  PROVE  Numbers' /\ handed' = NextHanded(n) /\ UNCHANGED <<came, eof, shut>>
<1>1. /\ came \in 0..MaxCame /\ taken \in 0..came /\ handed \in 0..taken
      /\ room \in 0..MaxRoom /\ unsent \in 0..TlsRoom
      /\ MaxCame \in Nat /\ MaxRoom \in Nat /\ TlsRoom \in Nat
  BY TypeHasNumbers DEF Numbers
<1>2. handed' = NextHanded(n) /\ UNCHANGED <<came, eof, shut>>
  BY DEF Receive
<1>3. PICK h \in Nat : h = NextHanded(n)
  BY <1>1, NextHandedBounds
<1>4. h >= handed /\ h <= came /\ (kind = "tls" /\ handed < taken => h <= taken)
  BY <1>1, <1>3, NextHandedBounds
<1>5. taken' \in 0..came /\ h \in 0..taken'
  <2>1. CASE kind = "tls" /\ handed = taken
    BY <1>1, <1>4, <2>1 DEF Receive
  <2>2. CASE kind = "tls" /\ handed # taken
    BY <1>1, <1>4, <2>2 DEF Receive
  <2>3. CASE kind # "tls"
    BY <1>1, <1>3, <1>4, <2>3 DEF Receive
  <2> QED
    BY <2>1, <2>2, <2>3
<1>6. room' \in 0..MaxRoom /\ unsent' \in 0..TlsRoom
  <2>1. CASE NeedsFlush
    BY <1>1, <2>1 DEF Receive, Flushed
  <2>2. CASE ~NeedsFlush
    BY <1>1, <2>2 DEF Receive, Flushed
  <2> QED
    BY <2>1, <2>2
<1> QED
  BY <1>1, <1>2, <1>3, <1>5, <1>6 DEF Numbers

\* The bytes numbered m + 1 to n, one by one.
LEMMA IdsAre ==
  ASSUME NEW m \in Nat, NEW n \in Nat, m <= n
  PROVE  /\ Ids(m + 1, n) \in Seq((m + 1)..n) /\ Len(Ids(m + 1, n)) = n - m
         /\ \A i \in 1..(n - m) : Ids(m + 1, n)[i] = m + i
<1>1. n - m \in Nat /\ n - (m + 1) + 1 = n - m
  OBVIOUS
<1>2. Ids(m + 1, n) = [i \in 1..(n - m) |-> m + 1 + i - 1]
  BY <1>1 DEF Ids
<1>3. \A i \in 1..(n - m) : m + 1 + i - 1 = m + i /\ m + i \in (m + 1)..n
  OBVIOUS
<1>4. Ids(m + 1, n) \in [1..(n - m) -> (m + 1)..n]
  BY <1>2, <1>3
<1>5. Ids(m + 1, n) \in Seq((m + 1)..n)
  BY <1>1, <1>4
<1>6. Len(Ids(m + 1, n)) = n - m
  BY <1>1, <1>4, <1>5, LenProperties
<1> QED
  BY <1>2, <1>3, <1>5, <1>6

\* What is taken from the buffer is in it, and is not more than an exact read lacks.
LEMMA ShareBounds ==
  ASSUME TypeOK, SizeInv, NEW j \in Jobs, FromBuffer(j)
  PROVE  /\ Share(j) \in 0..Len(buf)
         /\ op[j].name = "exact" => Len(got[j]) + Share(j) <= op[j].n
<1>1. Len(buf) \in Nat /\ Wanted(j) \in Nat /\ Len(got[j]) \in Nat /\ op[j].n \in Nat
  BY WantedIsNat DEF TypeOK, SocketOp
<1>2. CASE op[j].name = "until"
  <2>1. HasDelim
    BY <1>2 DEF FromBuffer
  <2> QED
    BY <1>1, <1>2, <2>1, FirstDelimIsFirst DEF Share
<1>3. CASE op[j].name = "exact"
  BY <1>1, <1>3 DEF Share, Lesser, Wanted
<1>4. CASE op[j].name \notin {"until", "exact"}
  BY <1>1, <1>4 DEF Share, Lesser
<1> QED
  BY <1>2, <1>3, <1>4

\* A sequence cut in two.
LEMMA Cut ==
  ASSUME NEW S, NEW s \in Seq(S), NEW n \in 0..Len(s)
  PROVE  /\ SubSeq(s, 1, n) \in Seq(S) /\ Len(SubSeq(s, 1, n)) = n
         /\ \A i \in 1..n : SubSeq(s, 1, n)[i] = s[i]
         /\ SubSeq(s, n + 1, Len(s)) \in Seq(S) /\ Len(SubSeq(s, n + 1, Len(s))) = Len(s) - n
         /\ \A i \in 1..(Len(s) - n) : SubSeq(s, n + 1, Len(s))[i] = s[n + i]
<1>1. Len(s) \in Nat /\ n \in Nat /\ \A i \in 1..Len(s) : s[i] \in S
  OBVIOUS
<1>2. /\ SubSeq(s, 1, n) \in Seq(S) /\ Len(SubSeq(s, 1, n)) = IF 1 <= n THEN n - 1 + 1 ELSE 0
      /\ \A i \in 1..(n - 1 + 1) : SubSeq(s, 1, n)[i] = s[1 + i - 1]
  <2>1. \A i \in 1..n : s[i] \in S
    BY <1>1
  <2> QED
    BY <1>1, <2>1, SubSeqProperties
<1>3. /\ SubSeq(s, n + 1, Len(s)) \in Seq(S)
      /\ Len(SubSeq(s, n + 1, Len(s))) = IF n + 1 <= Len(s) THEN Len(s) - (n + 1) + 1 ELSE 0
      /\ \A i \in 1..(Len(s) - (n + 1) + 1) : SubSeq(s, n + 1, Len(s))[i] = s[n + 1 + i - 1]
  <2>1. \A i \in (n + 1)..Len(s) : s[i] \in S
    BY <1>1
  <2>2. n + 1 \in Int /\ Len(s) \in Int
    BY <1>1
  <2> QED
    BY <2>1, <2>2, SubSeqProperties
<1>4. \A i \in 1..n : 1 + i - 1 = i
  BY <1>1
<1>5. Len(s) - (n + 1) + 1 = Len(s) - n /\ \A i \in 1..(Len(s) - n) : n + 1 + i - 1 = n + i
  BY <1>1
<1>6. n - 1 + 1 = n
  BY <1>1
<1>7. \A i \in 1..n : SubSeq(s, 1, n)[i] = s[i]
  BY <1>2, <1>4, <1>6
<1>8. \A i \in 1..(Len(s) - n) : SubSeq(s, n + 1, Len(s))[i] = s[n + i]
  BY <1>3, <1>5
<1>9. Len(SubSeq(s, 1, n)) = n
  BY <1>1, <1>2
<1>10. Len(SubSeq(s, n + 1, Len(s))) = Len(s) - n
  BY <1>1, <1>3
<1> QED
  BY <1>2, <1>3, <1>7, <1>8, <1>9, <1>10

\* The bytes a call has and those in the buffer.
Bytes == /\ got \in [Jobs -> Seq(1..MaxCame)] /\ buf \in Seq(1..MaxCame)
         /\ SizeInv

Sending == sent \in [Jobs -> Nat] /\ \A j \in Jobs : sent[j] <= op[j].n

\* One call's bytes and the buffer may change as long as both stay bytes.
LEMMA BytesKept ==
  ASSUME TypeOK, SizeInv, UNCHANGED <<kind, op>>, NEW j \in Jobs, NEW G \in Seq(1..MaxCame),
         got' = [got EXCEPT ![j] = G], buf' \in Seq(1..MaxCame),
         op[j].name = "exact" => Len(G) <= op[j].n
  PROVE  Bytes'
<1>1. got \in [Jobs -> Seq(1..MaxCame)]
  BY DEF TypeOK
<1>2. got' \in [Jobs -> Seq(1..MaxCame)] /\ got'[j] = G /\ \A k \in Jobs \ {j} : got'[k] = got[k]
  BY <1>1
<1>3. SizeInv'
  <2> SUFFICES ASSUME NEW k \in Jobs, op[k].name = "exact" PROVE Len(got'[k]) <= op[k].n
    BY DEF SizeInv, Suits
  <2>1. CASE k = j
    BY <1>2, <2>1
  <2>2. CASE k # j
    BY <1>2, <2>2 DEF SizeInv
  <2> QED
    BY <2>1, <2>2
<1> QED
  BY <1>2, <1>3 DEF Bytes

\* A look in the buffer keeps the types of what holds bytes.
LEMMA LookInBufferStep ==
  ASSUME TypeOK, SizeInv, NEW j \in Jobs, LookInBuffer(j), UNCHANGED <<kind, op>>
  PROVE  Bytes'
<1>t. buf \in Seq(1..MaxCame) /\ got[j] \in Seq(1..MaxCame) /\ got \in [Jobs -> Seq(1..MaxCame)]
  BY DEF TypeOK
<1>1. CASE FromBuffer(j)
  <2> DEFINE n == Share(j)
             p == SubSeq(buf, 1, n)
  <2>1. n \in 0..Len(buf) /\ (op[j].name = "exact" => Len(got[j]) + n <= op[j].n)
    BY <1>1, ShareBounds
  <2>2. got' = [got EXCEPT ![j] = got[j] \o p] /\ buf' = SubSeq(buf, n + 1, Len(buf))
    BY <1>1 DEF LookInBuffer
  <2> HIDE DEF n
  <2>3. p \in Seq(1..MaxCame) /\ Len(p) = n /\ SubSeq(buf, n + 1, Len(buf)) \in Seq(1..MaxCame)
    BY <1>t, <2>1, Cut
  <2> HIDE DEF p
  <2>4. got[j] \o p \in Seq(1..MaxCame) /\ Len(got[j] \o p) = Len(got[j]) + n
    BY <1>t, <2>3, ConcatProperties
  <2> QED
    BY <2>1, <2>2, <2>3, <2>4, BytesKept
<1>2. CASE ~FromBuffer(j)
  <2>1. UNCHANGED <<got, buf>>
    BY <1>2 DEF LookInBuffer
  <2> QED
    BY <1>t, <2>1 DEF Bytes, SizeInv, Suits
<1> QED
  BY <1>1, <1>2

\* So does putting back what a framed read has, or taking what is left.
LEMMA PushStep ==
  ASSUME TypeOK, SizeInv, PlaceInv, NEW j \in Jobs, Push(j) \/ TakeRest(j), UNCHANGED <<kind, op>>
  PROVE  Bytes'
<1>t. /\ buf \in Seq(1..MaxCame) /\ got[j] \in Seq(1..MaxCame) /\ got \in [Jobs -> Seq(1..MaxCame)]
      /\ <<>> \in Seq(1..MaxCame) /\ buf \o got[j] \in Seq(1..MaxCame)
  BY DEF TypeOK
<1>1. op[j].name # "exact"
  BY DEF Push, TakeRest, PlaceInv
<1>2. CASE Push(j)
  BY <1>t, <1>1, <1>2, BytesKept DEF Push
<1>3. CASE TakeRest(j)
  BY <1>t, <1>1, <1>3, BytesKept DEF TakeRest
<1> QED
  BY <1>2, <1>3

\* A sequence over a set is one over a larger set.
LEMMA SeqWidens ==
  ASSUME NEW S, NEW T, S \subseteq T, NEW s \in Seq(S)
  PROVE  s \in Seq(T)
<1>1. Len(s) \in Nat /\ s \in [1..Len(s) -> S]
  OBVIOUS
<1>2. s \in [1..Len(s) -> T]
  BY <1>1
<1> QED
  BY <1>1, <1>2

\* What was read, as a sequence.
LEMMA NewBytes ==
  ASSUME TypeOK, NEW n \in Nat
  PROVE  /\ Ids(handed + 1, NextHanded(n)) \in Seq(1..MaxCame)
         /\ Len(Ids(handed + 1, NextHanded(n))) = NextHanded(n) - handed
         /\ \A i \in 1..(NextHanded(n) - handed) : Ids(handed + 1, NextHanded(n))[i] = handed + i
<1>1. handed \in Nat /\ came \in 0..MaxCame /\ MaxCame \in Nat
  BY TypeHasNumbers DEF Numbers
<1>2. PICK h \in Nat : h = NextHanded(n) /\ handed <= h /\ h <= came
  BY <1>1, NextHandedBounds
<1>3. (handed + 1)..h \subseteq 1..MaxCame
  BY <1>1, <1>2
<1>4. Ids(handed + 1, h) \in Seq((handed + 1)..h)
  BY <1>1, <1>2, IdsAre
<1> DEFINE S == (handed + 1)..h
           T == 1..MaxCame
           s == Ids(handed + 1, h)
<1>a. S \subseteq T /\ s \in Seq(S)
  BY <1>3, <1>4
<1> HIDE DEF S, T, s
<1>b. s \in Seq(T)
  BY <1>a, SeqWidens
<1> USE DEF T, s
<1>5. Ids(handed + 1, h) \in Seq(1..MaxCame)
  BY <1>b
<1> QED
  BY <1>1, <1>2, <1>5, IdsAre

\* A read that receives bytes keeps the types of what holds bytes.
LEMMA ReadBytesStep ==
  ASSUME TypeOK, SizeInv, NEW j \in Jobs, ReadBytes(j), UNCHANGED <<kind, op, buf>>
  PROVE  Bytes' /\ Numbers' /\ UNCHANGED <<eof, shut>>
<1> DEFINE n == Wanted(j)
           new == Ids(handed + 1, NextHanded(n))
<1>1. n \in Nat
  BY WantedIsNat
<1>2. (NeedsFlush => unsent <= room) /\ Receive(n)
  <2>1. NeedsFlush => ~(unsent > room)
    BY DEF ReadBytes, ReadBlocks
  <2> QED
    BY <2>1, TypeHasNumbers DEF ReadBytes, Numbers
<1>3. got' = [got EXCEPT ![j] = got[j] \o new]
  BY DEF ReadBytes
<1> HIDE DEF n
<1>4. Numbers' /\ UNCHANGED <<eof, shut>>
  BY <1>1, <1>2, ReceiveNumbers
<1>5. buf \in Seq(1..MaxCame) /\ got[j] \in Seq(1..MaxCame)
  BY DEF TypeOK
<1>6. new \in Seq(1..MaxCame) /\ Len(new) = NextHanded(n) - handed
  BY <1>1, NewBytes
<1> HIDE DEF new
<1>7. got[j] \o new \in Seq(1..MaxCame) /\ Len(got[j] \o new) = Len(got[j]) + Len(new)
  BY <1>5, <1>6, ConcatProperties
<1>8. ASSUME op[j].name = "exact" PROVE Len(got[j] \o new) <= op[j].n
  <2>1. Len(got[j]) \in Nat /\ op[j].n \in Nat /\ handed \in Nat /\ came \in Nat
    BY <1>5, TypeHasNumbers DEF TypeOK, SocketOp, Numbers
  <2>2. PICK h \in Nat : h = NextHanded(n)
    BY <1>1, <2>1, NextHandedBounds
  <2>3. h - handed <= n
    BY <1>1, <2>2, NextHandedBounds
  <2>4. n = op[j].n - Len(got[j])
    BY <1>8 DEF n, Wanted
  <2>5. Len(got[j] \o new) = Len(got[j]) + (h - handed)
    BY <1>6, <1>7, <2>2
  <2> QED
    BY <1>1, <2>1, <2>2, <2>3, <2>4, <2>5
<1> QED
  BY <1>3, <1>4, <1>5, <1>7, <1>8, BytesKept

\* A read that meets the end keeps the kernel's counters in order.
LEMMA ReadEndStep ==
  ASSUME TypeOK, NEW j \in Jobs, ReadEnd(j)
  PROVE  Numbers' /\ UNCHANGED <<eof, shut>>
<1>1. NeedsFlush => ~(unsent > room)
  BY DEF ReadEnd, ReadBlocks
<1>2. NeedsFlush => unsent <= room
  BY <1>1, TypeHasNumbers DEF Numbers
<1> QED
  BY <1>2, ReceiveNumbers DEF ReadEnd

\* Every read keeps the types of what holds bytes.
LEMMA ReadStep ==
  ASSUME TypeOK, SizeInv, NEW j \in Jobs, Read(j), UNCHANGED <<kind, op>>
  PROVE  Bytes' /\ Numbers' /\ UNCHANGED <<sent, eof, shut>>
<1>1. UNCHANGED <<sent, buf>>
  BY DEF Read
<1>2. ASSUME UNCHANGED got PROVE Bytes'
  BY <1>1, <1>2 DEF Bytes, SizeInv, Suits, TypeOK
<1>3. CASE ReadBytes(j)
  BY <1>1, <1>3, ReadBytesStep
<1>4. CASE ReadEnd(j)
  <2>1. UNCHANGED got
    BY <1>4 DEF ReadEnd
  <2> QED
    BY <1>1, <1>2, <1>4, <2>1, ReadEndStep
<1>5. CASE ReadBroken(j) \/ ReadWaits(j)
  <2>1. UNCHANGED <<got, kernelVars>>
    BY <1>5 DEF ReadBroken, ReadWaits
  <2> QED
    BY <1>1, <1>2, <2>1, TypeHasNumbers DEF Numbers, kernelVars
<1> QED
  BY <1>3, <1>4, <1>5 DEF Read

\* An accept or a datagram keeps the types of what holds bytes.
LEMMA TakeItemStep ==
  ASSUME TypeOK, SizeInv, NEW j \in Jobs, TakeItem(j), UNCHANGED <<kind, op>>
  PROVE  Bytes' /\ Numbers' /\ UNCHANGED <<sent, eof, shut>>
<1>1. op[j].name = "item" /\ buf' = buf /\ UNCHANGED sent
  BY DEF TakeItem
<1>2. kind # "tls"
  BY <1>1 DEF SizeInv, Suits, Items
<1>3. CASE came > handed
  <2> DEFINE s == Ids(handed + 1, handed + 1)
  <2>1. Receive(1) /\ got' = [got EXCEPT ![j] = s]
    BY <1>3 DEF TakeItem
  <2>2. Numbers' /\ UNCHANGED <<eof, shut>>
    BY <1>2, <2>1, ReceiveNumbers DEF NeedsFlush
  <2>3. handed \in Nat /\ came \in 0..MaxCame /\ MaxCame \in Nat
    BY TypeHasNumbers DEF Numbers
  <2>4. s \in Seq((handed + 1)..(handed + 1))
    BY <2>3, IdsAre
  <2>5. (handed + 1)..(handed + 1) \subseteq 1..MaxCame
    BY <1>3, <2>3
  <2> DEFINE S == (handed + 1)..(handed + 1)
             T == 1..MaxCame
  <2>6. S \subseteq T /\ s \in Seq(S) /\ buf \in Seq(T)
    BY <2>4, <2>5 DEF TypeOK
  <2> HIDE DEF S, T, s
  <2>7. s \in Seq(T)
    BY <2>6, SeqWidens
  <2> USE DEF T
  <2> QED
    BY <1>1, <2>1, <2>2, <2>6, <2>7, BytesKept
<1>4. CASE ~(came > handed)
  <2>1. UNCHANGED <<got, kernelVars>>
    BY <1>4 DEF TakeItem
  <2> QED
    BY <1>1, <2>1, TypeHasNumbers DEF Bytes, SizeInv, Suits, TypeOK, Numbers, kernelVars
<1> QED
  BY <1>3, <1>4

\* A write never passes its end nor overfills the kernel's or rustls's buffer.
LEMMA WriteStep ==
  ASSUME TypeOK, NEW j \in Jobs, Write(j), UNCHANGED <<kind, op>>
  PROVE  Sending' /\ Numbers' /\ UNCHANGED <<got, buf, eof>> /\ shut' = shut
<1>1. /\ came \in 0..MaxCame /\ taken \in 0..came /\ handed \in 0..taken
      /\ room \in 0..MaxRoom /\ unsent \in 0..TlsRoom
      /\ MaxCame \in Nat /\ MaxRoom \in Nat /\ TlsRoom \in Nat
  BY TypeHasNumbers DEF Numbers
<1>2. sent \in [Jobs -> Nat] /\ (\A k \in Jobs : sent[k] <= op[k].n) /\ op[j].n \in Nat
  BY DEF TypeOK, SocketOp
<1>3. CASE WriteBytes(j)
  <2>1. /\ sent' = [sent EXCEPT ![j] = sent[j] + Accepted(j)]
        /\ room' = room - Pushed(Accepted(j))
        /\ unsent' = unsent + Accepted(j) - Pushed(Accepted(j))
        /\ UNCHANGED <<came, taken, handed, eof, shut>>
    BY <1>3 DEF WriteBytes
  <2>2. PICK r \in Nat : r = Rest(j)
    BY <1>2 DEF Rest
  <2>3. PICK n \in Nat : n = Accepted(j) /\ n <= r
                         /\ (n <= room \/ n <= room + TlsRoom - unsent)
    BY <1>1, <2>2 DEF Accepted, Lesser
  <2>4. Sending'
    <3>1. sent[j] + n <= op[j].n
      BY <1>2, <2>2, <2>3 DEF Rest
    <3> QED
      BY <1>2, <2>1, <2>3, <3>1 DEF Sending
  <2>5. PICK m \in Nat : m = Pushed(n) /\ (m = unsent + n \/ m = room) /\ m <= unsent + n /\ m <= room
    BY <1>1, <2>3 DEF Pushed, Lesser
  <2>6. room - m \in 0..MaxRoom /\ unsent + n - m \in 0..TlsRoom
    BY <1>1, <2>3, <2>5
  <2>7. Numbers'
    BY <1>1, <2>1, <2>3, <2>5, <2>6 DEF Numbers
  <2> QED
    BY <2>1, <2>4, <2>7, <1>3 DEF Write
<1>4. CASE WriteEnd(j)
  <2>1. room - unsent \in 0..MaxRoom /\ 0 \in 0..TlsRoom
    BY <1>1, <1>4 DEF WriteEnd
  <2> QED
    BY <1>1, <1>2, <1>4, <2>1 DEF WriteEnd, Write, Sending, Numbers
<1>5. CASE WriteBroken(j) \/ WriteWaits(j)
  BY <1>1, <1>2, <1>5 DEF WriteBroken, WriteWaits, Write, Sending, Numbers, kernelVars
<1> QED
  BY <1>3, <1>4, <1>5 DEF Write

Flags == /\ eof \in BOOLEAN /\ shut \in BOOLEAN /\ timed \in BOOLEAN
         /\ flag \in BOOLEAN /\ nonblock \in BOOLEAN /\ mixed \in BOOLEAN

Data == /\ kind \in Kinds /\ op \in [Jobs -> SocketOp]
        /\ Bytes /\ Sending /\ Numbers /\ Flags

\* The data's share of the type invariant.
LEMMA TypeHasData == TypeOK /\ SizeInv => Data
  BY TypeHasNumbers DEF TypeOK, Data, Bytes, Sending, Flags

\* A step of an executor keeps the types of the data.
LEMMA IoData ==
  ASSUME TypeOK, SizeInv, PlaceInv, NEW j \in Jobs, Io(j)
  PROVE  Data'
<1>1. UNCHANGED <<kind, op, timed, flag, nonblock, mixed>> /\ Data
  BY TypeHasData DEF Io
<1>2. CASE LookInBuffer(j) \/ Push(j) \/ TakeRest(j)
  <2>1. UNCHANGED <<sent, kernelVars>>
    BY <1>2 DEF LookInBuffer, Push, TakeRest
  <2>2. Bytes'
    BY <1>1, <1>2, LookInBufferStep, PushStep
  <2> QED
    BY <1>1, <2>1, <2>2 DEF Data, Sending, Numbers, Flags, kernelVars
<1>3. CASE Read(j)
  BY <1>1, <1>3, ReadStep DEF Data, Sending, Flags
<1>4. CASE Write(j)
  BY <1>1, <1>4, WriteStep DEF Data, Bytes, SizeInv, Suits, Flags
<1>5. CASE TakeItem(j)
  BY <1>1, <1>5, TakeItemStep DEF Data, Sending, Flags
<1> QED
  BY <1>2, <1>3, <1>4, <1>5 DEF Io

\* Whatever is not a system call leaves the bytes alone.
LEMMA DataStep ==
  ASSUME TypeOK, SizeInv, PlaceInv, [Next]_vars
  PROVE  Data'
<1>d. Data
  BY TypeHasData
<1>n. /\ came \in 0..MaxCame /\ taken \in 0..came /\ handed \in 0..taken
      /\ room \in 0..MaxRoom /\ unsent \in 0..TlsRoom
      /\ MaxCame \in Nat /\ MaxRoom \in Nat /\ TlsRoom \in Nat
  BY TypeHasNumbers DEF Numbers
<1> DEFINE kept == <<kind, op, got, sent, buf, timed>>
           modes == <<flag, nonblock, mixed>>
<1>1. ASSUME UNCHANGED <<kept, kernelVars>>, flag' \in BOOLEAN, nonblock' \in BOOLEAN, mixed' \in BOOLEAN
      PROVE  Data'
  BY <1>d, <1>1 DEF Data, Bytes, Sending, Numbers, Flags, SizeInv, Suits, kernelVars
<1>2. ASSUME UNCHANGED <<kept, modes>>, Numbers', eof' \in BOOLEAN, shut' \in BOOLEAN
      PROVE  Data'
  BY <1>d, <1>2 DEF Data, Bytes, Sending, Flags, SizeInv, Suits
<1>f. flag \in BOOLEAN /\ nonblock \in BOOLEAN /\ mixed \in BOOLEAN
  BY <1>d DEF Data, Flags
<1>3. ASSUME NEW j \in Jobs, Io(j) PROVE Data'
  BY <1>3, IoData
<1>4. ASSUME NEW j \in Jobs, Submit(j) \/ CallInline(j) PROVE Data'
  <2>1. UNCHANGED <<kept, kernelVars, flag, nonblock>>
    BY <1>4 DEF Submit, CallInline, sockVars
  <2>2. mixed' \in BOOLEAN
    BY <1>4, <1>f DEF Submit, CallInline
  <2> QED
    BY <1>1, <1>f, <2>1, <2>2
<1>5. ASSUME NEW j \in Jobs, TestFlag(j) \/ CheckClosed(j) \/ TimeOut(j) \/ Abandon(j)
      PROVE  Data'
  BY <1>1, <1>f, <1>5 DEF TestFlag, CheckClosed, TimeOut, Abandon, sockVars
<1>6. ASSUME NEW j \in Jobs, SwitchMode(j) \/ StoreFlag(j) PROVE Data'
  <2>1. Wants(j) \in BOOLEAN
    BY DEF Wants, Inline
  <2> QED
    BY <1>1, <1>f, <1>6, <2>1 DEF SwitchMode, StoreFlag
<1>7. CASE Wait \/ DrainSubmit \/ DrainCancel \/ DrainEnd \/ Register \/ Rearm \/ TakeEvent
           \/ EventsEnd \/ Notify \/ Quiet \/ UNCHANGED vars
  <2>1. UNCHANGED <<kept, modes, kernelVars>>
    BY <1>7 DEF Wait, DrainSubmit, DrainCancel, DrainEnd, Register, Rearm, TakeEvent, EventsEnd,
       Notify, Quiet, vars, sockVars, callVars
  <2> QED
    BY <1>1, <1>f, <2>1
<1>8. CASE PeerSends
  <2>1. UNCHANGED <<kept, modes, taken, handed, eof, shut, room, unsent>>
        /\ came' = came + 1 /\ came < MaxCame
    BY <1>8 DEF PeerSends, callVars, sockVars
  <2>2. came + 1 \in 0..MaxCame /\ taken \in 0..(came + 1)
    BY <1>n, <2>1
  <2>3. Numbers'
    BY <1>n, <2>1, <2>2 DEF Numbers
  <2> QED
    BY <1>2, <1>d, <2>1, <2>3 DEF Data, Flags
<1>9. CASE PeerEnds
  <2>1. UNCHANGED <<kept, modes, came, taken, handed, shut, room, unsent>> /\ eof' = TRUE
    BY <1>9 DEF PeerEnds, callVars, sockVars
  <2> QED
    BY <1>2, <1>d, <2>1 DEF Data, Flags, Numbers
<1>10. CASE PeerReceives
  <2>1. UNCHANGED <<kept, modes, came, taken, handed, eof, shut, unsent>>
        /\ room' = room + 1 /\ room < MaxRoom
    BY <1>10 DEF PeerReceives, callVars, sockVars
  <2>2. room + 1 \in 0..MaxRoom
    BY <1>n, <2>1
  <2>3. Numbers'
    BY <1>n, <2>1, <2>2 DEF Numbers
  <2> QED
    BY <1>2, <1>d, <2>1, <2>3 DEF Data, Flags
<1>11. CASE Close
  <2>1. UNCHANGED <<kept, modes, came, taken, handed, eof, room, unsent>> /\ shut' \in BOOLEAN
    <3>1. CASE UNCHANGED <<kernelVars, mixed>>
      BY <1>11, <1>d, <3>1 DEF Close, callVars, kernelVars, Data, Flags
    <3>2. CASE shut' = (kind \in {"tcp", "tls"}) /\ CloseStep("stored", "shut")
      BY <1>11, <3>2 DEF Close, CloseStep, callVars, kernelVars
    <3> QED
      BY <1>11, <3>1, <3>2 DEF Close
  <2> QED
    BY <1>2, <1>d, <2>1 DEF Data, Flags, Numbers
<1> QED
  BY <1>3, <1>4, <1>5, <1>6, <1>7, <1>8, <1>9, <1>10, <1>11 DEF Next, Loop, Peer, InlineStep, CallStep

Answers == Whats \cup {"none"}

\* A call that ends has one of the outcomes a caller knows.
LEMMA DoneAnswers ==
  ASSUME TypeOK, NEW j \in Jobs, NEW what \in Whats, Done(j, what)
  PROVE  answer' \in [Jobs -> Answers]
  BY DEF Done, Answer, TypeOK, Answers, Whats

\* Every step keeps the type of the answers.
LEMMA AnswerStep ==
  ASSUME TypeOK, CursorInv, [Next]_vars
  PROVE  answer' \in [Jobs -> Answers]
<1>a. answer \in [Jobs -> Answers]
  BY DEF TypeOK, Answers, Whats
<1>1. ASSUME NEW j \in Jobs, CallStep(j) \/ TimeOut(j) PROVE answer' \in [Jobs -> Answers]
  <2>1. UNCHANGED answer \/ \E what \in Whats : Done(j, what)
    <3>1. CASE TestFlag(j) \/ SwitchMode(j) \/ StoreFlag(j)
      BY <3>1 DEF TestFlag, SwitchMode, StoreFlag, GoOn
    <3>2. CASE CheckClosed(j)
      BY <3>2 DEF CheckClosed, GoOn, Whats
    <3>3. CASE TimeOut(j)
      BY <3>3 DEF TimeOut, GoOn, Whats
    <3>4. CASE Io(j)
      BY <3>4, IoOutcome DEF Outcome, GoOn
    <3> QED
      BY <1>1, <3>1, <3>2, <3>3, <3>4 DEF CallStep
  <2> QED
    BY <1>a, <2>1, DoneAnswers
<1>2. ASSUME NEW j \in Jobs, Submit(j) \/ CallInline(j) \/ Abandon(j)
      PROVE  answer' \in [Jobs -> Answers]
  BY <1>a, <1>2 DEF Submit, CallInline, Abandon
<1>3. CASE Register
  <2>1. cur \in Jobs
    BY <1>3 DEF Register, CursorInv, TypeOK
  <2>2. UNCHANGED answer \/ \E what \in Whats : Done(cur, what)
    BY <1>3 DEF Register, Whats
  <2> QED
    BY <1>a, <2>1, <2>2, DoneAnswers
<1>4. CASE DrainCancel
  BY <1>4, <1>a DEF DrainCancel, Answers, Whats
<1>5. CASE Wait \/ DrainSubmit \/ DrainEnd \/ Rearm \/ TakeEvent \/ EventsEnd \/ Notify
  BY <1>5, <1>a DEF Wait, DrainSubmit, DrainEnd, Rearm, TakeEvent, EventsEnd, Notify, callVars
<1>6. CASE Close \/ Peer \/ Quiet \/ UNCHANGED vars
  BY <1>6, <1>a DEF Close, Peer, PeerSends, PeerEnds, PeerReceives, Quiet, vars, callVars
<1> QED
  BY <1>1, <1>2, <1>3, <1>4, <1>5, <1>6 DEF Next, Loop, InlineStep

\* Every step keeps the type invariant.
LEMMA TypeStep ==
  ASSUME TypeOK, SizeInv, CursorInv, PlaceInv, TableInv, [Next]_vars
  PROVE  TypeOK' /\ SizeInv'
<1>1. ControlOK'
  BY ControlStep
<1>2. Data'
  BY DataStep
<1>3. answer' \in [Jobs -> Answers]
  BY AnswerStep
<1>4. TypeOK'
  BY <1>1, <1>2, <1>3
  DEF TypeOK, ControlOK, Data, Bytes, Sending, Numbers, Flags, Fates, Labels, Answers, Whats
<1> QED
  BY <1>2, <1>4 DEF Data, Bytes

-----------------------------------------------------------------------------
(* The loop and its table *)

LEMMA CursorStep ==
  ASSUME TypeOK, CursorInv, QueueInv, FateInv, [Next]_vars
  PROVE  CursorInv'
<1> USE DEF CursorInv, Inline
<1>t. /\ cur \in Jobs \cup {None} /\ stage \in [Jobs -> Stages] /\ None \notin Jobs
      /\ phase \in [Jobs -> Phases]
  BY ReactorAssumption DEF TypeOK
<1>1. ASSUME NEW j \in Jobs, Ends(j) PROVE CursorInv'
  <2>1. stage' = [stage EXCEPT ![j] = "done"] /\ phase' = [phase EXCEPT ![j] = "idle"]
    BY <1>1, EndsMoves
  <2>2. CASE Inline(j)
    <3>1. UNCHANGED <<at, cur>> /\ cur # j
      BY <1>1, <1>t, <2>2, EndsMoves DEF loopVars
    <3> QED
      BY <1>t, <2>1, <2>2, <3>1
  <2>3. CASE ~Inline(j)
    <3>1. cur = j /\ cur' = None /\ at' \in {"events", "drain"}
      BY <1>1, <2>3, EndsMoves
    <3> QED
      BY <1>t, <2>1, <3>1
  <2> QED
    BY <2>2, <2>3
<1>2. ASSUME NEW j \in Jobs, Goes(j) PROVE CursorInv'
  <2>1. PICK to \in Before \cup After : phase' = [phase EXCEPT ![j] = to]
    BY <1>2 DEF Goes
  <2>2. to # "idle" /\ phase[j] # "idle" /\ UNCHANGED <<stage, at, cur>>
    BY <1>2, <2>1 DEF Goes, Before, After, loopVars
  <2> QED
    BY <1>t, <2>1, <2>2
<1>3. ASSUME NEW j \in Jobs, Parks(j) PROVE CursorInv'
  BY <1>t, <1>3 DEF Parks
<1>5. ASSUME NEW j \in Jobs, CallInline(j) \/ Submit(j) \/ Abandon(j) PROVE CursorInv'
  <2>1. CASE Abandon(j)
    BY <1>t, <2>1 DEF Abandon, loopVars
  <2>2. CASE CallInline(j)
    <3>1. /\ stage[j] = "new" /\ UNCHANGED <<at, cur>>
          /\ stage' = [stage EXCEPT ![j] = "inline"] /\ phase' = [phase EXCEPT ![j] = "mode"]
      BY <2>2 DEF CallInline, FateInv, loopVars
    <3> QED
      BY <1>t, <3>1
  <2>3. CASE Submit(j)
    <3>1. /\ stage[j] = "new" /\ UNCHANGED <<at, cur, phase>>
          /\ stage' = [stage EXCEPT ![j] = "queued"]
      BY <2>3 DEF Submit, FateInv, loopVars
    <3> QED
      BY <1>t, <3>1
  <2> QED
    BY <1>5, <2>1, <2>2, <2>3
<1>6. CASE UNCHANGED control
  BY <1>t, <1>6 DEF control, loopVars
<1>7. CASE Wait \/ DrainEnd \/ EventsEnd
  BY <1>t, <1>7 DEF Wait, DrainEnd, EventsEnd, Goto, callVars
<1>8. CASE Rearm
  BY <1>t, <1>8 DEF Rearm, Leave
<1>9. CASE DrainSubmit
  <2>1. /\ at = "drain" /\ at' = "drive" /\ cur' = Head(msgs) /\ Head(msgs) \in Jobs
        /\ stage' = [stage EXCEPT ![Head(msgs)] = "driven"]
        /\ phase' = [phase EXCEPT ![Head(msgs)] = "handle"]
    BY <1>9 DEF DrainSubmit, Goto, TypeOK
  <2>2. stage[Head(msgs)] = "queued"
    <3>1. msgs # <<>> /\ Head(msgs) # None
      BY <1>9 DEF DrainSubmit
    <3>2. Head(msgs) = msgs[1] /\ 1 \in 1..Len(msgs)
      BY <3>1 DEF TypeOK
    <3> QED
      BY <3>1, <3>2 DEF QueueInv
  <2> QED
    BY <1>t, <2>1, <2>2
<1>10. CASE DrainCancel
  BY <1>t, <1>10 DEF DrainCancel, Cancelled
<1>11. CASE TakeEvent
  <2>1. PICK j \in batch :
          \/ cur' = j /\ at' = "drive" /\ phase' = [phase EXCEPT ![j] = "check"] /\ stage[j] = "table"
          \/ UNCHANGED <<cur, at, phase>>
    BY <1>11 DEF TakeEvent, Goto
  <2>2. at = "events" /\ UNCHANGED stage /\ j \in Jobs
    BY <1>11 DEF TakeEvent, TypeOK
  <2> QED
    BY <1>t, <2>1, <2>2
<1>12. CASE Notify \/ Close
  BY <1>t, <1>12 DEF Notify, Close, callVars, loopVars
<1> QED
  BY <1>1, <1>2, <1>3, <1>5, <1>6, <1>7, <1>8, <1>9, <1>10, <1>11, <1>12, StepIs DEF Moves, Turns

\* Only a framed read comes to put bytes back, or to take what is left.
LEMMA PlaceStep ==
  ASSUME TypeOK, CursorInv, PlaceInv, [Next]_vars
  PROVE  PlaceInv'
<1> USE DEF PlaceInv
<1>t. phase \in [Jobs -> Phases]
  BY DEF TypeOK
<1>a. ASSUME UNCHANGED <<op, phase>> PROVE PlaceInv'
  BY <1>a
<1>b. ASSUME NEW j \in Jobs, NEW to, UNCHANGED op, phase' = [phase EXCEPT ![j] = to],
             to \in {"push", "rest"} => op[j].name = "until"
      PROVE  PlaceInv'
  BY <1>t, <1>b
<1>1. ASSUME NEW j \in Jobs, Ends(j) \/ Goes(j) \/ Parks(j) PROVE PlaceInv'
  <2>1. UNCHANGED op /\ \E to : /\ phase' = [phase EXCEPT ![j] = to]
                                /\ to \in {"push", "rest"} => op[j].name = "until"
    <3>1. CASE Ends(j)
      BY <3>1, EndsMoves DEF Ends, others
    <3>2. CASE Goes(j) \/ Parks(j)
      BY <3>2 DEF Goes, Allowed, Parks, others
    <3> QED
      BY <1>1, <3>1, <3>2
  <2> QED
    BY <1>b, <2>1
<1>2. ASSUME NEW j \in Jobs, CallInline(j) \/ Submit(j) \/ Abandon(j) PROVE PlaceInv'
  BY <1>a, <1>b, <1>2 DEF CallInline, Submit, Abandon
<1>3. CASE Wait \/ DrainCancel \/ DrainEnd \/ EventsEnd \/ Notify \/ Close \/ UNCHANGED control
  BY <1>a, <1>3 DEF Wait, DrainCancel, DrainEnd, EventsEnd, Notify, Close, control, callVars
<1>4. CASE DrainSubmit \/ Rearm \/ TakeEvent
  <2>1. UNCHANGED op /\ (UNCHANGED phase \/ \E j : \E to \in {"handle", "idle", "check"} :
                                               phase' = [phase EXCEPT ![j] = to])
    BY <1>4 DEF DrainSubmit, Rearm, TakeEvent
  <2> QED
    BY <1>t, <2>1
<1> HIDE DEF PlaceInv
<1> QED
  BY <1>1, <1>2, <1>3, <1>4, StepIs DEF Moves, Turns

\* The channel holds exactly the queued calls, each once: a submit puts one in, a drain
\* takes the head out, and nothing else touches it.
LEMMA QueueStep ==
  ASSUME TypeOK, CursorInv, QueueInv, FateInv, [Next]_vars
  PROVE  QueueInv'
<1> USE DEF QueueInv
<1>t. msgs \in Seq(Jobs \cup {None}) /\ stage \in [Jobs -> Stages] /\ None \notin Jobs
      /\ Len(msgs) \in Nat /\ \A i \in 1..Len(msgs) : msgs[i] \in Jobs \cup {None}
  BY ReactorAssumption DEF TypeOK
\* A step that leaves the channel and who is queued alone.
<1>a. ASSUME UNCHANGED msgs, \A k \in Jobs : stage'[k] = "queued" <=> stage[k] = "queued"
      PROVE  QueueInv'
  BY <1>t, <1>a
<1>1. ASSUME NEW j \in Jobs, Ends(j) PROVE QueueInv'
  <2>1. stage' = [stage EXCEPT ![j] = "done"] /\ msgs' = msgs /\ stage[j] # "queued"
    BY <1>1, EndsMoves DEF Ends, others, msgVars, Inline
  <2> QED
    BY <1>a, <1>t, <2>1
<1>2. ASSUME NEW j \in Jobs, Goes(j) \/ Parks(j) PROVE QueueInv'
  BY <1>a, <1>t, <1>2 DEF Goes, Parks, others, msgVars
<1>5. ASSUME NEW j \in Jobs, CallInline(j) \/ Abandon(j) PROVE QueueInv'
  BY <1>a, <1>t, <1>5 DEF CallInline, Abandon, msgVars, FateInv
<1>6. ASSUME NEW j \in Jobs, Submit(j) PROVE QueueInv'
  <2>1. stage[j] = "new" /\ stage' = [stage EXCEPT ![j] = "queued"] /\ msgs' = Append(msgs, j)
    BY <1>6 DEF Submit, FateInv
  <2>2. Len(msgs') = Len(msgs) + 1 /\ msgs'[Len(msgs) + 1] = j
        /\ \A i \in 1..Len(msgs) : msgs'[i] = msgs[i]
    BY <1>t, <2>1
  <2>3. \A i \in 1..Len(msgs) : msgs[i] # j
    BY <1>t, <2>1
  <2>4. \A i \in 1..Len(msgs') : i \in 1..Len(msgs) \/ i = Len(msgs) + 1
    BY <1>t, <2>2
  <2>5. \A i \in 1..Len(msgs') : msgs'[i] # None => stage'[msgs'[i]] = "queued"
    BY <1>t, <2>1, <2>2, <2>4
  <2>6. \A i, k \in 1..Len(msgs') : msgs'[i] # None /\ msgs'[i] = msgs'[k] => i = k
    BY <1>t, <2>2, <2>3, <2>4
  <2>7. 1..Len(msgs) \subseteq 1..Len(msgs') /\ Len(msgs) + 1 \in 1..Len(msgs')
    BY <1>t, <2>2
  <2>8. \A k \in Jobs : stage'[k] = "queued" => \E i \in 1..Len(msgs') : msgs'[i] = k
    BY <1>t, <2>1, <2>2, <2>7
  <2> QED
    BY <2>5, <2>6, <2>8
<1>7. ASSUME msgs # <<>>, msgs' = Tail(msgs),
             \A k \in Jobs : k # Head(msgs) => (stage'[k] = "queued" <=> stage[k] = "queued"),
             Head(msgs) # None => stage'[Head(msgs)] # "queued"
      PROVE  QueueInv'
  <2>1. Len(msgs') = Len(msgs) - 1 /\ \A i \in 1..Len(msgs') : msgs'[i] = msgs[i + 1]
    BY <1>t, <1>7, HeadTailProperties
  <2>2. Head(msgs) = msgs[1] /\ 1 \in 1..Len(msgs)
    BY <1>t, <1>7
  <2>3. \A i \in 1..Len(msgs') : i + 1 \in 1..Len(msgs) /\ i + 1 # 1
    BY <1>t, <2>1
  <2>4. \A i \in 2..Len(msgs) : i - 1 \in 1..Len(msgs') /\ i - 1 + 1 = i
    BY <1>t, <2>1
  <2>5. ASSUME NEW i \in 1..Len(msgs'), msgs'[i] # None PROVE stage'[msgs'[i]] = "queued"
    <3>1. msgs'[i] = msgs[i + 1] /\ msgs[i + 1] \in Jobs /\ stage[msgs[i + 1]] = "queued"
      BY <1>t, <2>1, <2>3, <2>5
    <3>2. msgs[i + 1] # Head(msgs)
      BY <2>2, <2>3, <3>1, <2>5
    <3> QED
      BY <1>7, <3>1, <3>2
  <2>6. ASSUME NEW i \in 1..Len(msgs'), NEW k \in 1..Len(msgs'), msgs'[i] # None, msgs'[i] = msgs'[k]
        PROVE  i = k
    <3>1. i + 1 = k + 1
      BY <2>1, <2>3, <2>6
    <3> QED
      BY <3>1
  <2>7. ASSUME NEW k \in Jobs, stage'[k] = "queued" PROVE \E i \in 1..Len(msgs') : msgs'[i] = k
    <3>1. k # Head(msgs) /\ stage[k] = "queued"
      BY <1>t, <1>7, <2>7
    <3>2. PICK i \in 1..Len(msgs) : msgs[i] = k
      BY <3>1
    <3>3. i \in 2..Len(msgs)
      BY <1>t, <2>2, <3>1, <3>2
    <3>4. i - 1 \in 1..Len(msgs') /\ i - 1 + 1 = i
      BY <2>4, <3>3
    <3>5. msgs'[i - 1] = msgs[i - 1 + 1]
      BY <2>1, <3>4
    <3> QED
      BY <3>2, <3>4, <3>5
  <2> QED
    BY <2>5, <2>6, <2>7
<1>8. CASE DrainSubmit
  <2>1. msgs # <<>> /\ Head(msgs) \in Jobs /\ stage' = [stage EXCEPT ![Head(msgs)] = "driven"]
        /\ msgs' = Tail(msgs)
    BY <1>t, <1>8 DEF DrainSubmit
  <2> QED
    BY <1>7, <1>t, <2>1
<1>9. CASE DrainCancel
  <2>1. msgs # <<>> /\ Head(msgs) = None /\ msgs' = Tail(msgs)
        /\ \A k \in Jobs : stage'[k] = IF stage[k] = "table" THEN "done" ELSE stage[k]
    BY <1>9 DEF DrainCancel, Cancelled
  <2> QED
    BY <1>7, <1>t, <2>1
<1>10. CASE UNCHANGED control \/ Wait \/ DrainEnd \/ Rearm \/ EventsEnd \/ TakeEvent \/ Notify
  <2>1. UNCHANGED <<msgs, stage>>
    BY <1>10 DEF control, Wait, DrainEnd, Rearm, EventsEnd,
       TakeEvent, Notify, msgVars, callVars
  <2> QED
    BY <1>a, <2>1
<1>11. CASE Close
  <2>1. UNCHANGED stage
    BY <1>11 DEF Close, callVars
  <2>2. \/ UNCHANGED msgs
        \/ msgs' = Append(msgs, None)
    <3>1. CASE UNCHANGED msgVars
      BY <3>1 DEF msgVars
    <3>2. CASE UNCHANGED notified /\ CloseStep("shut", "done")
      BY <1>11, <3>2 DEF Close, CloseStep, msgVars
    <3> QED
      BY <1>11, <3>1, <3>2 DEF Close
  <2>3. CASE msgs' = Append(msgs, None)
    <3>1. Len(msgs') = Len(msgs) + 1 /\ msgs'[Len(msgs) + 1] = None
          /\ \A i \in 1..Len(msgs) : msgs'[i] = msgs[i]
      BY <1>t, <2>3
    <3>2. \A i \in 1..Len(msgs') : i \in 1..Len(msgs) \/ i = Len(msgs) + 1
      BY <1>t, <3>1
    <3>3. 1..Len(msgs) \subseteq 1..Len(msgs')
      BY <1>t, <3>1
    <3>4. \A i \in 1..Len(msgs') : msgs'[i] # None => stage'[msgs'[i]] = "queued"
      BY <1>t, <2>1, <3>1, <3>2
    <3>5. \A i, k \in 1..Len(msgs') : msgs'[i] # None /\ msgs'[i] = msgs'[k] => i = k
      BY <1>t, <3>1, <3>2
    <3>6. \A k \in Jobs : stage'[k] = "queued" => \E i \in 1..Len(msgs') : msgs'[i] = k
      BY <1>t, <2>1, <3>1, <3>3
    <3> QED
      BY <3>4, <3>5, <3>6
  <2> QED
    BY <1>a, <2>1, <2>2, <2>3
<1> HIDE DEF QueueInv
<1> QED
  BY <1>1, <1>2, <1>5, <1>6, <1>8, <1>9, <1>10, <1>11, StepIs DEF Moves, Turns

\* A call's stage and its coroutine's fate stay together.
LEMMA FateStep ==
  ASSUME TypeOK, CursorInv, QueueInv, FateInv, [Next]_vars
  PROVE  FateInv'
<1> USE DEF FateInv, Inline, InReactor
<1>t. stage \in [Jobs -> Stages] /\ fate \in [Jobs -> Fates] /\ None \notin Jobs
  BY ReactorAssumption DEF TypeOK, Fates
<1>a. ASSUME UNCHANGED <<stage, fate>> PROVE FateInv'
  BY <1>a
<1>1. ASSUME NEW j \in Jobs, Ends(j) PROVE FateInv'
  <2>1. stage' = [stage EXCEPT ![j] = "done"] /\ fate' = [fate EXCEPT ![j] = Told(fate[j])]
    BY <1>1, EndsMoves
  <2>2. Inline(j) \/ InReactor(j)
    BY <1>1, EndsMoves
  <2>3. Told(fate[j]) \in {"resumed", "answered", "abandoned"}
    BY <2>2 DEF Told
  <2> HIDE DEF Told
  <2> QED
    BY <1>t, <2>1, <2>3
<1>2. ASSUME NEW j \in Jobs, Goes(j) PROVE FateInv'
  BY <1>a, <1>2 DEF Goes
<1>3. ASSUME NEW j \in Jobs, Parks(j) PROVE FateInv'
  BY <1>t, <1>3 DEF Parks
<1>5. ASSUME NEW j \in Jobs, CallInline(j) PROVE FateInv'
  BY <1>t, <1>5 DEF CallInline
<1>6. ASSUME NEW j \in Jobs, Submit(j) PROVE FateInv'
  BY <1>t, <1>6 DEF Submit
<1>7. ASSUME NEW j \in Jobs, Abandon(j) PROVE FateInv'
  BY <1>t, <1>7 DEF Abandon
<1>8. CASE DrainSubmit
  <2>1. Head(msgs) \in Jobs /\ stage[Head(msgs)] = "queued" /\ UNCHANGED fate
        /\ stage' = [stage EXCEPT ![Head(msgs)] = "driven"]
    <3>1. msgs # <<>> /\ Head(msgs) # None /\ UNCHANGED fate
          /\ stage' = [stage EXCEPT ![Head(msgs)] = "driven"]
      BY <1>8 DEF DrainSubmit
    <3>2. Head(msgs) = msgs[1] /\ 1 \in 1..Len(msgs) /\ msgs[1] \in Jobs \cup {None}
      BY <3>1 DEF TypeOK
    <3> QED
      BY <3>1, <3>2 DEF QueueInv
  <2> QED
    BY <1>t, <2>1
<1>9. CASE DrainCancel
  <2>1. \A k \in Jobs : stage'[k] = IF stage[k] = "table" THEN "done" ELSE stage[k]
    BY <1>9 DEF DrainCancel, Cancelled
  <2>2. \A k \in Jobs : fate'[k] = IF stage[k] = "table" /\ fate[k] = "waiting" THEN "answered" ELSE fate[k]
    BY <1>9 DEF DrainCancel, Cancelled
  <2> QED
    BY <1>t, <2>1, <2>2
<1>10. CASE UNCHANGED control \/ Wait \/ DrainEnd \/ Rearm \/ EventsEnd \/ TakeEvent \/ Notify \/ Close
  <2>1. UNCHANGED <<fate, stage>>
    BY <1>10 DEF control, Wait, DrainEnd, Rearm, EventsEnd,
       TakeEvent, Notify, callVars, Close
  <2> QED
    BY <1>a, <2>1
<1> HIDE DEF FateInv
<1> QED
  BY <1>1, <1>2, <1>3, <1>5, <1>6, <1>7, <1>8, <1>9, <1>10, StepIs DEF Moves, Turns

\* Only parking, the end of a call and a Cancel touch the registrations.
LEMMA TableStep ==
  ASSUME TypeOK, CursorInv, QueueInv, TableInv, FateInv, NoOpIsForgotten, [Next]_vars
  PROVE  TableInv'
<1> USE DEF TableInv
<1>t. /\ stage \in [Jobs -> Stages] /\ reg \in [Handles -> Jobs \cup {None}]
      /\ armed \subseteq Handles /\ None \notin Jobs
  BY ReactorAssumption DEF TypeOK
<1>k. \A j \in Jobs : UNCHANGED <<kind, op>> => HandleOf(j)' = HandleOf(j)
  BY HandleStays
<1>a. ASSUME UNCHANGED <<kind, op, reg, armed>>,
             \A k \in Jobs : stage[k] = "table" => stage'[k] = "table",
             at' = "wait" => batch' = {}
      PROVE  TableInv'
  BY <1>t, <1>k, <1>a
<1>b. ASSUME NEW js \in SUBSET Jobs, Deregister(js), UNCHANGED <<kind, op>>,
             \A k \in Jobs : stage[k] = "table" /\ k \notin js => stage'[k] = "table",
             at' = "wait" => batch' = {}
      PROVE  TableInv'
  <2>1. reg' = [h \in Handles |-> IF reg[h] \in js THEN None ELSE reg[h]]
        /\ armed' = {h \in armed : reg[h] \notin js}
    BY <1>b DEF Deregister
  <2> QED
    BY <1>t, <1>k, <1>b, <2>1
<1>1. ASSUME NEW j \in Jobs, Ends(j) PROVE TableInv'
  <2>1. stage' = [stage EXCEPT ![j] = "done"] /\ UNCHANGED <<kind, op>>
    BY <1>1, EndsMoves DEF Ends, others
  <2>2. CASE Inline(j)
    <3>1. stage[j] # "table" /\ UNCHANGED <<reg, armed, at, batch>>
      BY <1>1, <2>2, EndsMoves DEF Inline, loopVars
    <3> QED
      BY <1>a, <1>t, <2>1, <3>1
  <2>3. CASE ~Inline(j)
    <3> DEFINE js == {j}
    <3>1. Deregister(js) /\ at' # "wait"
      BY <1>1, <2>3, EndsMoves
    <3>2. js \in SUBSET Jobs /\ \A k \in Jobs : stage[k] = "table" /\ k \notin js => stage'[k] = "table"
      BY <1>t, <2>1
    <3> HIDE DEF js
    <3> QED
      BY <1>b, <2>1, <3>1, <3>2
  <2> QED
    BY <2>2, <2>3
<1>2. ASSUME NEW j \in Jobs, Goes(j) PROVE TableInv'
  BY <1>a, <1>2 DEF Goes, others, loopVars
<1>3. ASSUME NEW j \in Jobs, Parks(j) PROVE TableInv'
  <2>1. /\ reg[HandleOf(j)] = None /\ reg' = [reg EXCEPT ![HandleOf(j)] = j]
        /\ armed' = armed \cup {HandleOf(j)} /\ stage' = [stage EXCEPT ![j] = "table"]
        /\ at' = "drain" /\ UNCHANGED <<kind, op>>
    BY <1>3 DEF Parks, others
  <2>2. HandleOf(j) \in Handles
    BY HandleType
  <2> QED
    BY <1>t, <1>k, <2>1, <2>2
<1>5. ASSUME NEW j \in Jobs, CallInline(j) \/ Submit(j) \/ Abandon(j) PROVE TableInv'
  <2>1. \A k \in Jobs : stage[k] = "table" => stage'[k] = "table"
    BY <1>t, <1>5 DEF CallInline, Submit, Abandon, FateInv
  <2>2. UNCHANGED <<kind, op, reg, armed, at, batch>>
    BY <1>5 DEF CallInline, Submit, Abandon, loopVars
  <2> QED
    BY <1>a, <2>1, <2>2
<1>8. CASE DrainSubmit
  <2>1. msgs # <<>> /\ Head(msgs) # None /\ at' = "drive"
        /\ stage' = [stage EXCEPT ![Head(msgs)] = "driven"]
        /\ UNCHANGED <<kind, op, reg, armed>>
    BY <1>8 DEF DrainSubmit, Goto
  <2>2. Head(msgs) = msgs[1] /\ 1 \in 1..Len(msgs) /\ msgs[1] \in Jobs \cup {None}
    BY <2>1 DEF TypeOK
  <2>3. stage[Head(msgs)] = "queued" /\ Head(msgs) \in Jobs
    BY <2>1, <2>2 DEF QueueInv
  <2> QED
    BY <1>a, <1>t, <2>1, <2>3
<1>9. CASE DrainCancel
  <2>1. /\ Deregister(Cancelled) /\ UNCHANGED <<kind, op, at, batch>> /\ at = "drain"
        /\ \A k \in Jobs : stage[k] = "table" /\ k \notin Cancelled => stage'[k] = "table"
    BY <1>9 DEF DrainCancel, Cancelled
  <2>2. Cancelled \in SUBSET Jobs
    BY DEF Cancelled
  <2> QED
    BY <1>b, <2>1, <2>2
<1>10. CASE Wait
  <2>1. UNCHANGED <<kind, op, stage, reg>> /\ at' = "drain" /\ armed' \subseteq armed
    BY <1>10 DEF Wait, callVars, Goto
  <2> QED
    BY <1>t, <1>k, <2>1
<1>11. CASE Rearm
  <2>1. UNCHANGED <<kind, op, stage, reg>> /\ at' = "events"
        /\ armed' = armed \cup {HandleOf(cur)} /\ at = "drive" /\ stage[cur] = "table"
    BY <1>11 DEF Rearm, Leave
  <2>2. cur \in Jobs /\ reg[HandleOf(cur)] = cur
    BY <1>11, <2>1 DEF CursorInv, TypeOK, NoOpIsForgotten
  <2> QED
    BY <1>t, <1>k, <2>1, <2>2
<1>12. CASE UNCHANGED control \/ DrainEnd \/ EventsEnd \/ TakeEvent \/ Notify \/ Close
  <2>1. UNCHANGED <<kind, op, stage, reg, armed>>
    BY <1>12 DEF control, DrainEnd, EventsEnd,
       TakeEvent, Notify, callVars, loopVars, Close
  <2>2. at' = "wait" => batch' = {}
    BY <1>12 DEF control, DrainEnd, EventsEnd,
       TakeEvent, Notify, callVars, loopVars, Close, Goto
  <2> QED
    BY <1>a, <2>1, <2>2
<1> HIDE DEF TableInv
<1> QED
  BY <1>1, <1>2, <1>3, <1>5, <1>8, <1>9, <1>10, <1>11, <1>12, StepIs DEF Moves, Turns

\* Every step leaves a call of the table registered on its handle, with the handle armed,
\* its event still to be looked at, or the call being driven.
LEMMA ForgottenStep ==
  ASSUME TypeOK, CursorInv, QueueInv, TableInv, FateInv, NoOpIsForgotten, [Next]_vars
  PROVE  NoOpIsForgotten'
<1> USE DEF NoOpIsForgotten
<1>t. /\ stage \in [Jobs -> Stages] /\ reg \in [Handles -> Jobs \cup {None}]
      /\ armed \subseteq Handles /\ None \notin Jobs /\ cur \in Jobs \cup {None}
      /\ \A k \in Jobs : HandleOf(k) \in Handles
  BY ReactorAssumption, HandleType DEF TypeOK
<1>k. \A j \in Jobs : UNCHANGED <<kind, op>> => HandleOf(j)' = HandleOf(j)
  BY HandleStays
<1>a. ASSUME UNCHANGED <<kind, op, reg, armed, batch, cur>>,
             \A k \in Jobs : stage'[k] = "table" => stage[k] = "table"
      PROVE  NoOpIsForgotten'
  BY <1>t, <1>k, <1>a
<1>b. ASSUME NEW js \in SUBSET Jobs, Deregister(js), UNCHANGED <<kind, op, batch>>,
             \A k \in Jobs : stage'[k] = "table" => stage[k] = "table" /\ k \notin js /\ cur # k
      PROVE  NoOpIsForgotten'
  <2>1. reg' = [h \in Handles |-> IF reg[h] \in js THEN None ELSE reg[h]]
        /\ armed' = {h \in armed : reg[h] \notin js}
    BY <1>b DEF Deregister
  <2> QED
    BY <1>t, <1>k, <1>b, <2>1
<1>1. ASSUME NEW j \in Jobs, Ends(j) PROVE NoOpIsForgotten'
  <2>1. stage' = [stage EXCEPT ![j] = "done"] /\ UNCHANGED <<kind, op>>
    BY <1>1, EndsMoves DEF Ends, others
  <2>2. CASE Inline(j)
    <3>1. UNCHANGED <<reg, armed, cur, batch>>
      BY <1>1, <2>2, EndsMoves DEF loopVars
    <3> QED
      BY <1>a, <1>t, <2>1, <3>1
  <2>3. CASE ~Inline(j)
    <3> DEFINE js == {j}
    <3>1. Deregister(js) /\ UNCHANGED batch /\ cur = j
      BY <1>1, <2>3, EndsMoves
    <3>2. /\ js \in SUBSET Jobs
          /\ \A k \in Jobs : stage'[k] = "table" => stage[k] = "table" /\ k \notin js /\ cur # k
      BY <1>t, <2>1, <3>1
    <3> HIDE DEF js
    <3> QED
      BY <1>b, <2>1, <3>1, <3>2
  <2> QED
    BY <2>2, <2>3
<1>2. ASSUME NEW j \in Jobs, Goes(j) PROVE NoOpIsForgotten'
  BY <1>a, <1>2 DEF Goes, others, loopVars
<1>3. ASSUME NEW j \in Jobs, Parks(j) PROVE NoOpIsForgotten'
  <2>1. /\ reg[HandleOf(j)] = None /\ reg' = [reg EXCEPT ![HandleOf(j)] = j]
        /\ armed' = armed \cup {HandleOf(j)} /\ stage' = [stage EXCEPT ![j] = "table"]
        /\ UNCHANGED <<kind, op, batch>> /\ cur = j /\ stage[j] # "table"
    BY <1>3 DEF Parks, others
  <2>2. ASSUME NEW k \in Jobs, stage'[k] = "table"
        PROVE  /\ reg'[HandleOf(k)] = k
               /\ HandleOf(k) \in armed' \/ k \in batch' \/ cur' = k
    <3>1. CASE k = j
      BY <1>t, <2>1, <3>1
    <3>2. CASE k # j
      <4>1. stage[k] = "table"
        BY <1>t, <2>1, <2>2, <3>2
      <4>2. reg[HandleOf(k)] = k /\ (HandleOf(k) \in armed \/ k \in batch)
        BY <2>1, <3>2, <4>1
      <4>3. HandleOf(k) # HandleOf(j)
        BY <1>t, <2>1, <4>2
      <4> QED
        BY <1>t, <2>1, <4>2, <4>3
    <3> QED
      BY <3>1, <3>2
  <2> QED
    BY <1>k, <2>1, <2>2
<1>5. ASSUME NEW j \in Jobs, CallInline(j) \/ Submit(j) \/ Abandon(j) PROVE NoOpIsForgotten'
  <2>1. \A k \in Jobs : stage'[k] = "table" => stage[k] = "table"
    BY <1>t, <1>5 DEF CallInline, Submit, Abandon
  <2>2. UNCHANGED <<kind, op, reg, armed, cur, batch>>
    BY <1>5 DEF CallInline, Submit, Abandon, loopVars
  <2> QED
    BY <1>a, <2>1, <2>2
<1>8. CASE DrainSubmit
  <2>1. stage' = [stage EXCEPT ![Head(msgs)] = "driven"] /\ at = "drain"
        /\ UNCHANGED <<kind, op, reg, armed, batch>>
    BY <1>8 DEF DrainSubmit
  <2>2. cur = None /\ \A k \in Jobs : stage'[k] = "table" => stage[k] = "table"
    BY <1>t, <2>1 DEF CursorInv
  <2> QED
    BY <1>t, <1>k, <2>1, <2>2
<1>9. CASE DrainCancel
  <2>1. /\ Deregister(Cancelled) /\ UNCHANGED <<kind, op, batch>>
        /\ \A k \in Jobs : stage'[k] # "table"
    BY <1>9 DEF DrainCancel, Cancelled
  <2> QED
    BY <2>1
<1>10. CASE Wait
  <2>1. PICK hs \in SUBSET {h \in armed : Ready(h)} :
          batch' = {reg[h] : h \in hs} /\ armed' = armed \ hs
    BY <1>10 DEF Wait
  <2>2. UNCHANGED <<kind, op, stage, reg, cur>> /\ batch = {} /\ cur = None
    BY <1>10 DEF Wait, callVars, TableInv, CursorInv
  <2> QED
    BY <1>t, <1>k, <2>1, <2>2
<1>11. CASE Rearm
  <2>1. UNCHANGED <<kind, op, stage, reg, batch>>
        /\ armed' = armed \cup {HandleOf(cur)} /\ at = "drive"
    BY <1>11 DEF Rearm
  <2>2. cur \in Jobs
    BY <1>t, <2>1 DEF CursorInv
  <2> QED
    BY <1>t, <1>k, <2>1, <2>2
<1>12. CASE TakeEvent
  <2>1. PICK j \in batch :
          /\ batch' = batch \ {j}
          /\ IF stage[j] = "table" THEN cur' = j ELSE UNCHANGED cur
    BY <1>12 DEF TakeEvent
  <2>2. UNCHANGED <<kind, op, stage, reg, armed>> /\ cur = None
    BY <1>12 DEF TakeEvent, callVars, CursorInv
  <2> QED
    BY <1>t, <1>k, <2>1, <2>2
<1>13. CASE UNCHANGED control \/ DrainEnd \/ EventsEnd \/ Notify \/ Close
  <2>1. UNCHANGED <<kind, op, stage, reg, armed, batch, cur>>
    BY <1>13 DEF control, DrainEnd, EventsEnd,
       Notify, callVars, loopVars, Close
  <2> QED
    BY <1>a, <2>1
<1> HIDE DEF NoOpIsForgotten
<1> QED
  BY <1>1, <1>2, <1>3, <1>5, <1>8, <1>9, <1>10, <1>11, <1>12, <1>13, StepIs DEF Moves, Turns

-----------------------------------------------------------------------------
(* The close and the news *)

LEMMA AppendKeeps ==
  ASSUME NEW S, NEW s \in Seq(S), NEW x \in S
  PROVE  /\ Append(s, x) # <<>>
         /\ \E i \in 1..Len(Append(s, x)) : Append(s, x)[i] = x
         /\ \A y : (\E i \in 1..Len(s) : s[i] = y) => \E i \in 1..Len(Append(s, x)) : Append(s, x)[i] = y
<1>1. Len(s) \in Nat /\ Len(Append(s, x)) = Len(s) + 1 /\ Append(s, x)[Len(s) + 1] = x
      /\ \A i \in 1..Len(s) : Append(s, x)[i] = s[i]
  OBVIOUS
<1>2. Len(s) + 1 \in 1..Len(Append(s, x)) /\ 1..Len(s) \subseteq 1..Len(Append(s, x))
  BY <1>1
<1>3. Append(s, x) # <<>>
  BY <1>1
<1> QED
  BY <1>1, <1>2, <1>3

\* What is in a sequence and not its head is in its tail.
LEMMA TailKeeps ==
  ASSUME NEW S, NEW s \in Seq(S), s # <<>>, NEW y, y # Head(s), \E i \in 1..Len(s) : s[i] = y
  PROVE  \E i \in 1..Len(Tail(s)) : Tail(s)[i] = y
<1>1. Len(s) \in Nat /\ Len(Tail(s)) = Len(s) - 1 /\ \A i \in 1..Len(Tail(s)) : Tail(s)[i] = s[i + 1]
  BY HeadTailProperties
<1>2. Head(s) = s[1]
  OBVIOUS
<1>3. PICK i \in 1..Len(s) : s[i] = y
  OBVIOUS
<1>4. i # 1
  BY <1>2, <1>3
<1>5. i - 1 \in 1..Len(Tail(s)) /\ i - 1 + 1 = i
  BY <1>1, <1>4
<1>6. Tail(s)[i - 1] = s[i - 1 + 1]
  BY <1>1, <1>5
<1> QED
  BY <1>3, <1>5, <1>6

SomeCancel == \E i \in 1..Len(msgs) : msgs[i] = None

\* Where a call may be that the close did not stop.
LEMMA CloseStepInv ==
  ASSUME TypeOK, CursorInv, QueueInv, FateInv, CloseInv, [Next]_vars
  PROVE  CloseInv'
<1>t. /\ stage \in [Jobs -> Stages] /\ phase \in [Jobs -> Phases] /\ None \notin Jobs
      /\ msgs \in Seq(Jobs \cup {None}) /\ cur \in Jobs \cup {None}
  BY ReactorAssumption DEF TypeOK
<1>c. (closed <=> closing # "no") /\ (closing = "done" /\ Past => SomeCancel)
  BY DEF CloseInv, SomeCancel
<1>r. cur # None => cur \in Jobs /\ stage[cur] \in {"driven", "table"}
  BY <1>t DEF CursorInv
<1>z. ASSUME closed' <=> closing' # "no", closing' = "done" /\ Past' => SomeCancel'
      PROVE  CloseInv'
  BY <1>z DEF CloseInv, SomeCancel
\* Most steps leave the close alone and take no call past the test.
<1>a. ASSUME UNCHANGED <<closed, closing>>, closing = "done" /\ Past' => Past, SomeCancel => SomeCancel'
      PROVE  CloseInv'
  BY <1>a, <1>c, <1>z
<1>m. UNCHANGED msgs => (SomeCancel => SomeCancel')
  BY DEF SomeCancel
<1>1. ASSUME NEW j \in Jobs, Ends(j) PROVE CloseInv'
  <2>1. /\ stage' = [stage EXCEPT ![j] = "done"] /\ phase' = [phase EXCEPT ![j] = "idle"]
        /\ UNCHANGED <<closed, closing, msgs>>
    BY <1>1, EndsMoves DEF Ends, others, msgVars
  <2>2. Past' => Past
    <3>1. CASE Inline(j)
      <4>1. cur' = cur /\ cur # j
        BY <1>1, <1>t, <1>r, <3>1, EndsMoves DEF loopVars, Inline
      <4> QED
        BY <1>t, <2>1, <4>1 DEF Past
    <3>2. CASE ~Inline(j)
      <4>1. cur' = None
        BY <1>1, <3>2, EndsMoves
      <4> QED
        BY <1>t, <2>1, <4>1 DEF Past
    <3> QED
      BY <3>1, <3>2
  <2> QED
    BY <1>a, <1>m, <2>1, <2>2
<1>2. ASSUME NEW j \in Jobs, Goes(j) PROVE CloseInv'
  <2>1. PICK to \in Before \cup After : phase' = [phase EXCEPT ![j] = to] /\ Allowed(j, to)
    BY <1>2 DEF Goes
  <2>2. UNCHANGED <<closed, closing, msgs, stage, cur>>
    BY <1>2 DEF Goes, others, msgVars, loopVars
  <2>3. closing = "done" /\ Past' => Past
    <3>1. CASE j # cur
      BY <1>t, <1>r, <2>1, <2>2, <3>1 DEF Past
    <3>2. CASE j = cur
      <4>1. ~Inline(j) /\ cur # None
        BY <1>t, <1>r, <3>2 DEF Inline
      <4>2. closing = "done" => closed
        BY <1>c
      <4> QED
        BY <1>t, <2>1, <2>2, <3>2, <4>1, <4>2 DEF Past, Allowed
    <3> QED
      BY <3>1, <3>2
  <2> QED
    BY <1>a, <1>m, <2>2, <2>3
<1>3. ASSUME NEW j \in Jobs, Parks(j) PROVE CloseInv'
  <2>1. cur # None /\ phase[cur] \in After /\ UNCHANGED <<closed, closing, msgs>>
    BY <1>3, <1>t DEF Parks, others, msgVars
  <2>2. Past
    BY <2>1 DEF Past
  <2> QED
    BY <1>a, <1>m, <2>1, <2>2
<1>5. ASSUME NEW j \in Jobs, CallInline(j) \/ Submit(j) \/ Abandon(j) PROVE CloseInv'
  <2>1. /\ \A k \in Jobs : stage'[k] = "table" => stage[k] = "table"
        /\ \A k \in Jobs : phase'[k] \in After => phase[k] \in After
    BY <1>t, <1>5 DEF CallInline, Submit, Abandon, After
  <2>2. UNCHANGED <<closed, closing, cur>>
    BY <1>5 DEF CallInline, Submit, Abandon, loopVars, sockVars
  <2>3. msgs' = msgs \/ msgs' = Append(msgs, j)
    BY <1>5 DEF CallInline, Submit, Abandon, msgVars
  <2>4. SomeCancel => SomeCancel'
    BY <1>t, <2>3, AppendKeeps DEF SomeCancel
  <2>5. Past' => Past
    BY <1>r, <2>1, <2>2 DEF Past
  <2> QED
    BY <1>a, <2>2, <2>4, <2>5
<1>8. CASE DrainSubmit
  <2>1. /\ msgs # <<>> /\ Head(msgs) # None /\ msgs' = Tail(msgs) /\ cur' = Head(msgs)
        /\ stage' = [stage EXCEPT ![Head(msgs)] = "driven"]
        /\ phase' = [phase EXCEPT ![Head(msgs)] = "handle"] /\ UNCHANGED <<closed, closing>>
    BY <1>8 DEF DrainSubmit, sockVars
  <2>2. SomeCancel => SomeCancel'
    <3> DEFINE S == Jobs \cup {None}
    <3>1. msgs \in Seq(S)
      BY <1>t
    <3> HIDE DEF S
    <3>2. SUFFICES ASSUME SomeCancel PROVE SomeCancel'
      OBVIOUS
    <3>3. \E i \in 1..Len(msgs) : msgs[i] = None
      BY <3>2 DEF SomeCancel
    <3>4. \E i \in 1..Len(Tail(msgs)) : Tail(msgs)[i] = None
      BY <2>1, <3>1, <3>3, TailKeeps
    <3> QED
      BY <2>1, <3>4 DEF SomeCancel
  <2>3. Past' => Past
    <3>1. Head(msgs) \in Jobs
      BY <1>t, <2>1
    <3> QED
      BY <1>t, <2>1, <3>1 DEF Past, After
  <2> QED
    BY <1>a, <2>1, <2>2, <2>3
<1>9. CASE DrainCancel
  <2>1. /\ UNCHANGED <<closed, closing, cur>> /\ cur = None
        /\ \A k \in Jobs : stage'[k] # "table"
    BY <1>9 DEF DrainCancel, Cancelled, sockVars, CursorInv
  <2>2. ~Past'
    BY <2>1 DEF Past
  <2> QED
    BY <1>c, <1>z, <2>1, <2>2
<1>10. CASE Rearm
  <2>1. cur # None /\ stage[cur] = "table" /\ UNCHANGED <<closed, closing, msgs>>
    BY <1>10 DEF Rearm, CursorInv, msgVars, sockVars
  <2>2. Past
    BY <1>r, <2>1 DEF Past
  <2> QED
    BY <1>a, <1>m, <2>1, <2>2
<1>11. CASE TakeEvent
  <2>1. PICK j \in batch : \/ stage[j] = "table"
                           \/ UNCHANGED <<cur, phase>>
    BY <1>11 DEF TakeEvent
  <2>2. UNCHANGED <<closed, closing, msgs, stage>> /\ j \in Jobs
    BY <1>11 DEF TakeEvent, msgVars, sockVars, TypeOK
  <2>3. Past' => Past
    BY <2>1, <2>2 DEF Past
  <2> QED
    BY <1>a, <1>m, <2>2, <2>3
<1>12. CASE UNCHANGED control \/ Wait \/ DrainEnd \/ EventsEnd \/ Notify
  <2>1. UNCHANGED <<closed, closing, msgs, stage, phase, cur>>
    BY <1>12 DEF control, Wait, DrainEnd, EventsEnd, Notify, callVars, msgVars, loopVars, sockVars
  <2>2. Past' => Past
    BY <2>1 DEF Past
  <2> QED
    BY <1>a, <1>m, <2>1, <2>2
<1>13. CASE Close
  <2>1. UNCHANGED <<stage, phase, cur>>
    BY <1>13 DEF Close, callVars, loopVars
  <2>2. CASE closing' # "done"
    <3>1. closed' <=> closing' # "no"
      BY <1>13, <1>c, <2>2 DEF Close, CloseStep
    <3> QED
      BY <1>z, <2>2, <3>1
  <2>3. CASE closing' = "done"
    <3>1. /\ closing = "shut" /\ UNCHANGED closed
          /\ IF \E j \in Jobs : fate[j] \in {"waiting", "answered", "abandoned"}
               THEN msgs' = Append(msgs, None) ELSE UNCHANGED msgs
      BY <1>13, <2>3 DEF Close, CloseStep
    <3>2. Past => \E j \in Jobs : fate[j] \in {"waiting", "answered", "abandoned"}
      <4>1. Past => \E j \in Jobs : InReactor(j)
        BY <1>r DEF Past, InReactor
      <4> QED
        BY <4>1 DEF FateInv
    <3>3. ASSUME Past PROVE SomeCancel'
      <4>1. msgs' = Append(msgs, None)
        BY <3>1, <3>2, <3>3
      <4> QED
        BY <1>t, <4>1, AppendKeeps DEF SomeCancel
    <3>4. Past' => Past
      BY <2>1 DEF Past
    <3> QED
      BY <1>c, <1>z, <2>3, <3>1, <3>3, <3>4
  <2> QED
    BY <2>2, <2>3
<1> QED
  BY <1>1, <1>2, <1>3, <1>5, <1>8, <1>9, <1>10, <1>11, <1>12, <1>13, StepIs DEF Moves, Turns

\* A message in the channel keeps the reactor from sleeping.
LEMMA NewsStep ==
  ASSUME TypeOK, CursorInv, QueueInv, FateInv, NewsInv, [Next]_vars
  PROVE  NewsInv'
<1> USE DEF NewsInv
<1>t. stage \in [Jobs -> Stages] /\ msgs \in Seq(Jobs \cup {None}) /\ None \notin Jobs
      /\ cur \in Jobs \cup {None} /\ owed \in Nat
  BY ReactorAssumption DEF TypeOK
<1>r. at = "drive" => cur \in Jobs /\ stage[cur] \in {"driven", "table"}
  BY <1>t DEF CursorInv
<1>a. ASSUME UNCHANGED msgVars, Draining => Draining' PROVE NewsInv'
  BY <1>a DEF msgVars
<1>1. ASSUME NEW j \in Jobs, Ends(j) PROVE NewsInv'
  <2>1. UNCHANGED msgVars /\ stage' = [stage EXCEPT ![j] = "done"]
    BY <1>1, EndsMoves DEF Ends, others
  <2>2. CASE Inline(j)
    <3>1. UNCHANGED <<at, cur>> /\ stage[j] = "inline"
      BY <1>1, <2>2, EndsMoves DEF loopVars, Inline
    <3>2. Draining => Draining'
      BY <1>t, <1>r, <2>1, <3>1 DEF Draining
    <3> QED
      BY <1>a, <2>1, <3>2
  <2>3. CASE ~Inline(j)
    <3>1. /\ cur = j /\ at = "drive"
          /\ at' = (IF stage[j] = "table" THEN "events" ELSE "drain")
      BY <1>1, <2>3, EndsMoves
    <3>2. Draining => Draining'
      BY <1>t, <1>r, <3>1 DEF Draining
    <3> QED
      BY <1>a, <2>1, <3>2
  <2> QED
    BY <2>2, <2>3
<1>2. ASSUME NEW j \in Jobs, Goes(j) \/ Parks(j) PROVE NewsInv'
  BY <1>a, <1>2 DEF Goes, Parks, others, loopVars, Draining
<1>5. ASSUME NEW j \in Jobs, CallInline(j) \/ Abandon(j) PROVE NewsInv'
  <2>1. UNCHANGED <<msgVars, at, cur>>
        /\ \A k \in Jobs : stage[k] = "driven" => stage'[k] = "driven"
    BY <1>t, <1>5 DEF CallInline, Abandon, loopVars, FateInv
  <2>2. Draining => Draining'
    BY <1>r, <2>1 DEF Draining
  <2> QED
    BY <1>a, <2>1, <2>2
<1>6. ASSUME NEW j \in Jobs, Submit(j) PROVE NewsInv'
  <2>1. owed' = owed + 1
    BY <1>6 DEF Submit
  <2> QED
    BY <1>t, <2>1
<1>7. CASE Wait \/ DrainCancel
  <2>1. at' = "drain"
    BY <1>7 DEF Wait, DrainCancel, Goto
  <2> QED
    BY <2>1 DEF Draining
<1>8. CASE DrainSubmit
  <2>1. at' = "drive" /\ cur' = Head(msgs) /\ Head(msgs) \in Jobs
        /\ stage' = [stage EXCEPT ![Head(msgs)] = "driven"]
    BY <1>8, <1>t DEF DrainSubmit, Goto
  <2> QED
    BY <1>t, <2>1 DEF Draining
<1>9. CASE DrainEnd
  BY <1>9 DEF DrainEnd, msgVars
<1>10. CASE Notify
  BY <1>10 DEF Notify
<1>11. CASE UNCHANGED control
  BY <1>a, <1>11 DEF control, loopVars, Draining
<1>12. CASE Rearm \/ TakeEvent \/ EventsEnd
  <2>1. UNCHANGED msgVars /\ ~Draining
    BY <1>12 DEF Rearm, TakeEvent, EventsEnd, Draining
  <2> QED
    BY <1>a, <2>1
<1>13. CASE Close
  <2>1. UNCHANGED <<stage, at, cur, notified>>
    BY <1>13 DEF Close, callVars, loopVars, msgVars
  <2>2. CASE UNCHANGED <<msgs, owed>>
    BY <2>1, <2>2 DEF Draining
  <2>3. CASE owed' = owed + 1
    BY <1>t, <2>3
  <2>4. UNCHANGED <<msgs, owed>> \/ owed' = owed + 1
    <3>1. CASE UNCHANGED msgVars
      BY <3>1 DEF msgVars
    <3>2. CASE UNCHANGED notified /\ CloseStep("shut", "done")
      BY <1>13, <3>2 DEF Close, CloseStep, msgVars
    <3> QED
      BY <1>13, <3>1, <3>2 DEF Close
  <2> QED
    BY <2>2, <2>3, <2>4
<1> HIDE DEF NewsInv
<1> QED
  BY <1>1, <1>2, <1>5, <1>6, <1>7, <1>8, <1>9, <1>10, <1>11, <1>12, <1>13, StepIs
  DEF Moves, Turns

-----------------------------------------------------------------------------
(* The theorems *)

LEMMA InvInit == Init => IInv
<1> SUFFICES ASSUME Init PROVE IInv
  OBVIOUS
<1>1. PICK p \in Plans : kind = p.kind /\ op = p.calls /\ timed = p.timed
  BY DEF Init
<1>2. /\ kind \in Kinds /\ op \in [Jobs -> SocketOp] /\ timed \in BOOLEAN
      /\ \A j \in Jobs : Suits(op[j], kind)
  BY <1>1, ReactorAssumption
<1>3. \A j \in Jobs : op[j].n \in Nat
  BY <1>2 DEF SocketOp
<1>n. MaxCame \in Nat /\ MaxRoom \in Nat \ {0} /\ TlsRoom \in Nat \ {0}
  BY ReactorAssumption
<1>e. <<>> \in Seq(1..MaxCame) /\ <<>> \in Seq(Jobs \cup {None}) /\ Len(<<>>) = 0
  OBVIOUS
<1>4. ControlOK
  BY <1>e DEF Init, ControlOK, Stages, Phases, Fates, Labels
<1>5. Bytes /\ Sending
  BY <1>2, <1>3, <1>e DEF Init, Bytes, Sending, SizeInv
<1>6. Numbers /\ Flags
  <2>1. /\ came = 0 /\ taken = 0 /\ handed = 0 /\ room = 1 /\ unsent = 0
        /\ eof = FALSE /\ shut = FALSE /\ flag = FALSE /\ nonblock \in BOOLEAN /\ mixed = FALSE
    BY DEF Init
  <2>2. 0 \in 0..MaxCame /\ 0 \in 0..0 /\ 1 \in 0..MaxRoom /\ 0 \in 0..TlsRoom
    BY <1>n
  <2> QED
    BY <1>2, <2>1, <2>2 DEF Numbers, Flags
<1>7. answer \in [Jobs -> {"none", "ok", "closed", "eof", "io", "timeout"}]
  BY DEF Init
<1>8. TypeOK /\ SizeInv
  BY <1>2, <1>4, <1>5, <1>6, <1>7 DEF TypeOK, ControlOK, Bytes, Sending, Numbers, Flags, Fates, Labels
<1>9. CursorInv /\ PlaceInv /\ QueueInv /\ FateInv
  <2>1. /\ \A j \in Jobs : stage[j] = "new" /\ phase[j] = "idle" /\ fate[j] = "new"
        /\ cur = None /\ at = "wait" /\ msgs = <<>> /\ batch = {}
        /\ None \notin Jobs
    BY ReactorAssumption DEF Init
  <2>2. CursorInv
    BY <2>1 DEF CursorInv, Inline
  <2>3. PlaceInv
    BY <2>1 DEF PlaceInv, Before, After
  <2>4. QueueInv
    BY <2>1 DEF QueueInv
  <2>5. FateInv
    BY <2>1 DEF FateInv, Inline, InReactor
  <2> QED
    BY <2>2, <2>3, <2>4, <2>5
<1>10. TableInv /\ CloseInv /\ NewsInv /\ NoOpIsForgotten
  BY DEF Init, TableInv, CloseInv, Past, NewsInv, NoOpIsForgotten
<1> QED
  BY <1>8, <1>9, <1>10 DEF IInv

\* The invariant is inductive.
LEMMA InvStep == IInv /\ [Next]_vars => IInv'
<1> SUFFICES ASSUME IInv, [Next]_vars PROVE IInv'
  OBVIOUS
<1> USE DEF IInv
<1>1. TypeOK' /\ SizeInv'
  BY TypeStep
<1>2. CursorInv' /\ PlaceInv' /\ QueueInv' /\ FateInv'
  BY CursorStep, PlaceStep, QueueStep, FateStep
<1>3. TableInv' /\ NoOpIsForgotten'
  BY TableStep, ForgottenStep
<1>4. CloseInv' /\ NewsInv'
  BY CloseStepInv, NewsStep
<1> QED
  BY <1>1, <1>2, <1>3, <1>4

\* So it always holds.
LEMMA InvAlways == Spec => []IInv
<1> QED
  BY InvInit, InvStep, PTL DEF Spec

\* Every variable of the reactor keeps its type, whatever the number of calls
\* and bytes: in particular the kernel's counts stay in order (handed <= taken
\* <= came), no write passes its end, and rustls never holds more records than
\* it has room for.
THEOREM TypeCorrect == Spec => []TypeOK
<1>1. IInv => TypeOK
  BY DEF IInv
<1> QED
  BY <1>1, InvAlways, PTL

\* An op in the reactor's table never loses its registration, and is armed
\* unless its event is on the way.
THEOREM NoOpIsForgottenAlways == Spec => []NoOpIsForgotten
<1>1. IInv => NoOpIsForgotten
  BY DEF IInv
<1> QED
  BY <1>1, InvAlways, PTL

\* A reactor at rest has no op of a closed socket.
THEOREM CloseLeavesNobodyWaitingAlways == Spec => []CloseLeavesNobodyWaiting
<1>1. IInv => CloseLeavesNobodyWaiting
  <2> SUFFICES ASSUME IInv, closing = "done", at = "wait", owed = 0, ~notified,
                      NEW j \in Jobs, InReactor(j)
               PROVE  FALSE
    BY DEF CloseLeavesNobodyWaiting
  <2>1. msgs = <<>> /\ Len(<<>>) = 0
    BY DEF IInv, NewsInv, Draining
  <2>2. \A i \in 1..Len(msgs) : FALSE
    BY <2>1
  <2>3. stage[j] # "queued"
    BY <2>2 DEF IInv, QueueInv
  <2>4. stage[j] # "driven"
    BY ReactorAssumption DEF IInv, CursorInv
  <2>5. stage[j] # "table"
    BY <2>2 DEF IInv, CloseInv, Past
  <2> QED
    BY <2>3, <2>4, <2>5 DEF InReactor
<1> QED
  BY <1>1, InvAlways, PTL

\* The status JobService gives a call.
Status(j) == CASE fate[j] = "inline" -> "new" [] fate[j] = "waiting" -> "pending" [] OTHER -> fate[j]

MovesOn(j) == Status(j)' = Status(j) \/ <<Status(j), Status(j)'>> \in Service!Moves

\* A step moves no call's status other than along JobService.
LEMMA ServiceStep ==
  ASSUME IInv, [Next]_vars, NEW k \in Jobs
  PROVE  MovesOn(k)
<1>t. /\ fate \in [Jobs -> Fates] /\ stage \in [Jobs -> Stages] /\ TypeOK /\ CursorInv /\ FateInv
  BY DEF IInv, TypeOK, Fates
<1>a. ASSUME fate'[k] = fate[k] PROVE MovesOn(k)
  BY <1>a DEF MovesOn, Status
<1>1. ASSUME NEW j \in Jobs, Ends(j) PROVE MovesOn(k)
  <2>1. \/ fate'[k] = fate[k]
        \/ fate[k] \in {"inline", "waiting"} /\ fate'[k] = Told(fate[k])
    BY <1>1, <1>t, EndsMoves DEF Told
  <2> QED
    BY <1>a, <2>1 DEF MovesOn, Status, Told, Service!Moves
<1>3. ASSUME NEW j \in Jobs, CallInline(j) \/ Submit(j) \/ Abandon(j) PROVE MovesOn(k)
  <2>1. \/ fate'[k] = fate[k]
        \/ fate[k] = "new" /\ fate'[k] \in {"inline", "waiting"}
        \/ fate[k] = "waiting" /\ fate'[k] = "abandoned"
    BY <1>3, <1>t DEF CallInline, Submit, Abandon
  <2> QED
    BY <1>a, <2>1 DEF MovesOn, Status, Service!Moves
<1>4. CASE DrainCancel
  <2>1. \/ fate'[k] = fate[k]
        \/ fate[k] = "waiting" /\ fate'[k] = "answered"
    BY <1>4 DEF DrainCancel
  <2> QED
    BY <1>a, <2>1 DEF MovesOn, Status, Service!Moves
<1>5. ASSUME UNCHANGED fate PROVE MovesOn(k)
  BY <1>5, <1>a
<1>6. ASSUME NEW j \in Jobs, Goes(j) \/ Parks(j) PROVE MovesOn(k)
  BY <1>5, <1>6 DEF Goes, Parks
<1>7. CASE UNCHANGED control \/ Wait \/ DrainSubmit \/ DrainEnd \/ Rearm \/ TakeEvent
           \/ EventsEnd \/ Notify \/ Close
  BY <1>5, <1>7 DEF control, Wait, DrainSubmit, DrainEnd, Rearm, TakeEvent, EventsEnd, Notify,
     Close, callVars
<1> QED
  BY <1>1, <1>3, <1>4, <1>6, <1>7, <1>t, StepIs DEF Moves, Turns

\* A socket call, on the reactor or on its actor's thread, is answered at most
\* once and never after it was given up, as JobService promises.
THEOREM SafetyOfJobService == Spec => ImplementsJobService
<1>1. Init => Service!Init
  BY DEF Init, Service!Init
<1>2. IInv /\ IInv' /\ [Next]_vars => Service!Next
  <2> SUFFICES ASSUME IInv, IInv', [Next]_vars PROVE Service!Next
    OBVIOUS
  <2>1. \A j \in Jobs : Status(j)' \in Service!Statuses
    <3> SUFFICES ASSUME NEW j \in Jobs PROVE Status(j)' \in Service!Statuses
      OBVIOUS
    <3> QED
      BY DEF IInv, TypeOK, Status, Service!Statuses
  <2>2. \A j \in Jobs : MovesOn(j)
    BY ServiceStep
  <2> QED
    BY <2>1, <2>2 DEF Service!Next, MovesOn, Status
<1> QED
  BY <1>1, <1>2, InvAlways, PTL DEF Spec, Service!Safety, ImplementsJobService

=============================================================================

