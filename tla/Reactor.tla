------------------------------- MODULE Reactor -------------------------------
(***************************************************************************)
(* Socket calls (src/src/vm/socket.rs): carried out by the reactor thread  *)
(* (src/src/vm/reactor.rs) when the calling coroutine parks, or inline by  *)
(* its actor's thread.                                                     *)
(*                                                                         *)
(* The bytes of a stream are numbered in the order the peer sends them; a  *)
(* listener's connections and a UDP socket's datagrams likewise.  The      *)
(* kernel has those up to `came`, has handed out those up to `taken`, and  *)
(* the program has received those up to `handed` (TLS decrypts ahead).     *)
(* A step is one system call, one critical section or one test of a flag,  *)
(* and the calls of two actors interleave between any two of them.  The    *)
(* TLS handshake, name resolution and the payloads are left out.           *)
(***************************************************************************)
EXTENDS Integers, Sequences, FiniteSets

CONSTANTS
  Jobs,      \* the calls of the run; a call's id is also its registration key
  Actors,
  Owner,     \* [Jobs -> Actors]
  Plans,     \* what may be called: a set of [kind, timed, calls], calls \in [Jobs -> SocketOp]
  MaxCame,   \* bound: bytes, connections or datagrams the peer sends
  Delims,    \* the numbers of the bytes that are delimiters
  MaxRoom,   \* the kernel's send buffer
  TlsRoom,   \* the buffer of encrypted records not yet sent
  None

Kinds    == {"tcp", "tls", "listener", "udp"}
Reads    == {"chunk", "exact", "until", "all"}
Items    == {"item"}
SocketOp == [name : Reads \cup Items \cup {"write"}, n : Nat]

\* Only a stream is read, and only the other kinds have items to take.
Suits(o, k) == /\ o.name \in Reads => k \in {"tcp", "tls"}
               /\ o.name \in Items => k \in {"listener", "udp"}

ASSUME ReactorAssumption ==
  /\ IsFiniteSet(Jobs) /\ None \notin Jobs
  /\ Owner \in [Jobs -> Actors]
  /\ MaxCame \in Nat /\ Delims \subseteq 1..MaxCame
  /\ MaxRoom \in Nat \ {0} /\ TlsRoom \in Nat \ {0}
  /\ \A p \in Plans :
       /\ p.kind \in Kinds /\ p.timed \in BOOLEAN
       /\ p.calls \in [Jobs -> SocketOp]
       /\ \A j \in Jobs : Suits(p.calls[j], p.kind)

VARIABLES
  kind,      \* SocketInner::kind
  op,        \* the SocketOp of each call, [name, n]
  stage,     \* how far each call is
  phase,     \* where the thread that carries it out is
  fate,      \* of the coroutine that made it
  answer,    \* what it came to
  got,       \* the bytes it has: SocketOp's accumulator, its result, a read's buffer
  sent,      \* WriteAll's cursor
  msgs,      \* the registration channel
  owed,      \* notifications still to be sent for messages already in it
  notified,  \* Poller::notify has been called since the last wait
  at,        \* where the reactor thread is
  cur,       \* the call it drives
  batch,     \* calls with an event still to be looked at
  reg,       \* handle -> the call registered on it, None
  armed,     \* handles with their (oneshot) interest armed
  closed,    \* SocketInner::closed
  closing,   \* how far a close is
  flag,      \* SocketInner::nonblocking
  nonblock,  \* the mode the file description really is in
  timed,     \* Net.set_timeout was called
  buf,       \* SocketInner::read_buf
  came, taken, handed, eof, shut, room, unsent,
  mixed      \* history: two threads have had reads of the socket under way at once

callVars   == <<kind, op, stage, phase, fate, answer, got, sent>>
msgVars    == <<msgs, owed, notified>>
loopVars   == <<at, cur, batch, reg, armed>>
sockVars   == <<closed, closing, flag, nonblock, timed, buf>>
kernelVars == <<came, taken, handed, eof, shut, room, unsent>>
vars == <<callVars, msgVars, loopVars, sockVars, kernelVars, mixed>>

Handles == {"read", "write", "both"}
Stages  == {"new", "queued", "driven", "table", "inline", "done"}
Phases  == {"idle", "handle", "mode", "switch", "again", "store", "check",
            "buffer", "call", "asleep", "held", "push", "rest", "park"}

TypeOK ==
  /\ kind \in Kinds /\ op \in [Jobs -> SocketOp]
  /\ stage \in [Jobs -> Stages] /\ phase \in [Jobs -> Phases]
  /\ fate \in [Jobs -> {"new", "inline", "waiting", "answered", "resumed", "abandoned"}]
  /\ answer \in [Jobs -> {"none", "ok", "closed", "eof", "io", "timeout"}]
  /\ got \in [Jobs -> Seq(1..MaxCame)]
  /\ sent \in [Jobs -> Nat] /\ \A j \in Jobs : sent[j] <= op[j].n
  /\ msgs \in Seq(Jobs \cup {None}) /\ owed \in Nat /\ notified \in BOOLEAN
  /\ at \in {"wait", "drain", "drive", "events"}
  /\ cur \in Jobs \cup {None} /\ batch \subseteq Jobs
  /\ reg \in [Handles -> Jobs \cup {None}] /\ armed \subseteq Handles
  /\ closed \in BOOLEAN /\ closing \in {"no", "stored", "shut", "done"}
  /\ flag \in BOOLEAN /\ nonblock \in BOOLEAN /\ timed \in BOOLEAN
  /\ buf \in Seq(1..MaxCame)
  /\ came \in 0..MaxCame /\ taken \in 0..came /\ handed \in 0..taken
  /\ eof \in BOOLEAN /\ shut \in BOOLEAN
  /\ room \in 0..MaxRoom /\ unsent \in 0..TlsRoom
  /\ mixed \in BOOLEAN

\* A listener is bound non-blocking for good; every other socket starts out
\* blocking.
Init ==
  /\ \E p \in Plans : kind = p.kind /\ op = p.calls /\ timed = p.timed
  /\ stage = [j \in Jobs |-> "new"] /\ phase = [j \in Jobs |-> "idle"]
  /\ fate = [j \in Jobs |-> "new"] /\ answer = [j \in Jobs |-> "none"]
  /\ got = [j \in Jobs |-> <<>>] /\ sent = [j \in Jobs |-> 0]
  /\ msgs = <<>> /\ owed = 0 /\ notified = FALSE
  /\ at = "wait" /\ cur = None /\ batch = {}
  /\ reg = [h \in Handles |-> None] /\ armed = {}
  /\ closed = FALSE /\ closing = "no"
  /\ flag = FALSE /\ nonblock = (kind = "listener")
  /\ buf = <<>>
  /\ came = 0 /\ taken = 0 /\ handed = 0 /\ eof = FALSE /\ shut = FALSE
  /\ room = 1 /\ unsent = 0
  /\ mixed = FALSE

-----------------------------------------------------------------------------
(* The kernel and the peer *)

Lesser(m, n) == IF m < n THEN m ELSE n
Ended == eof \/ shut

Readable == came > taken \/ Ended
Writable == room > 0 \/ shut

\* A handle a poller would report: a TLS connection's one handle is
\* registered for both directions.
Ready(h) == CASE h = "read" -> Readable [] h = "write" -> Writable
              [] h = "both" -> Readable \/ Writable

\* A TCP stream has a half for each direction, each under a mutex; a TLS
\* connection has one of both.
Half(j) == IF kind = "tls" THEN "both" ELSE IF op[j].name = "write" THEN "write" ELSE "read"

\* Wrong: the two directions are swapped.
HandleOfSwapped(j) ==
  CASE Half(j) = "read" -> "write" [] Half(j) = "write" -> "read" [] OTHER -> "both"

HandleOf(j) == Half(j)

PeerSends ==
  /\ came < MaxCame /\ ~Ended
  /\ came' = came + 1
  /\ UNCHANGED <<callVars, msgVars, loopVars, sockVars, taken, handed, eof, shut, room, unsent,
                 mixed>>

PeerEnds ==
  /\ kind \in {"tcp", "tls"} /\ ~eof
  /\ eof' = TRUE
  /\ UNCHANGED <<callVars, msgVars, loopVars, sockVars, came, taken, handed, shut, room, unsent,
                 mixed>>

PeerReceives ==
  /\ room < MaxRoom
  /\ room' = room + 1
  /\ UNCHANGED <<callVars, msgVars, loopVars, sockVars, came, taken, handed, eof, shut, unsent,
                 mixed>>

-----------------------------------------------------------------------------
(* The two executors share what a call does; they differ in the mode they
   want, in what becomes of a system call that would block, and of the call
   when it ends. *)

InReactor(j) == stage[j] \in {"queued", "driven", "table"}
Inline(j)    == stage[j] = "inline"
Free(a)      == \A j \in Jobs : Owner[j] = a => ~Inline(j)

\* Who holds a half's mutex: a thread asleep in a system call on it, and an
\* inline write_all between two of them.  (Locking it and making the call is
\* one step, and so is a call that returns at once and unlocking it.)
Locked(h) == /\ kind \in {"tcp", "tls"}
             /\ \E j \in Jobs : Half(j) = h /\ phase[j] \in {"asleep", "held"}

\* The mutex a thread takes next.
Mutex(j) == CASE phase[j] = "switch" /\ kind = "tcp" -> "read"
              [] phase[j] = "again" -> "write"
              [] OTHER -> Half(j)

\* nb_flush of a TCP stream takes none.
NothingToFlush(j) ==
  kind = "tcp" /\ ~Inline(j) /\ op[j].name = "write" /\ sent[j] = op[j].n

Waits(j) == /\ phase[j] \in {"handle", "switch", "again", "call"}
            /\ Locked(Mutex(j))
            /\ ~(phase[j] = "call" /\ NothingToFlush(j))

InCall(j) == phase[j] \in {"call", "asleep", "held"} /\ ~Waits(j)

\* The op is done: out of the table if it was there, and answered by a post
\* to its actor's mailbox.  A coroutine cancelled meanwhile is not found and
\* the answer goes nowhere.
Answer(j, what) ==
  /\ answer' = [answer EXCEPT ![j] = what]
  /\ stage' = [stage EXCEPT ![j] = "done"]
  /\ phase' = [phase EXCEPT ![j] = "idle"]
  /\ fate' = [fate EXCEPT ![j] = CASE @ = "inline" -> "resumed" [] @ = "waiting" -> "answered"
                                     [] OTHER -> @]

Deregister(js) ==
  /\ reg' = [h \in Handles |-> IF reg[h] \in js THEN None ELSE reg[h]]
  /\ armed' = {h \in armed : reg[h] \notin js}

\* The reactor is through with the op it drives: a new one came from the
\* channel, one in the table from an event.
Leave == /\ at' = IF stage[cur] = "table" THEN "events" ELSE "drain"
         /\ cur' = None

Done(j, what) ==
  /\ Answer(j, what)
  /\ IF Inline(j) THEN UNCHANGED loopVars
     ELSE Deregister({j}) /\ Leave /\ batch' = batch

GoOn(j, to) ==
  /\ phase' = [phase EXCEPT ![j] = to]
  /\ UNCHANGED <<stage, fate, answer, loopVars>>

\* set_nonblocking_mode: the flag is tested (start_op has asked the half for
\* its raw handle before); if it differs the mode is changed, once through
\* each mutex, and the flag stored after that.
Wants(j) == ~Inline(j)

TestFlag(j) ==
  /\ phase[j] \in {"handle", "mode"} /\ ~Waits(j)
  /\ GoOn(j, IF flag = Wants(j) \/ kind = "listener" THEN "check" ELSE "switch")
  /\ UNCHANGED <<kind, op, got, sent, msgVars, sockVars, kernelVars, mixed>>

SwitchMode(j) ==
  /\ phase[j] \in {"switch", "again"} /\ ~Waits(j)
  /\ GoOn(j, IF phase[j] = "switch" /\ kind = "tcp" THEN "again" ELSE "store")
  /\ nonblock' = Wants(j)
  /\ UNCHANGED <<kind, op, got, sent, msgVars, closed, closing, flag, timed, buf, kernelVars,
                 mixed>>

StoreFlag(j) ==
  /\ phase[j] = "store"
  /\ flag' = Wants(j)
  /\ GoOn(j, "check")
  /\ UNCHANGED <<kind, op, got, sent, msgVars, closed, closing, nonblock, timed, buf, kernelVars,
                 mixed>>

\* Ids first..last as a sequence.
Ids(first, last) == [i \in 1..(last - first + 1) |-> first + i - 1]

\* Buffered bytes an op may take: the surplus of an earlier read_until.
HasDelim == \E i \in DOMAIN buf : buf[i] \in Delims
FirstDelim == CHOOSE i \in DOMAIN buf :
                buf[i] \in Delims /\ \A k \in 1..(i - 1) : buf[k] \notin Delims

Wanted(j) == CASE op[j].name = "chunk" -> op[j].n
               [] op[j].name = "exact" -> op[j].n - Len(got[j])
               [] OTHER -> MaxCame

\* Wrong: an op that comes after its socket's close is started.
CheckClosedNever(j) ==
  /\ phase[j] = "check"
  /\ GoOn(j, IF op[j].name \in Reads THEN "buffer" ELSE "call")
  /\ UNCHANGED <<kind, op, got, sent, msgVars, sockVars, kernelVars, mixed>>

\* `closed` beats readiness, at the start of every advance and of every inline
\* read_chunk, read_until, write_all, accept attempt and recv_from; an inline
\* read_exact that has its bytes ends without another read_chunk.
CheckClosed(j) ==
  /\ phase[j] = "check"
  /\ IF Inline(j) /\ op[j].name = "exact" /\ Wanted(j) = 0 THEN Done(j, "ok")
     ELSE IF closed THEN Done(j, "closed")
     ELSE GoOn(j, IF op[j].name \in Reads THEN "buffer" ELSE "call")
  /\ UNCHANGED <<kind, op, got, sent, msgVars, sockVars, kernelVars, mixed>>

\* A read that is not over goes round its loop: inline, read_exact and
\* read_all are loops of read_chunk.
NextRound(j) == GoOn(j, IF Inline(j) THEN "check" ELSE "buffer")

\* Does the op end, or take some bytes, in the critical section of read_buf?
FromBuffer(j) ==
  \/ op[j].name = "chunk" /\ (op[j].n = 0 \/ buf # <<>>)
  \/ op[j].name = "exact" /\ (Wanted(j) = 0 \/ buf # <<>>)
  \/ op[j].name = "until" /\ HasDelim
  \/ op[j].name = "all" /\ buf # <<>>

\* How much of buf is taken, by an op that may.
Share(j) == IF op[j].name = "until" THEN FirstDelim ELSE Lesser(Wanted(j), Len(buf))

\* On the reactor read_all makes its system call whatever it found buffered.
AfterBuffer(j) ==
  IF op[j].name \in {"chunk", "until"} \/ (op[j].name = "exact" /\ Wanted(j) = 0)
    THEN Done(j, "ok")
  ELSE IF op[j].name = "all" /\ ~Inline(j) THEN GoOn(j, "call")
  ELSE NextRound(j)

\* Wrong: what was buffered goes in front of what the op has.
LookInBufferInFront(j) ==
  /\ phase[j] = "buffer"
  /\ IF FromBuffer(j)
       THEN /\ got' = [got EXCEPT ![j] = SubSeq(buf, 1, Share(j)) \o @]
            /\ buf' = SubSeq(buf, Share(j) + 1, Len(buf))
            /\ AfterBuffer(j)
       ELSE GoOn(j, "call") /\ UNCHANGED <<got, buf>>
  /\ UNCHANGED <<sent, kernelVars>>

\* Wrong: the surplus after the delimiter is dropped with it.
LookInBufferWhole(j) ==
  /\ phase[j] = "buffer"
  /\ IF FromBuffer(j)
       THEN /\ got' = [got EXCEPT ![j] = @ \o SubSeq(buf, 1, Share(j))]
            /\ buf' = <<>>
            /\ AfterBuffer(j)
       ELSE GoOn(j, "call") /\ UNCHANGED <<got, buf>>
  /\ UNCHANGED <<sent, kernelVars>>

LookInBuffer(j) ==
  /\ phase[j] = "buffer"
  /\ IF FromBuffer(j)
       THEN /\ got' = [got EXCEPT ![j] = @ \o SubSeq(buf, 1, Share(j))]
            /\ buf' = SubSeq(buf, Share(j) + 1, Len(buf))
            /\ AfterBuffer(j)
       ELSE GoOn(j, "call") /\ UNCHANGED <<got, buf>>
  /\ UNCHANGED <<sent, kernelVars>>

\* read_until puts what it read behind what is buffered, and looks again.
Push(j) ==
  /\ phase[j] = "push"
  /\ buf' = buf \o got[j] /\ got' = [got EXCEPT ![j] = <<>>]
  /\ GoOn(j, "buffer")
  /\ UNCHANGED <<sent, kernelVars>>

\* At the end of the stream it gives what is buffered then (null for nothing).
TakeRest(j) ==
  /\ phase[j] = "rest"
  /\ got' = [got EXCEPT ![j] = buf] /\ buf' = <<>>
  /\ Done(j, "ok")
  /\ UNCHANGED <<sent, kernelVars>>

-----------------------------------------------------------------------------
(* System calls *)

\* A call that would block: the op goes back to the poller, an inline call
\* takes the error for the timeout of set_timeout; on a handle in blocking
\* mode (the kernel looks once, when the call is made) the thread sleeps with
\* the half's mutex.  An inline accept sleeps a while and polls again.
WouldBlock(j) ==
  CASE kind = "listener" /\ Inline(j) -> GoOn(j, "check")
    [] phase[j] # "asleep" /\ ~nonblock -> GoOn(j, "asleep")
    [] OTHER -> /\ phase[j] # "asleep"
                /\ IF Inline(j) THEN Done(j, "timeout") ELSE GoOn(j, "park")

\* One read(2), or one turn of rustls: what it decrypted before goes first,
\* and it may not read before its own records are out.
NeedsFlush == kind = "tls" /\ handed = taken /\ unsent > 0

ReadBlocks == (NeedsFlush /\ ~shut /\ unsent > room) \/ (came = handed /\ ~Ended)

Flushed == IF NeedsFlush THEN unsent' = 0 /\ room' = room - unsent
           ELSE UNCHANGED <<unsent, room>>

NextHanded(n) == handed + Lesser(n, (IF kind = "tls" /\ handed < taken THEN taken ELSE came) - handed)

Receive(n) ==
  /\ handed' = NextHanded(n)
  /\ taken' = IF kind = "tls" /\ handed = taken THEN came
              ELSE IF kind = "tls" THEN taken ELSE NextHanded(n)
  /\ Flushed
  /\ UNCHANGED <<came, eof, shut>>

ReadBytes(j) ==
  /\ ~ReadBlocks /\ ~(NeedsFlush /\ shut) /\ came > handed
  /\ Receive(Wanted(j))
  /\ got' = [got EXCEPT ![j] = @ \o Ids(handed + 1, NextHanded(Wanted(j)))]
  /\ CASE op[j].name = "chunk" -> Done(j, "ok")
       [] op[j].name = "until" -> GoOn(j, "push")
       [] OTHER -> NextRound(j)

\* End of stream: an error for read_exact, what there is for the others.
ReadEnd(j) ==
  /\ ~ReadBlocks /\ ~(NeedsFlush /\ shut) /\ came = handed
  /\ Receive(0)
  /\ IF op[j].name = "until" THEN GoOn(j, "rest")
     ELSE Done(j, IF op[j].name = "exact" THEN "eof" ELSE "ok")
  /\ UNCHANGED got

ReadBroken(j) ==
  /\ NeedsFlush /\ shut
  /\ Done(j, "closed")
  /\ UNCHANGED <<got, kernelVars>>

ReadWaits(j) ==
  /\ ReadBlocks
  /\ WouldBlock(j)
  /\ UNCHANGED <<got, kernelVars>>

Read(j) ==
  /\ op[j].name \in Reads /\ InCall(j)
  /\ ReadBytes(j) \/ ReadEnd(j) \/ ReadBroken(j) \/ ReadWaits(j)
  /\ UNCHANGED <<sent, buf>>

\* One write(2), or tls_write: records the kernel has no room for stay with
\* rustls, and only an attempt that took nothing reports WouldBlock.  On a
\* blocking handle the call lasts until the kernel has taken everything.
Rest(j) == op[j].n - sent[j]
Accepted(j) == Lesser(Rest(j), room + (IF kind = "tls" THEN TlsRoom - unsent ELSE 0))

\* Wrong: every record is taken to have gone out.
PushedAll(n) == unsent + n

Pushed(n) == Lesser(unsent + n, room)

WriteBlocks(j) == ~shut /\ IF Rest(j) > 0 THEN Accepted(j) = 0 ELSE unsent > room

WriteBytes(j) ==
  /\ Rest(j) > 0 /\ ~shut /\ Accepted(j) > 0
  /\ phase[j] = "asleep" => room > 0
  /\ sent' = [sent EXCEPT ![j] = @ + Accepted(j)]
  /\ room' = room - Pushed(Accepted(j))
  /\ unsent' = unsent + Accepted(j) - Pushed(Accepted(j))
  /\ GoOn(j, IF /\ phase[j] = "asleep" \/ ~nonblock
                /\ IF kind = "tls" THEN unsent' > 0 ELSE Accepted(j) < Rest(j)
                THEN "asleep"
              ELSE IF Inline(j) THEN "held" ELSE "call")
  /\ UNCHANGED <<came, taken, handed, eof, shut>>

\* All handed off; a TLS socket still has to drain its records.
WriteEnd(j) ==
  /\ Rest(j) = 0 /\ unsent <= room /\ (shut => unsent = 0)
  /\ room' = room - unsent /\ unsent' = 0
  /\ Done(j, "ok")
  /\ UNCHANGED <<sent, came, taken, handed, eof, shut>>

WriteBroken(j) ==
  /\ shut /\ Rest(j) + unsent > 0
  /\ Done(j, "closed")
  /\ UNCHANGED <<sent, kernelVars>>

WriteWaits(j) ==
  /\ WriteBlocks(j)
  /\ WouldBlock(j)
  /\ UNCHANGED <<sent, kernelVars>>

Write(j) ==
  /\ op[j].name = "write" /\ InCall(j)
  /\ WriteBytes(j) \/ WriteEnd(j) \/ WriteBroken(j) \/ WriteWaits(j)
  /\ UNCHANGED <<got, buf>>

\* accept and recv_from: one connection or datagram, and no mutex.
TakeItem(j) ==
  /\ op[j].name = "item" /\ phase[j] \in {"call", "asleep"}
  /\ IF came > handed
       THEN /\ Receive(1)
            /\ got' = [got EXCEPT ![j] = Ids(handed + 1, handed + 1)]
            /\ Done(j, "ok")
       ELSE WouldBlock(j) /\ UNCHANGED <<got, kernelVars>>
  /\ UNCHANGED <<sent, buf>>

Io(j) ==
  /\ LookInBuffer(j) \/ Push(j) \/ TakeRest(j) \/ Read(j) \/ Write(j) \/ TakeItem(j)
  /\ UNCHANGED <<kind, op, msgVars, closed, closing, flag, nonblock, timed, mixed>>

\* Would the call's next system call block?
Blocks(j) == CASE op[j].name \in Reads -> ReadBlocks
               [] op[j].name = "write" -> WriteBlocks(j)
               [] OTHER -> came = handed

\* The kernel gives up on a call that sleeps on a socket with a timeout.
TimeOut(j) ==
  /\ phase[j] = "asleep" /\ timed /\ Blocks(j)
  /\ IF Inline(j) THEN Done(j, "timeout") ELSE GoOn(j, "park")
  /\ UNCHANGED <<kind, op, got, sent, msgVars, sockVars, kernelVars, mixed>>

CallStep(j) == TestFlag(j) \/ SwitchMode(j) \/ StoreFlag(j) \/ CheckClosed(j) \/ Io(j)

-----------------------------------------------------------------------------
(* The caller: dispatch_socket and Net.close *)

\* Is another read under way at one of these stages?
Reading(stages) == \E k \in Jobs : op[k].name \in Reads /\ stage[k] \in stages

\* No other coroutine of the actor waits to run, or the caller is inside a
\* generator: the call is made here.  What other actors do with the socket,
\* and what the reactor still does with it, nobody asks.
CallInline(j) ==
  /\ fate[j] = "new" /\ Free(Owner[j])
  /\ fate' = [fate EXCEPT ![j] = "inline"]
  /\ stage' = [stage EXCEPT ![j] = "inline"]
  /\ phase' = [phase EXCEPT ![j] = "mode"]
  /\ mixed' = (mixed \/ (op[j].name \in Reads /\ Reading({"queued", "driven", "table", "inline"})))
  /\ UNCHANGED <<kind, op, answer, got, sent, msgVars, loopVars, sockVars, kernelVars>>

\* Otherwise the coroutine parks and the reactor gets a message.
Submit(j) ==
  /\ fate[j] = "new" /\ Free(Owner[j])
  /\ fate' = [fate EXCEPT ![j] = "waiting"]
  /\ stage' = [stage EXCEPT ![j] = "queued"]
  /\ msgs' = Append(msgs, j) /\ owed' = owed + 1
  /\ mixed' = (mixed \/ (op[j].name \in Reads /\ Reading({"inline"})))
  /\ UNCHANGED <<kind, op, phase, answer, got, sent, notified, loopVars, sockVars, kernelVars>>

Notify ==
  /\ owed > 0
  /\ owed' = owed - 1 /\ notified' = TRUE
  /\ UNCHANGED <<callVars, msgs, loopVars, sockVars, kernelVars, mixed>>

\* go_cancel of the waiting coroutine: the op stays where it is.
Abandon(j) ==
  /\ fate[j] = "waiting" /\ Free(Owner[j])
  /\ fate' = [fate EXCEPT ![j] = "abandoned"]
  /\ UNCHANGED <<kind, op, stage, phase, answer, got, sent, msgVars, loopVars, sockVars, kernelVars,
                 mixed>>

\* Net.close: the flag, then shutdown(Both) of a stream, then a Cancel to the
\* reactor if there is one.
CloseStep(from, to) == closing = from /\ closing' = to

Close ==
  \/ /\ CloseStep("no", "stored")
     /\ \E a \in Actors : Free(a)
     /\ closed' = TRUE
     /\ UNCHANGED <<callVars, msgVars, loopVars, flag, nonblock, timed, buf, kernelVars, mixed>>
  \/ /\ CloseStep("stored", "shut")
     /\ shut' = (kind \in {"tcp", "tls"})
     /\ UNCHANGED <<callVars, msgVars, loopVars, closed, flag, nonblock, timed, buf,
                    came, taken, handed, eof, room, unsent, mixed>>
  \/ /\ CloseStep("shut", "done")
     /\ IF \E j \in Jobs : fate[j] \in {"waiting", "answered", "abandoned"}
          THEN msgs' = Append(msgs, None) /\ owed' = owed + 1
          ELSE UNCHANGED <<msgs, owed>>
     /\ UNCHANGED <<callVars, notified, loopVars, closed, flag, nonblock, timed, buf, kernelVars, mixed>>

-----------------------------------------------------------------------------
(* The reactor's loop *)

Goto(label) == at' = label

\* Poller::wait reports some of the ready handles and disarms those.
Wait ==
  /\ at = "wait"
  /\ LET ready == {h \in armed : Ready(h)}
     IN /\ notified \/ ready # {}
        /\ \E hs \in SUBSET ready :
             /\ hs # {} \/ notified
             /\ batch' = {reg[h] : h \in hs}
             /\ armed' = armed \ hs
  /\ notified' = FALSE
  /\ Goto("drain")
  /\ UNCHANGED <<callVars, msgs, owed, cur, reg, sockVars, kernelVars, mixed>>

DrainSubmit ==
  /\ at = "drain" /\ msgs # <<>> /\ Head(msgs) # None
  /\ msgs' = Tail(msgs)
  /\ cur' = Head(msgs)
  /\ stage' = [stage EXCEPT ![Head(msgs)] = "driven"]
  /\ phase' = [phase EXCEPT ![Head(msgs)] = "handle"]
  /\ Goto("drive")
  /\ UNCHANGED <<kind, op, fate, answer, got, sent, owed, notified, batch, reg, armed,
                 sockVars, kernelVars, mixed>>

\* cancel_socket: every op of the socket in the table is answered `closed`.
Cancelled == {j \in Jobs : stage[j] = "table"}

\* Wrong: the answer goes to whoever made the call, cancelled or not.
DrainCancelAll ==
  /\ at = "drain" /\ msgs # <<>> /\ Head(msgs) = None
  /\ msgs' = Tail(msgs)
  /\ answer' = [j \in Jobs |-> IF j \in Cancelled THEN "closed" ELSE answer[j]]
  /\ stage' = [j \in Jobs |-> IF j \in Cancelled THEN "done" ELSE stage[j]]
  /\ fate' = [j \in Jobs |-> IF j \in Cancelled THEN "answered" ELSE fate[j]]
  /\ Deregister(Cancelled)
  /\ UNCHANGED <<kind, op, phase, got, sent, owed, notified, at, cur, batch, sockVars, kernelVars,
                 mixed>>

DrainCancel ==
  /\ at = "drain" /\ msgs # <<>> /\ Head(msgs) = None
  /\ msgs' = Tail(msgs)
  /\ answer' = [j \in Jobs |-> IF j \in Cancelled THEN "closed" ELSE answer[j]]
  /\ stage' = [j \in Jobs |-> IF j \in Cancelled THEN "done" ELSE stage[j]]
  /\ fate' = [j \in Jobs |-> IF j \in Cancelled /\ fate[j] = "waiting" THEN "answered" ELSE fate[j]]
  /\ Deregister(Cancelled)
  /\ UNCHANGED <<kind, op, phase, got, sent, owed, notified, at, cur, batch, sockVars, kernelVars,
                 mixed>>

DrainEnd ==
  /\ at = "drain" /\ msgs = <<>>
  /\ Goto("events")
  /\ UNCHANGED <<callVars, msgVars, cur, batch, reg, armed, sockVars, kernelVars, mixed>>

\* Pending: a new op is registered, which fails when its handle already is;
\* one that was in the table is armed again.
Register ==
  /\ at = "drive" /\ stage[cur] = "driven" /\ phase[cur] = "park"
  /\ IF reg[HandleOf(cur)] # None THEN Done(cur, "io")
     ELSE /\ reg' = [reg EXCEPT ![HandleOf(cur)] = cur]
          /\ armed' = armed \cup {HandleOf(cur)}
          /\ stage' = [stage EXCEPT ![cur] = "table"]
          /\ phase' = [phase EXCEPT ![cur] = "idle"]
          /\ Leave
          /\ UNCHANGED <<answer, fate, batch>>
  /\ UNCHANGED <<kind, op, got, sent, msgVars, sockVars, kernelVars, mixed>>

\* Wrong: an op that made some progress is not armed again.
RearmIfIdle ==
  /\ at = "drive" /\ stage[cur] = "table" /\ phase[cur] = "park"
  /\ armed' = IF got[cur] = <<>> /\ sent[cur] = 0 THEN armed \cup {HandleOf(cur)} ELSE armed
  /\ phase' = [phase EXCEPT ![cur] = "idle"]
  /\ Leave
  /\ UNCHANGED <<kind, op, stage, fate, answer, got, sent, msgVars, batch, reg, sockVars, kernelVars, mixed>>

Rearm ==
  /\ at = "drive" /\ stage[cur] = "table" /\ phase[cur] = "park"
  /\ armed' = armed \cup {HandleOf(cur)}
  /\ phase' = [phase EXCEPT ![cur] = "idle"]
  /\ Leave
  /\ UNCHANGED <<kind, op, stage, fate, answer, got, sent, msgVars, batch, reg, sockVars, kernelVars, mixed>>

\* advance_token; the event of an op that is gone is stale.
TakeEvent ==
  /\ at = "events"
  /\ \E j \in batch :
       /\ batch' = batch \ {j}
       /\ IF stage[j] = "table"
            THEN /\ cur' = j /\ Goto("drive")
                 /\ phase' = [phase EXCEPT ![j] = "check"]
            ELSE UNCHANGED <<cur, at, phase>>
  /\ UNCHANGED <<kind, op, stage, fate, answer, got, sent, msgVars, reg, armed, sockVars, kernelVars,
                 mixed>>

EventsEnd ==
  /\ at = "events" /\ batch = {}
  /\ Goto("wait")
  /\ UNCHANGED <<callVars, msgVars, cur, batch, reg, armed, sockVars, kernelVars, mixed>>

-----------------------------------------------------------------------------
Loop == \/ Wait \/ DrainSubmit \/ DrainCancel \/ DrainEnd
        \/ Register \/ Rearm \/ TakeEvent \/ EventsEnd
        \/ \E j \in Jobs : InReactor(j) /\ CallStep(j)

InlineStep(j) == Inline(j) /\ CallStep(j)

Peer == PeerSends \/ PeerEnds \/ PeerReceives

\* The peer may stay silent for ever and the program may end: nothing more
\* happens once both have.
Quiet == UNCHANGED vars

Next ==
  \/ Loop \/ Notify \/ Close \/ Peer \/ Quiet
  \/ \E j \in Jobs : Submit(j) \/ CallInline(j) \/ InlineStep(j) \/ TimeOut(j) \/ Abandon(j)

\* The reactor's thread runs; nothing is asked of the actors' threads, of a
\* notification, a close or a timeout under way, or of the peer.
Spec == Init /\ [][Next]_vars /\ WF_vars(Loop)

-----------------------------------------------------------------------------
(* What the reactor promises *)

\* A socket call lives the life JobService describes, whoever carries it out:
\* answered at most once, and never to a coroutine that gave up on it.  (The
\* mailbox that takes an answer to its coroutine is OffloadPool's.)
Service == INSTANCE JobService WITH status <- [j \in Jobs |->
  CASE fate[j] = "inline" -> "new"
    [] fate[j] = "waiting" -> "pending"
    [] OTHER -> fate[j]]

ImplementsJobService == Service!Safety

Elems(s) == {s[i] : i \in DOMAIN s}
Distinct(s) == \A i, k \in DOMAIN s : i # k => s[i] # s[k]
Rising(s) == \A i, k \in DOMAIN s : i < k => s[i] < s[k]

\* Every byte the program has received is in one place, the socket's buffer
\* or one call's hands, and none is lost or repeated, however the buffer's
\* critical sections, the system calls and the pushes of two threads fall; an
\* exact read that succeeded has its length, and a framed read one frame, or
\* at the end of the stream what was left (socket.rs, read_until, and
\* read_until_step).
BytesHaveOneHolder ==
  /\ Distinct(buf)
  /\ Elems(buf) \cup UNION {Elems(got[j]) : j \in Jobs} = 1..handed
  /\ \A j \in Jobs :
       /\ Distinct(got[j]) /\ Elems(got[j]) \cap Elems(buf) = {}
       /\ \A k \in Jobs \ {j} : Elems(got[j]) \cap Elems(got[k]) = {}
       /\ answer[j] = "ok" =>
            /\ op[j].name = "exact" => Len(got[j]) = op[j].n
            /\ op[j].name = "until" =>
                 Ended \/ (got[j] # <<>> /\ \A i \in DOMAIN got[j] :
                              got[j][i] \in Delims <=> i = Len(got[j]))

\* As long as no two threads have read at once, the bytes also stay in order,
\* over-reads, partial reads and reads taking turns included, and what the end
\* of the stream leaves to a framed read holds no delimiter.  (Two actors that
\* read one stream at once do get its bytes out of order: nothing is locked
\* between read(2) and extend_from_slice.)
OneReaderKeepsOrder ==
  ~mixed =>
    /\ Rising(buf)
    /\ \A j \in Jobs :
         /\ Rising(got[j])
         /\ answer[j] = "ok" /\ op[j].name = "until" =>
              \A i \in DOMAIN got[j] : got[j][i] \in Delims => i = Len(got[j])

\* An op in the table always has the means to wake the reactor: its handle is
\* registered for it and armed, unless its event is waiting to be looked at
\* or it is being driven (the module's comment: a missed re-arm hangs the op).
NoOpIsForgotten ==
  \A j \in Jobs : stage[j] = "table" =>
    /\ reg[HandleOf(j)] = j
    /\ HandleOf(j) \in armed \/ j \in batch \/ cur = j

\* When the reactor sleeps and nobody is about to wake it, it has no op of a
\* closed socket, in the table or on the way there, whatever order the submit,
\* the close, the notifications and the events came in (Net.close unblocks a
\* call that is waiting).
CloseLeavesNobodyWaiting ==
  (closing = "done" /\ at = "wait" /\ owed = 0 /\ ~notified) =>
    \A j \in Jobs : ~InReactor(j)

\* KNOWN_ISSUES.md #7 says of set_nonblocking_mode's test and store: "Safe
\* today only because the is_idle() dispatch invariant keeps the inline
\* executor and the reactor from touching one socket at the same time".  Safe
\* would be that the reactor's thread, which drives every socket of the
\* process, never makes its system calls on a blocking handle.
ReactorNeverBlocks == \A j \in Jobs : InReactor(j) => phase[j] # "asleep"

\* The reactor's thread is asleep in a system call, or waits for a mutex.
ReactorStuck == \E j \in Jobs : InReactor(j) /\ (phase[j] = "asleep" \/ Waits(j))

\* An op whose half is ready and whose next system call would not block,
\* a read or a write, TCP, TLS, accept or recv_from, is driven, for as long as
\* the reactor does not come to be stuck in a system call or behind a mutex
\* for ever (reactor_loop; when it is, no socket of the process advances).
CanAdvance(j) == stage[j] = "table" /\ Ready(Half(j)) /\ ~Blocks(j)

ReadyOpsAdvance ==
  []<>~ReactorStuck => \A j \in Jobs : CanAdvance(j) ~> ~CanAdvance(j)

=============================================================================
