------------------------------ MODULE JobService ------------------------------
(***************************************************************************)
(* What a blocking call that leaves its actor thread promises, whoever     *)
(* carries it out: it is answered at most once, its coroutine resumes once *)
(* and never before the answer, and a call that is not lost to a panic is  *)
(* answered in the end.  Nothing is said of threads, queues or mailboxes.  *)
(***************************************************************************)
CONSTANT Jobs

VARIABLE status

Statuses == {"new", "pending", "answered", "resumed", "abandoned", "lost"}

Init == status = [j \in Jobs |-> "new"]

(* The life of one call.  Submitted, it is pending until it is answered or   *)
(* lost to a panic (or submitted after the loss); a drain of the mailbox     *)
(* resumes its coroutine; one that was cancelled is abandoned and its        *)
(* answer, there or to come, is dropped; a call carried out on the actor's   *)
(* own thread is over at once.                                               *)
Moves == {<<"new", "pending">>, <<"pending", "answered">>, <<"pending", "lost">>, <<"new", "lost">>,
          <<"answered", "resumed">>, <<"new", "resumed">>,
          <<"pending", "abandoned">>, <<"answered", "abandoned">>, <<"lost", "abandoned">>}

\* Calls live independently: a batch of answers may resume several at once.
Next ==
  /\ status' \in [Jobs -> Statuses]
  /\ \A j \in Jobs : status'[j] = status[j] \/ <<status[j], status'[j]>> \in Moves

Answered == \A j \in Jobs : (status[j] = "pending") ~> (status[j] # "pending")

\* Some calls may never be answered: Safety is all a socket can promise.
Safety == Init /\ [][Next]_status

Spec == Safety /\ Answered

===============================================================================
