----------------------------- MODULE LeaseBoard -----------------------------
(***************************************************************************)
(* What the task table promises, without calls and transactions: a board   *)
(* of tasks.  A task is free, or one agent's until its lease passes, or    *)
(* finished.  It goes from one agent to another only over free; it lapses  *)
(* only after its lease; a lease ends at most Lease ticks from now.        *)
(***************************************************************************)
EXTENDS Integers

CONSTANTS Task, Owner, NULL, Lease

VARIABLES
  board,   \* each task's status, its agent and the end of its lease
  now      \* the time

vars == <<board, now>>

Absent == [status |-> "absent", owner |-> NULL, lease |-> NULL]
Free == [status |-> "open", owner |-> NULL, lease |-> NULL]
Taken(o, l) == [status |-> "claimed", owner |-> o, lease |-> l]
Finished(o) == [status |-> "done", owner |-> o, lease |-> NULL]

Init ==
  /\ board = [t \in Task |-> Absent]
  /\ now = 0

\* A task appears: to do, or as the record of one that was done.
Post(t, e) ==
  /\ board[t] = Absent
  /\ board' = [board EXCEPT ![t] = e]

\* An agent takes a free task, or renews its own.  Its clock may be behind.
Take(t, o, l) ==
  /\ \/ board[t] = Free
     \/ board[t].status = "claimed" /\ board[t].owner = o
  /\ board' = [board EXCEPT ![t] = Taken(o, l)]

\* Given up, freed by the founder, or opened again.
GiveBack(t) ==
  /\ board[t].status \in {"claimed", "done"}
  /\ board' = [board EXCEPT ![t] = Free]

\* Done by its agent, or closed by the founder; it stays that agent's.
Finish(t) ==
  /\ board[t].status \in {"open", "claimed"}
  /\ board' = [board EXCEPT ![t] = Finished(board[t].owner)]

\* Some of the leases that have passed are ended.
Passed == {t \in Task : board[t].status = "claimed" /\ board[t].lease < now}
Lapse(T) == board' = [t \in Task |-> IF t \in T THEN Free ELSE board[t]]

Tick == now' = now + 1 /\ UNCHANGED board

Change(t) ==
  \/ GiveBack(t) \/ Finish(t)
  \/ \E e \in {Free} \cup {Finished(o) : o \in Owner \cup {NULL}} : Post(t, e)
  \/ \E o \in Owner, l \in 0..(now + Lease) : Take(t, o, l)

Next ==
  \/ Tick
  \/ /\ board' # board /\ UNCHANGED now
     /\ (\E t \in Task : Change(t)) \/ (\E T \in SUBSET Passed : Lapse(T))

Spec == Init /\ [][Next]_vars

-----------------------------------------------------------------------------
\* An agent that died with a task blocks it for at most Lease ticks.
LeaseEnds == \A t \in Task : board[t].status = "claimed" => board[t].lease <= now + Lease
=============================================================================
