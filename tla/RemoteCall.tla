----------------------------- MODULE RemoteCall -----------------------------
(***************************************************************************)
(* What the relay promises its callers.  A request is one permit to run it *)
(* once; the founder's retry is one more.  A permit is used, lost (the     *)
(* desktop died, or refused to run it) or withdrawn, and the caller hears  *)
(* that the device is offline only when the permit it withdrew was never   *)
(* used.  Nothing is said of when an answer comes.                         *)
(***************************************************************************)
EXTENDS Integers

CONSTANTS Task, MaxRetries

\* An answer, "not run, device offline", or no verdict at all.
Outcome == {"done", "refused", "offline", "unsettled"}

VARIABLES
  permit,   \* the requests that may still be run
  ran,      \* how often each request was run
  retried,  \* how often the founder put it back
  told      \* what its caller heard

vars == <<permit, ran, retried, told>>

Init ==
  /\ permit = {}
  /\ ran = [t \in Task |-> 0]
  /\ retried = [t \in Task |-> 0]
  /\ told = [t \in Task |-> "unasked"]

Ask(t) ==
  /\ told[t] = "unasked"
  /\ told' = [told EXCEPT ![t] = "waiting"]
  /\ permit' = permit \cup {t}
  /\ UNCHANGED <<ran, retried>>

Run(t) ==
  /\ t \in permit
  /\ permit' = permit \ {t}
  /\ ran' = [ran EXCEPT ![t] = @ + 1]
  /\ UNCHANGED <<retried, told>>

\* A desktop that crashes, a request held or refused, a drained queue.
Lose(T) ==
  /\ permit' = permit \ T
  /\ UNCHANGED <<ran, retried, told>>

Retry(t) ==
  /\ t \notin permit /\ told[t] # "unasked" /\ retried[t] < MaxRetries
  /\ permit' = permit \cup {t}
  /\ retried' = [retried EXCEPT ![t] = @ + 1]
  /\ UNCHANGED <<ran, told>>

\* An answer comes of a request that was used up; "not yet" of any.
Tell(t, o) ==
  /\ told[t] = "waiting"
  /\ told' = [told EXCEPT ![t] = o]
  /\ \/ o \in {"done", "refused"} /\ t \notin permit /\ UNCHANGED permit
     \/ o = "unsettled" /\ UNCHANGED permit
     \/ o = "offline" /\ t \in permit /\ permit' = permit \ {t}
  /\ UNCHANGED <<ran, retried>>

Next ==
  \/ \E t \in Task : Ask(t) \/ Run(t) \/ Retry(t)
  \/ \E T \in SUBSET Task : Lose(T)
  \/ \E t \in Task, o \in Outcome : Tell(t, o)

Spec == Init /\ [][Next]_vars

-----------------------------------------------------------------------------
\* No request runs more often than it was asked and retried.
AtMostOnce == \A t \in Task : ran[t] <= 1 + retried[t]

\* A caller told "device offline, nothing was run" is right, then and later,
\* unless the founder put the request back.
OfflineIsTrue == \A t \in Task : told[t] = "offline" => ran[t] <= retried[t]
=============================================================================
